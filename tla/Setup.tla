------------------------------- MODULE Setup -------------------------------
(***************************************************************************)
(* From the command line to running bots: profiles are chosen, accounts and *)
(* passwords put together; with one account the wizard, the bot and the     *)
(* screen take turns from then on.  A behaviour is about that, or about the *)
(* configuration files of one bot: `about`.                                *)
(***************************************************************************)
EXTENDS Startup, SingleSession, ConfigLayers

VARIABLE about   \* which of the two the behaviour is about

setupVars == <<picker, startVars, singleVars, layerVars, about>>

SetupTypeOK == StartTypeOK /\ SingleTypeOK /\ LayersTypeOK

SetupInit ==
    /\ StartInit /\ SingleInit /\ LayersInit /\ about \in {"start", "config"}
    /\ about = "start" => chain = (CHOOSE c \in Chains : TRUE) /\ disk = [f \in ConfigFiles |-> Gone]
    /\ about = "config" => way = "config"

Starting == about = "start" /\ StartNext /\ UNCHANGED <<singleVars, layerVars, about>>
(* One account: what is missing is asked by the wizard. *)
OneBot ==
    /\ about = "start" /\ at = "single"
    /\ \/ Open({f \in Must : f \in DOMAIN config => config[f] # None}) /\ HandOver
       \/ SingleNext /\ UNCHANGED <<picker, startVars>>
    /\ UNCHANGED <<layerVars, about>>
Configuring == about = "config" /\ LayersNext /\ UNCHANGED <<picker, startVars, singleVars, about>>

SetupNext == Starting \/ OneBot \/ Configuring

(* Threads and tasks are scheduled; people press keys when they like.      *)
AloneIn(A) == A /\ UNCHANGED <<picker, startVars, layerVars, about>>
Fairness ==
    /\ WF_setupVars(AloneIn(Running /\ TakeResult)) /\ WF_setupVars(AloneIn(Start)) /\ WF_setupVars(AloneIn(StoreRunning))
    /\ WF_setupVars(AloneIn(AfterRun)) /\ WF_setupVars(AloneIn(Join)) /\ WF_setupVars(AloneIn(BotTells))
    /\ WF_setupVars(AloneIn(Running /\ Leave)) /\ WF_setupVars(AloneIn(Running /\ PollEvents))

SetupSpec == SetupInit /\ [][SetupNext]_setupVars /\ Fairness

-----------------------------------------------------------------------------
(* Everything has its type, and what the picker hands over is what the user *)
(* has ticked (profile.rs, on_key).                                         *)
ChoiceIsKept == SetupTypeOK /\ TickedIsTaken

(* What `hunt save` wrote is what the next start loads, and of the layers   *)
(* that name a rule the last one counts (runtime_config.rs).                *)
FilesAreHeeded == SavedHuntIsLoaded /\ LastWordCounts

(* With one account: a run that was quit ends the program, and one that     *)
(* failed brings the wizard back (lib.rs, the loop around run).             *)
RunIsFollowedUp == QuitEndsProgram /\ FailureBringsWizard
=============================================================================
