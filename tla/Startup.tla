------------------------------ MODULE Startup ------------------------------
(***************************************************************************)
(* From the command line to the accounts (lib.rs, config.rs, login.rs,     *)
(* credentials.rs): every profile has its own login section, and gets its   *)
(* account and password from there, from the store of remembered passwords, *)
(* from --password or from the user.                                       *)
(***************************************************************************)
EXTENDS Picker

(* A profile's login section: its account is named after the profile.      *)
Logins == [section : BOOLEAN, account : BOOLEAN, password : BOOLEAN]
Stores == {"absent", "corrupt", "ok"}

VARIABLES
    way,      \* how the profiles are given: "pick", "config", "chain", "profiles"
    at,       \* "pick", "args", "templates", "ask", "single", "console", "launched"
    args,     \* the command line
    login,    \* the login sections on disk
    config,   \* the configuration all accounts are copied from
    store,    \* .manager.json: its state, and the profiles with a password
    creds,    \* what is known of it, with what was added since
    template, \* per account: whose account, and which password
    ask,      \* profiles whose password is still to be asked, and the answers
    launch    \* per account that was started: what it logs in with first

startVars == <<way, at, args, login, config, store, creds, template, ask, launch>>

None == <<"none">>
Own(p) == <<"own", p>>        \* from the login section of p
CLI == <<"cli">>              \* --account, --password
Kept(p) == <<"kept", p>>      \* from the store
Typed(p) == <<"typed", p>>    \* the user's answer
Values == {None, CLI} \cup UNION {{Own(p), Kept(p), Typed(p)} : p \in Names}
Args == [account : BOOLEAN, password : BOOLEAN, manual : BOOLEAN, start : SUBSET Names,
         remember : BOOLEAN, tty : BOOLEAN]
NoAsk == [left |-> {}, answers |-> {}]

Templates == [account : Values, password : Values]
StartTypeOK ==
    /\ picker \in Menus /\ InList(picker)
    /\ way \in {"pick", "config", "chain", "profiles"}
    /\ at \in {"pick", "args", "templates", "ask", "single", "console", "launched"}
    /\ args \in Args /\ login \in [Names -> Logins] /\ config \in Templates
    /\ store.state \in Stores /\ store.has \subseteq Names
    /\ \A p \in DOMAIN creds : creds[p] \in Values
    /\ \A p \in DOMAIN template : template[p] \in Templates
    /\ \A p \in DOMAIN launch : launch[p] \in Templates
    /\ ask.left \subseteq Names /\ ask.answers \subseteq Names

Plain == [account |-> FALSE, password |-> FALSE, manual |-> FALSE, start |-> {}, remember |-> FALSE, tty |-> TRUE]
NoLogin == [section |-> FALSE, account |-> FALSE, password |-> FALSE]
(* Nothing is read yet, or what was read is used up.                       *)
Unread == [picker |-> Closed, args |-> Plain, login |-> [p \in Names |-> NoLogin],
           config |-> [account |-> None, password |-> None],
           store |-> [state |-> "absent", has |-> {}], creds |-> <<>>]
StartInit ==
    /\ way \in {"pick", "config", "chain", "profiles"}
    /\ \E have \in SUBSET (1..Files), legacy \in BOOLEAN :
           picker \in IF way = "pick" THEN Scans(have, legacy) ELSE {Closed}
    /\ at = (IF way = "pick" THEN "pick" ELSE "args")
    /\ args = Unread.args /\ login = Unread.login /\ config = Unread.config
    /\ store = Unread.store /\ creds = Unread.creds /\ template = <<>> /\ ask = NoAsk
    /\ launch = <<>>

Pick == /\ at = "pick"
        /\ \/ picker.open /\ PickerNext /\ UNCHANGED at
           \/ ~picker.open /\ picker.picked # <<>> /\ at' = "args" /\ UNCHANGED picker
        /\ UNCHANGED <<way, args, login, config, store, creds, template, ask, launch>>

-----------------------------------------------------------------------------
(* The profiles that become accounts of their own; empty: one bot.         *)
Many == picker.ticked # {}
MultiPaths == IF way \in {"chain", "profiles"} THEN [p \in 1..Files |-> p]
              ELSE IF Many THEN picker.picked ELSE <<>>
(* The file that load_default reads.                                       *)
WritePath == CASE way = "pick" /\ ~Many -> picker.picked[1]
               [] way = "config" -> 1
               [] way = "chain" -> Files
               [] OTHER -> Legacy

(* The account or password that login l of profile p fills in.             *)
FillAccount(v, p) == IF v = None /\ login'[p].account THEN Own(p) ELSE v
FillPassword(v, p) == IF v = None /\ login'[p].password THEN Own(p) ELSE v
ApplyLogin(c, p) == [account |-> FillAccount(c.account, p), password |-> FillPassword(c.password, p)]

(* The command line and the files are read: CLI first, then load_default,   *)
(* then, for several accounts, the first profile.                          *)
ReadAll ==
    /\ at = "args"
    /\ args' \in {a \in [account : BOOLEAN, password : BOOLEAN, manual : BOOLEAN, start : {{}, {1}},
                         remember : BOOLEAN, tty : BOOLEAN] :
                      a.manual \/ Many \/ MultiPaths = <<>> => a.start = {} /\ a.tty /\ ~(a.manual /\ Many)}
    /\ \E f \in [ToSet(MultiPaths) \cup {WritePath} ->
                    {l \in Logins : (l.password => l.account) /\ (l.account => l.section)}] :
           login' = [p \in Names |-> IF p \in DOMAIN f THEN f[p] ELSE NoLogin]
    /\ store' \in [state : {"corrupt"}, has : {{}}] \cup [state : {"ok"}, has : {{1}, {2}}]
    /\ creds' = [p \in store'.has |-> Kept(p)]     \* a corrupt store counts as empty
    /\ LET cli == [account |-> IF args'.account THEN CLI ELSE None,
                   password |-> IF args'.password THEN CLI ELSE None]
           c == ApplyLogin(cli, WritePath)
       IN  config' = IF MultiPaths # <<>> /\ c.account = None THEN ApplyLogin(c, MultiPaths[1]) ELSE c
    /\ at' = (IF MultiPaths = <<>> THEN "single" ELSE "templates")
    /\ UNCHANGED <<picker, way, template, ask, launch>>

WillAutostart(p) == ~args.manual /\ ~Many /\ (args.start = {} \/ p \in args.start)

(* The profile's own login over the copy of config; without a section the   *)
(* copy stays as it is.                                                    *)
(* Slip: the gaps are filled, as for one account. *)
SessionTemplateSlip(p) ==
    [account |-> IF config.account = None /\ login[p].account THEN Own(p) ELSE config.account,
     password |-> IF config.password = None /\ login[p].password THEN Own(p) ELSE config.password]
SessionTemplate(p) ==
    IF ~login[p].section THEN config
    ELSE LET own == IF login[p].password THEN Own(p) ELSE None
             pw == IF args.password THEN config.password ELSE own
         IN  [account |-> IF login[p].account THEN Own(p) ELSE config.account,
              password |-> pw]
WithStore(c, p) == IF c.password = None /\ p \in DOMAIN creds THEN [c EXCEPT !.password = creds[p]] ELSE c

(* What is known with these passwords added.                               *)
Noted(pw) == [p \in DOMAIN pw \cup DOMAIN creds |-> IF p \in DOMAIN pw THEN pw[p] ELSE creds[p]]

(* One after the other: template, store, and the own password is noted.     *)
MakeTemplates ==
    /\ at = "templates"
    /\ LET S == ToSet(MultiPaths)
           noted == IF args.remember THEN {p \in S : SessionTemplate(p).password # None} ELSE {}
           t == [p \in S |-> WithStore(SessionTemplate(p), p)]
           missing == {p \in S : WillAutostart(p) /\ t[p].password = None}
       IN  /\ template' = t
           /\ creds' = Noted([p \in noted |-> t[p].password])
           /\ ask' = [left |-> missing, answers |-> {}]
           /\ at' = (IF missing = {} THEN "console" ELSE "ask")
    /\ UNCHANGED <<picker, way, args, login, config, store, launch>>

(* Passwords given to some accounts, noted, and saved if that is wanted. *)
Supply(pw) ==
    /\ template' = [p \in DOMAIN template |->
                       IF p \in DOMAIN pw THEN [template[p] EXCEPT !.password = pw[p]] ELSE template[p]]
    /\ creds' = Noted(pw)
    /\ store' = IF args.remember THEN [state |-> "ok", has |-> DOMAIN creds'] ELSE store
    /\ at' = "console" /\ ask' = NoAsk
Skip == at' = "console" /\ ask' = NoAsk /\ UNCHANGED <<template, creds, store>>

(* The next one to be asked, in the order of the accounts.                 *)
IsNext(p) == \E i \in DOMAIN MultiPaths : /\ MultiPaths[i] = p /\ p \in ask.left
                                          /\ \A j \in 1..(i - 1) : MultiPaths[j] \notin ask.left

(* The passwords that are missing: the one all share, or nobody to ask, or  *)
(* one question each; an empty answer skips one, Esc throws all away.      *)
AskPasswords ==
    /\ at = "ask"
    /\ IF config.password # None THEN Supply([p \in ask.left |-> config.password])
       ELSE IF ~args.tty THEN Skip
       ELSE \/ Skip
            \/ \E p \in ask.left, given \in BOOLEAN :
                  /\ IsNext(p) /\ UNCHANGED <<at, template, creds, store>>
                  /\ ask' = [left |-> ask.left \ {p}, answers |-> IF given THEN ask.answers \cup {p} ELSE ask.answers]
            \/ ask.left = {} /\ Supply([p \in ask.answers |-> Typed(p)])
    /\ UNCHANGED <<picker, way, args, login, config, launch>>

(* The main thread starts the accounts with configurations of its own: the  *)
(* profile over the copy once more, without what the store or the user gave *)
(* for the template.  The user's keys act on the accounts after that.       *)
LaunchFirst ==
    /\ at = "console" /\ at' = "launched"
    /\ launch' = [p \in {q \in ToSet(MultiPaths) : WillAutostart(q)} |-> SessionTemplate(p)]
    /\ UNCHANGED <<picker, way, args, login, config, store, creds, template, ask>>

(* One account: the rest of the program has the configuration now.         *)
HandOver ==
    /\ at = "single" /\ way' = "config"
    /\ picker' = Unread.picker /\ args' = Unread.args /\ login' = Unread.login
    /\ config' = Unread.config /\ store' = Unread.store /\ creds' = Unread.creds
    /\ UNCHANGED <<at, template, ask, launch>>

StartNext == Pick \/ ReadAll \/ MakeTemplates \/ AskPasswords \/ LaunchFirst

-----------------------------------------------------------------------------
(* config.rs:241: an account whose profile names one is logged in as itself: *)
(* with that account, and with the password written there unless --password *)
(* overrules it.  That goes for the template, which later starts use, and   *)
(* for the first login, which knows no other account or password than the   *)
(* template's: at most it lacks the password.                              *)
Itself(p, t) ==
    /\ login[p].account => t.account = Own(p)
    /\ login[p].password /\ ~args.password => t.password = Own(p)
OwnLogin ==
    /\ at \in {"console", "launched"} => \A p \in DOMAIN template : Itself(p, template[p])
    /\ at = "launched" => \A p \in DOMAIN launch :
           /\ Itself(p, launch[p]) /\ launch[p].account = template[p].account
           /\ launch[p].password \in {None, template[p].password}

(* lib.rs:443: what is missing is asked before the launch, for otherwise the *)
(* account would fail at its login: so the first login has the password that *)
(* was found or asked.  The code does not do it.                            *)
FirstLoginAsAsked ==
    at = "launched" => \A p \in DOMAIN launch : launch[p].password = template[p].password
=============================================================================
