---------------------------- MODULE ConfigLayers ----------------------------
(***************************************************************************)
(* The configuration of a bot on disk and in memory (runtime_config.rs): a   *)
(* chain of files, each of which may include others, merged over the        *)
(* defaults; `hunt save` writes the hunt section back into the last file.   *)
(***************************************************************************)
EXTENDS Naturals, Sequences, FiniteSets

CONSTANTS ConfigFiles,  \* all files there may be
          Chains,       \* the paths given on the command line
          RuleIds,
          Params,       \* the keys of a rule and of the hunt section
          Settings,     \* what a key may be set to; "wrong" is of the wrong type
          Contents      \* Contents[f]: what may be written in file f

(* What a section says: some of the keys.                                  *)
Section == UNION {[keys -> Settings] : keys \in SUBSET Params}
Rule == [id : RuleIds, says : Section]
File == [state : {"ok", "bad", "missing"}, include : Seq(ConfigFiles), rules : Seq(Rule), hunt : Section]

ASSUME LayersAssumption ==
    /\ IsFiniteSet(ConfigFiles) /\ "default" \in Settings
    /\ Chains \subseteq Seq(ConfigFiles) \ {<<>>} /\ Chains # {}
    /\ \A f \in ConfigFiles : \A w \in Contents[f] : w \in File /\ w.state = "ok"

VARIABLES
    chain,  \* the paths of this bot
    disk,   \* the files
    cfg,    \* in memory; fresh is history: as it was loaded, from files as they are
    saved   \* history: the hunt section last saved, until someone changes that file

layerVars == <<chain, disk, cfg, saved>>

Hunts == [Params -> Settings]
LayersTypeOK ==
    /\ chain \in Chains /\ disk \in [ConfigFiles -> File]
    /\ cfg \in [hunt : Hunts, rules : Seq(Rule), fresh : BOOLEAN]
    /\ \/ saved = {}
       \/ \E h \in Hunts : saved = {h}

Unsaid == [key \in {} |-> "default"]
Gone == [state |-> "missing", include |-> <<>>, rules |-> <<>>, hunt |-> Unsaid]
Default == [key \in Params |-> "default"]
Defaults == [hunt |-> Default, rules |-> <<>>, fresh |-> FALSE]
LastPath == chain[Len(chain)]

LayersInit ==
    /\ chain \in Chains /\ cfg = Defaults /\ saved = {}
    /\ disk \in [ConfigFiles -> {Gone} \cup UNION {Contents[f] : f \in ConfigFiles}]
    /\ \A f \in ConfigFiles : disk[f] \in {Gone} \cup Contents[f]

-----------------------------------------------------------------------------
(* A list taken in from the front: step[x] is what x makes of it so far.    *)
Folded(step, start, list) ==
    LET upTo[n \in 0..Len(list)] == IF n = 0 THEN start ELSE step[list[n]][upTo[n - 1]]
    IN  upTo[Len(list)]

(* collect_layers: what a file includes comes before it, each file once; a   *)
(* path of the chain may be missing, an included file may not.  `files` has  *)
(* the state of each file and what it includes, `within` collects those.    *)
Collections == [out : Seq(ConfigFiles), done : SUBSET ConfigFiles, error : BOOLEAN]
Collected(files, within, c, f, missingOk) ==
    IF c.error \/ (files[f].state # "missing" /\ f \in c.done) THEN c
    ELSE IF files[f].state = "missing" THEN [c EXCEPT !.error = ~missingOk]
    ELSE IF files[f].state = "bad" THEN [c EXCEPT !.error = TRUE]
    ELSE LET all == Folded(within, [c EXCEPT !.done = @ \cup {f}], files[f].include)
         IN  IF all.error THEN all ELSE [all EXCEPT !.out = Append(@, f)]
(* As deep as there are files: below that every file is done.               *)
Within(files) ==
    LET nested[n \in 0..Cardinality(ConfigFiles)] ==
            [f \in ConfigFiles |-> [c \in Collections |->
                IF n = 0 THEN c ELSE Collected(files, nested[n - 1], c, f, FALSE)]]
    IN  nested[Cardinality(ConfigFiles)]
CollectedAll(files, paths, missingOk) ==
    LET path == [f \in ConfigFiles |-> [c \in Collections |-> Collected(files, Within(files), c, f, missingOk)]]
    IN  Folded(path, [out |-> <<>>, done |-> {}, error |-> FALSE], paths)
Listing == [f \in ConfigFiles |-> [state |-> disk[f].state, include |-> disk[f].include]]
Layers(missingOk) == CollectedAll(Listing, chain, missingOk)

(* merge_json: key by key, the later layer wins.                            *)
Over(new, old) == [key \in DOMAIN new \cup DOMAIN old |-> IF key \in DOMAIN new THEN new[key] ELSE old[key]]

(* merge_by_id: into the rule of that id, or behind the others.             *)
(* Slip: the whole rule is replaced, as in other lists. *)
MergeEntrySlip(rules, r) ==
    LET same == {i \in DOMAIN rules : rules[i].id = r.id}
    IN  IF same = {} THEN Append(rules, r)
        ELSE [rules EXCEPT ![CHOOSE i \in same : \A j \in same : i <= j] = r]
MergeEntry(rules, r) ==
    LET same == {i \in DOMAIN rules : rules[i].id = r.id}
    IN  IF same = {} THEN Append(rules, r)
        ELSE [rules EXCEPT ![CHOOSE i \in same : \A j \in same : i <= j].says = Over(r.says, @)]
MergeById(base, over) ==
    Folded([r \in Rule |-> [rules \in Seq(Rule) |-> MergeEntry(rules, r)]], base, over)

(* All layers over the defaults; the two sections do not touch each other.   *)
MergedRules(said, out) ==
    Folded([f \in ConfigFiles |-> [rules \in Seq(Rule) |-> MergeById(rules, said[f])]], <<>>, out)
MergedHunt(said, out) ==
    Folded([f \in ConfigFiles |-> [hunt \in Hunts |-> Over(said[f], hunt)]], Default, out)
SaidRules == [f \in ConfigFiles |-> disk[f].rules]
SaidHunt == [f \in ConfigFiles |-> disk[f].hunt]
Merged(out) == [hunt |-> MergedHunt(SaidHunt, out), rules |-> MergedRules(SaidRules, out), fresh |-> TRUE]

(* from_value: what is merged has the types of a configuration.             *)
TypesFit(c) ==
    /\ \A key \in Params : c.hunt[key] # "wrong"
    /\ \A i \in DOMAIN c.rules : \A key \in DOMAIN c.rules[i].says : c.rules[i].says[key] # "wrong"

-----------------------------------------------------------------------------
(* At the start: any bad layer means bare defaults; no file at all, and the *)
(* defaults are written to the last path.                                  *)
LoadFrom ==
    LET l == Layers(TRUE)
        bare == l.error \/ l.out = <<>> \/ ~TypesFit(Merged(l.out))
    IN  /\ cfg' = IF bare THEN Defaults ELSE Merged(l.out)
        /\ disk' = IF l.error \/ l.out # <<>> THEN disk
                   ELSE [disk EXCEPT ![LastPath] = [Gone EXCEPT !.state = "ok", !.hunt = Default]]
        /\ UNCHANGED <<chain, saved>>
(* The command `reload`: on any error what is in memory stays.             *)
ReloadFrom ==
    LET l == Layers(FALSE)
    IN  ~l.error /\ TypesFit(Merged(l.out)) /\ cfg' = Merged(l.out) /\ UNCHANGED <<chain, disk, saved>>

(* While it runs: a parameter of hunt, a key of a rule.                     *)
Tune ==
    /\ \E key \in Params, v \in Settings \ {"wrong"} :
           \/ cfg' = [cfg EXCEPT !.hunt[key] = v, !.fresh = FALSE]
           \/ \E i \in DOMAIN cfg.rules :
                  cfg' = [cfg EXCEPT !.rules[i].says = Over([k \in {key} |-> v], @), !.fresh = FALSE]
    /\ UNCHANGED <<chain, disk, saved>>

(* `hunt save`: only the hunt section of the last path; a file that does   *)
(* not parse is left alone, a missing one is made.                         *)
SaveHunt ==
    /\ disk[LastPath].state # "bad"
    /\ disk' = [disk EXCEPT ![LastPath].hunt = cfg.hunt, ![LastPath].state = "ok"]
    /\ cfg' = [cfg EXCEPT !.fresh = @ /\ disk[LastPath].state = "ok"]
    /\ saved' = {cfg.hunt} /\ UNCHANGED chain

(* Someone breaks a file with a typo or repairs it, writes it anew, or      *)
(* takes it away.                                                          *)
EditFile ==
    /\ \E f \in ConfigFiles :
           \/ disk[f].state = "ok" /\ disk' = [disk EXCEPT ![f].state = "bad"] /\ UNCHANGED saved
           \/ disk[f].state = "bad" /\ disk' = [disk EXCEPT ![f].state = "ok"] /\ UNCHANGED saved
           \/ /\ \E w \in Contents[f] \cup {Gone} : disk' = [disk EXCEPT ![f] = w]
              /\ saved' = IF f = LastPath THEN {} ELSE saved
    /\ cfg' = [cfg EXCEPT !.fresh = FALSE] /\ UNCHANGED chain

LayersNext == LoadFrom \/ ReloadFrom \/ Tune \/ SaveHunt \/ EditFile

-----------------------------------------------------------------------------
(* runtime_config.rs:733: what was saved is what the next start loads, as   *)
(* long as nobody has changed that file and it is the last path only: not   *)
(* included by a file, not earlier in the chain, for then it is merged      *)
(* earlier.                                                                *)
SavedHuntIsLoaded ==
    /\ cfg.fresh /\ disk[LastPath].state = "ok"
    /\ \A f \in ConfigFiles : \A i \in DOMAIN disk[f].include : disk[f].include[i] # LastPath
    /\ \A i \in DOMAIN chain : chain[i] = LastPath => i = Len(chain)
    => saved \subseteq {cfg.hunt}

(* Of the rules in memory each was said by a layer, every id that a layer   *)
(* says is there once, and each key has the value of the last place, by      *)
(* layer and then by line, that says it, in whatever order the files        *)
(* include each other.                                                      *)
Before(x, y) == x[1] < y[1] \/ (x[1] = y[1] /\ x[2] <= y[2])
LastWordCounts ==
    LET out == Layers(TRUE).out
        places == UNION {{i} \X DOMAIN disk[out[i]].rules : i \in DOMAIN out}
        At(x) == disk[out[x[1]]].rules[x[2]]
    IN  cfg.fresh =>
        /\ \A i, j \in DOMAIN cfg.rules : cfg.rules[i].id = cfg.rules[j].id => i = j
        /\ {cfg.rules[i].id : i \in DOMAIN cfg.rules} = {At(x).id : x \in places}
        /\ \A i \in DOMAIN cfg.rules, key \in Params :
               LET sayers == {x \in places : At(x).id = cfg.rules[i].id /\ key \in DOMAIN At(x).says}
               IN  /\ key \in DOMAIN cfg.rules[i].says <=> sayers # {}
                   /\ \A x \in sayers : (\A y \in sayers : Before(y, x)) => cfg.rules[i].says[key] = At(x).says[key]
=============================================================================
