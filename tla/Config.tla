------------------------------- MODULE Config -------------------------------
(***************************************************************************)
(* The configuration of a project: where load_or_default() finds it, and   *)
(* the commands that write it, `nift init` and `nift migrate`.  A command  *)
(* is several system calls long, may be killed between any two of them,    *)
(* and takes no lock: whatever `nift build`, `serve` or `clean` would load *)
(* in the meantime is Effective in that state.                             *)
(*                                                                         *)
(* A v1 file is the sequence of <<key, value>> pairs of its lines, a       *)
(* nift.json the fields it has.  Either may be Missing, or there and of no *)
(* use (Bad): a v1 file that cannot be read, a nift.json that json::parse  *)
(* or get<>() throws on, such as one cut off in the middle.                *)
(***************************************************************************)
EXTENDS Naturals, Sequences, FiniteSetsExt

CONSTANTS
  Texts,        \* what the author may put in a v1 file
  Objects,      \* what the author may put in nift.json
  Tracked,      \* contents of a tracked.json
  Value,        \* values of the fields
  Absolute,     \* the values that rebase() leaves alone: absolute or empty
  Defaults,     \* the member initializers of ProjectConfig
  MaxEdit,      \* bound: how often the author edits a file
  MaxCommand    \* bound: how many commands are run

Field == {"content_dir", "output_dir"}
Place == {"nift.config", "nsm.config", "siteInfo/nsm.config", ".nsm/nsm.config",
          ".nsm/site.config"}
Key == {"contentDir", "siteDir", "outputDir", "other"}

Missing == [file |-> "missing"]
Bad == [file |-> "bad"]
Whole(x) == [file |-> "whole", data |-> x]
File(s) == {Missing, Bad} \cup {Whole(x) : x \in s}

ASSUME ConfigAssumption ==
  /\ Texts \subseteq Seq(Key \X Value)
  /\ Objects \subseteq UNION {[s -> Value] : s \in SUBSET Field}
  /\ Absolute \subseteq Value
  /\ Defaults \in [Field -> Value]
  /\ MaxEdit \in Nat /\ MaxCommand \in Nat

VARIABLES
  v1,           \* the v1 configuration files, by place
  nift_json,    \* <root>/nift.json
  v1_tracked,   \* siteInfo/tracked.json
  tracked,      \* .nift/tracked.json
  sample,       \* content/index.html
  pc,           \* the point the running command has reached
  job,          \* which command that is or was
  cfg,          \* its local cfg, as to_json() will write it
  rc,           \* how the last command ended
  lost,         \* a write of the last command was lost
  from,         \* history: what was in force when the migration began
  kept,         \* history: the author has changed nothing since
  edits, commands

vars == <<v1, nift_json, v1_tracked, tracked, sample, pc, job, cfg, rc, lost, from, kept,
          edits, commands>>
author == <<v1, v1_tracked, edits>>

-----------------------------------------------------------------------------
(***************************************************************************)
(* Reading.                                                                *)
(***************************************************************************)
translate_config_key(k) ==
  CASE k = "contentDir" -> "content_dir"
    [] k \in {"siteDir", "outputDir"} -> "output_dir"
    [] OTHER -> ""

\* The lines that set a field; those whose key is not known set none.
Lines(pairs, f) == {k \in DOMAIN pairs : translate_config_key(pairs[k][1]) = f}

\* The pairs are applied in the order of the lines, so the last one wins.
apply_v1_pairs_to_config(pairs) ==
  [f \in Field |->
     IF Lines(pairs, f) = {} THEN Defaults[f] ELSE pairs[Max(Lines(pairs, f))][2]]

load_v1_config_file(p) == apply_v1_pairs_to_config(v1[p].data)

\* The first place of a list of candidates whose file is not one of the
\* skipped, as a set of at most one.
FirstOf(candidates, skipped) ==
  {candidates[k] : k \in {j \in DOMAIN candidates :
     v1[candidates[j]] \notin skipped /\ \A i \in 1 .. j - 1 : v1[candidates[i]] \in skipped}}

\* A file that is there and cannot be read makes way for the next one.
kLegacyCandidates ==
  FirstOf(<<"nift.config", "nsm.config", "siteInfo/nsm.config", ".nsm/nsm.config">>,
          {Missing, Bad})

\* The migrator asks only whether the file exists.
find_v1_config ==
  FirstOf(<<"siteInfo/nsm.config", ".nsm/nsm.config", "nsm.config", ".nsm/site.config">>,
          {Missing})

The(s) == CHOOSE x \in s : TRUE

from_json(j) == [f \in Field |-> IF f \in DOMAIN j THEN j[f] ELSE Defaults[f]]

\* Every field is written, a default one too.  A path is a token: the exception
\* of dump() for one that is not UTF-8 is left out.
to_json(c) == Whole(c)

\* The v1 fallback of load_or_default().
Legacy ==
  IF kLegacyCandidates = {} THEN Defaults ELSE load_v1_config_file(The(kLegacyCandidates))

rebase(p) == [base |-> IF p \in Absolute THEN "none" ELSE "root", path |-> p]

\* Mutant: a nift.json that cannot be parsed counts as an empty one.
LoadTornAsDefaults ==
  [f \in Field |-> rebase((CASE nift_json.file = "whole" -> from_json(nift_json.data)
                             [] nift_json.file = "bad" -> Defaults
                             [] OTHER -> Legacy)[f])]

load_or_default ==
  [f \in Field |->
     rebase((IF nift_json.file = "whole" THEN from_json(nift_json.data) ELSE Legacy)[f])]

\* The place the migrator takes and the one the fallback takes are the same.
OneSource == kLegacyCandidates = find_v1_config

-----------------------------------------------------------------------------
(***************************************************************************)
(* `nift init` and `nift migrate`, one action per write_file() step: the   *)
(* open truncates, the buffered bytes reach the file when it is closed.    *)
(***************************************************************************)
Init ==
  /\ v1 \in [Place -> File(Texts)]
  /\ \E p \in Place : \A q \in Place \ {p} : v1[q] = Missing
  /\ nift_json = Missing
  /\ v1_tracked \in File(Tracked) \ {Bad}
  /\ tracked = Missing
  /\ sample \in {Missing, Whole("page")}
  /\ pc = "idle" /\ job = "init" /\ cfg = Defaults /\ rc = "none" /\ lost = FALSE
  /\ from = load_or_default /\ kept = FALSE
  /\ edits = 0 /\ commands = 0

Begin(j, c) ==
  /\ pc = "idle" /\ commands < MaxCommand
  /\ commands' = commands + 1
  /\ job' = j /\ cfg' = c
  /\ pc' = "json_open" /\ rc' = "none" /\ lost' = FALSE
  /\ UNCHANGED <<author, nift_json, tracked, sample>>

End(code) == pc' = "idle" /\ rc' = code

\* cmd_init() writes its own defaults, whatever is there.
InitCmd ==
  /\ Begin("init", Defaults)
  /\ kept' = FALSE /\ UNCHANGED from

Remember ==
  /\ kept' = (kept \/ (OneSource /\ nift_json.file # "whole"))
  /\ from' = IF kept THEN from ELSE load_or_default

\* migrate_project() with no v1 file it knows: it will write the defaults and
\* return before it has looked at tracked.json.
MigrateNothing ==
  /\ find_v1_config = {}
  /\ Begin("default", Defaults)
  /\ Remember

\* migrate_project() with a v1 file it can read, up to the write of nift.json.
Migrate ==
  /\ find_v1_config # {} /\ v1[The(find_v1_config)] # Bad
  /\ Begin("migrate", load_v1_config_file(The(find_v1_config)))
  /\ Remember

\* ... and with one it cannot read.
MigrateFails ==
  /\ pc = "idle" /\ commands < MaxCommand
  /\ find_v1_config # {} /\ v1[The(find_v1_config)] = Bad
  /\ commands' = commands + 1
  /\ End("error")
  /\ UNCHANGED <<author, nift_json, tracked, sample, job, cfg, lost, from, kept>>

OpenJson ==
  /\ pc = "json_open"
  /\ \/ nift_json' = Bad /\ pc' = "json_write" /\ UNCHANGED rc
     \/ End("error") /\ UNCHANGED nift_json
  /\ UNCHANGED <<author, tracked, sample, job, cfg, lost, from, kept, commands>>

\* Mutant: tracked.json is copied without asking whether there is one.
WriteJsonCopies ==
  /\ pc = "json_write"
  /\ nift_json' = to_json(cfg)
  /\ IF job = "migrate" THEN pc' = "tracked_open" /\ UNCHANGED rc ELSE End("ok")
  /\ UNCHANGED <<author, tracked, sample, job, cfg, lost, from, kept, commands>>

\* A full disk is met when the stream is closed, after its last check.
WriteJson ==
  /\ pc = "json_write"
  /\ \/ nift_json' = to_json(cfg) /\ UNCHANGED lost
     \/ lost' = TRUE /\ UNCHANGED nift_json
  /\ \/ job = "migrate" /\ v1_tracked # Missing /\ pc' = "tracked_open" /\ UNCHANGED rc
     \/ job = "init" /\ sample = Missing /\ pc' = "sample_open" /\ UNCHANGED rc
     \/ /\ job = "init" => sample # Missing
        /\ job = "migrate" => v1_tracked = Missing
        /\ End("ok")
  /\ UNCHANGED <<author, tracked, sample, job, cfg, from, kept, commands>>

\* Mutant: a tracked.json that is there already is left as it is.
OpenTrackedOnce ==
  /\ pc = "tracked_open"
  /\ IF tracked = Missing THEN tracked' = Bad /\ pc' = "tracked_write" /\ UNCHANGED rc
     ELSE End("ok") /\ UNCHANGED tracked
  /\ UNCHANGED <<author, nift_json, sample, job, cfg, lost, from, kept, commands>>

\* tracked.json cannot be read, or its copy not be opened, and nobody is told:
\* the results are thrown away.
OpenTracked ==
  /\ pc = "tracked_open"
  /\ \/ tracked' = Bad /\ pc' = "tracked_write" /\ UNCHANGED <<rc, lost>>
     \/ End("ok") /\ lost' = TRUE /\ UNCHANGED tracked
  /\ UNCHANGED <<author, nift_json, sample, job, cfg, from, kept, commands>>

WriteTracked ==
  /\ pc = "tracked_write"
  /\ \/ tracked' = v1_tracked /\ UNCHANGED lost
     \/ lost' = TRUE /\ UNCHANGED tracked
  /\ End("ok")
  /\ UNCHANGED <<author, nift_json, sample, job, cfg, from, kept, commands>>

\* The sample page, whose result is thrown away, too.  One that was cut off is
\* there, and no later init completes it.
OpenSample ==
  /\ pc = "sample_open"
  /\ \/ sample' = Bad /\ pc' = "sample_write" /\ UNCHANGED <<rc, lost>>
     \/ End("ok") /\ lost' = TRUE /\ UNCHANGED sample
  /\ UNCHANGED <<author, nift_json, tracked, job, cfg, from, kept, commands>>

WriteSample ==
  /\ pc = "sample_write"
  /\ \/ sample' = Whole("page") /\ UNCHANGED lost
     \/ lost' = TRUE /\ UNCHANGED sample
  /\ End("ok")
  /\ UNCHANGED <<author, nift_json, tracked, job, cfg, from, kept, commands>>

Kill ==
  /\ pc # "idle"
  /\ End("killed")
  /\ UNCHANGED <<author, nift_json, tracked, sample, job, cfg, lost, from, kept, commands>>

(***************************************************************************)
(* The author, between two commands.                                       *)
(***************************************************************************)
EditV1 ==
  /\ pc = "idle" /\ edits < MaxEdit
  /\ \E p \in Place, x \in File(Texts) :
       x # v1[p] /\ v1' = [v1 EXCEPT ![p] = x]
  /\ edits' = edits + 1
  /\ kept' = FALSE /\ rc' = "none"
  /\ UNCHANGED <<nift_json, v1_tracked, tracked, sample, pc, job, cfg, lost, from, commands>>

EditJson ==
  /\ pc = "idle" /\ edits < MaxEdit
  /\ \E x \in {Bad} \cup {Whole(o) : o \in Objects} :
       x # nift_json /\ nift_json' = x
  /\ edits' = edits + 1
  /\ kept' = FALSE /\ rc' = "none"
  /\ UNCHANGED <<v1, v1_tracked, tracked, sample, pc, job, cfg, lost, from, commands>>

\* "To revert, delete nift.json": nothing the author wrote is changed.
Revert ==
  /\ pc = "idle" /\ nift_json # Missing
  /\ nift_json' = Missing
  /\ rc' = "none"
  /\ UNCHANGED <<author, tracked, sample, pc, job, cfg, lost, from, kept, commands>>

Next ==
  \/ InitCmd \/ Migrate \/ MigrateNothing \/ MigrateFails \/ OpenJson \/ WriteJson \/ OpenTracked \/ WriteTracked
  \/ OpenSample \/ WriteSample
  \/ Kill \/ EditV1 \/ EditJson \/ Revert

Spec == Init /\ [][Next]_vars

-----------------------------------------------------------------------------
Loaded == [Field -> [base : {"root", "none"}, path : Value]]

\* Each variable has its type; what a command is about to write has every
\* field, and a command that copies tracked.json has one to copy.
TypeOK ==
  /\ v1 \in [Place -> File(Texts)]
  /\ nift_json \in File(Objects \cup [Field -> Value])
  /\ v1_tracked \in File(Tracked) \ {Bad}
  /\ tracked \in File(Tracked)
  /\ pc \in {"idle", "json_open", "json_write", "tracked_open", "tracked_write",
             "sample_open", "sample_write"}
  /\ sample \in File({"page"})
  /\ job \in {"init", "default", "migrate"}
  /\ pc \in {"tracked_open", "tracked_write"} => v1_tracked # Missing
  /\ cfg \in [Field -> Value]
  /\ rc \in {"none", "ok", "error", "killed"}
  /\ lost \in BOOLEAN /\ kept \in BOOLEAN
  /\ from \in Loaded
  /\ edits \in 0..MaxEdit /\ commands \in 0..MaxCommand

\* A project whose v1 file is found by both searches, and that had no nift.json
\* to be overwritten (one that parses was in force), loads the same
\* configuration before, during and after its migration, be it killed at any
\* step, run again, cut short by a full disk, or undone by deleting nift.json
\* (docs/migration.md: "To revert, delete `nift.json`").
MigrateKeeps == kept => load_or_default = from

\* A migration that ends without losing a write leaves what one undisturbed
\* run leaves, whatever earlier runs were killed at: the translated v1
\* configuration and an exact copy of tracked.json.
Completes ==
  (rc = "ok" /\ job = "migrate" /\ ~lost) =>
    /\ nift_json = to_json(load_v1_config_file(The(find_v1_config)))
    /\ v1_tracked # Missing => tracked = v1_tracked

=============================================================================
