---------------------------- MODULE Config_proofs ----------------------------
(***************************************************************************)
(* Theorems about Config for any v1 files and any nift.json, any values    *)
(* and defaults, and any number of edits and commands.                     *)
(***************************************************************************)
EXTENDS Config, WellFoundedInduction, TLAPS

-----------------------------------------------------------------------------
(* The inductive invariant                                                 *)

\* A command that runs has no exit code yet, and only a migration copies
\* tracked.json.
Running ==
  /\ pc # "idle" => rc = "none"
  /\ pc \in {"tracked_open", "tracked_write"} => job = "migrate"
  /\ pc \in {"sample_open", "sample_write"} => job = "init"

\* A running migration holds the translation of the v1 file it found, and once
\* it is past nift.json it has written it, unless the write was lost.
Translated ==
  job = "migrate" /\ pc # "idle" =>
    /\ cfg = load_v1_config_file(The(find_v1_config))
    /\ pc \in {"tracked_open", "tracked_write"} /\ ~lost => nift_json = to_json(cfg)

\* While the author changes nothing, what was in force is the v1 file, and
\* nift.json, when it can be read, says the same.
InForce ==
  kept =>
    /\ OneSource
    /\ from = [f \in Field |-> rebase(Legacy[f])]
    /\ nift_json.file = "whole" => nift_json.data = Legacy
    /\ pc \in {"json_open", "json_write"} => cfg = Legacy

IInv == TypeOK /\ Running /\ Translated /\ InForce /\ Completes
-----------------------------------------------------------------------------
(* Reading                                                                 *)

\* A set of line numbers that is not empty has a last one.
LEMMA LastLine ==
  ASSUME NEW n \in Nat, NEW S \in SUBSET (1 .. n), S # {}
  PROVE  Max(S) \in S
<1> DEFINE T == {n - k : k \in S}
<1>1. T \subseteq Nat /\ T # {}
  <2>1. \A k \in S : n - k \in Nat
    <3> SUFFICES ASSUME NEW k \in S PROVE n - k \in Nat
      OBVIOUS
    <3>1. k \in Nat /\ k <= n
      OBVIOUS
    <3> QED BY <3>1
  <2>2. PICK k \in S : TRUE
    OBVIOUS
  <2> QED BY <2>1, <2>2
<1>2. PICK x \in T : \A y \in T : ~ (<<y, x>> \in OpToRel(<, Nat))
  BY <1>1, NatLessThanWellFounded, WFMin
<1>3. PICK k \in S : x = n - k
  OBVIOUS
<1>4. \A j \in S : n - j \in Nat /\ ~ (n - j < n - k)
  BY <1>1, <1>2, <1>3 DEF OpToRel
<1>5. \A j \in S : k >= j
  BY <1>4
<1> QED BY <1>5 DEF Max

\* The translation of a v1 file has every field.
LEMMA PairsType ==
  ASSUME NEW pairs \in Seq(Key \X Value)
  PROVE  apply_v1_pairs_to_config(pairs) \in [Field -> Value]
<1> SUFFICES ASSUME NEW f \in Field, Lines(pairs, f) # {}
             PROVE  pairs[Max(Lines(pairs, f))][2] \in Value
  BY ConfigAssumption DEF apply_v1_pairs_to_config
<1>1. Lines(pairs, f) \in SUBSET (1 .. Len(pairs)) /\ Len(pairs) \in Nat
  BY DEF Lines
<1>2. Max(Lines(pairs, f)) \in 1 .. Len(pairs)
  BY <1>1, LastLine
<1> QED BY <1>2

\* The files the two searches may find.
LEMMA Found ==
  /\ \A p \in find_v1_config : p \in Place /\ v1[p] # Missing
  /\ \A p \in kLegacyCandidates : p \in Place /\ v1[p] \notin {Missing, Bad}
BY DEF find_v1_config, kLegacyCandidates, FirstOf, Place

\* The() takes an element of a set that has one.
LEMMA TheElement == ASSUME NEW S, S # {} PROVE The(S) \in S
BY DEF The

\* A v1 file that can be read translates to a configuration with every field.
LEMMA V1Type ==
  ASSUME v1 \in [Place -> File(Texts)], NEW p \in Place, v1[p] \notin {Missing, Bad}
  PROVE  load_v1_config_file(p) \in [Field -> Value]
<1>1. v1[p].data \in Texts
  BY DEF File, Whole
<1> QED BY <1>1, ConfigAssumption, PairsType DEF load_v1_config_file

\* So the v1 fallback of load_or_default() has every field.
LEMMA LegacyType ==
  ASSUME v1 \in [Place -> File(Texts)] PROVE Legacy \in [Field -> Value]
BY ConfigAssumption, Found, TheElement, V1Type DEF Legacy

\* A nift.json that has every field is read back as it was written.
LEMMA RoundTrip == ASSUME NEW c \in [Field -> Value] PROVE from_json(c) = c
BY DEF from_json

\* load_or_default() gives every field a value and a base.
LEMMA LoadedType ==
  ASSUME v1 \in [Place -> File(Texts)], nift_json \in File(Objects \union [Field -> Value])
  PROVE  load_or_default \in Loaded
<1>1. ASSUME nift_json.file = "whole" PROVE from_json(nift_json.data) \in [Field -> Value]
  <2>1. nift_json.data \in Objects \union [Field -> Value]
    BY <1>1 DEF File, Whole, Missing, Bad
  <2>2. \A f \in DOMAIN nift_json.data : nift_json.data[f] \in Value
    BY <2>1, ConfigAssumption
  <2> QED BY <2>2, ConfigAssumption DEF from_json
<1> DEFINE c == IF nift_json.file = "whole" THEN from_json(nift_json.data) ELSE Legacy
<1>2. c \in [Field -> Value]
  BY <1>1, LegacyType
<1>3. load_or_default = [f \in Field |-> rebase(c[f])]
  BY DEF load_or_default
<1> HIDE DEF c
<1> QED BY <1>2, <1>3 DEF Loaded, rebase

\* What the v1 files say depends on nothing else.
LEMMA V1Unchanged ==
  ASSUME UNCHANGED v1
  PROVE  UNCHANGED <<find_v1_config, kLegacyCandidates, Legacy>>
         /\ (OneSource' <=> OneSource)
         /\ \A p : load_v1_config_file(p)' = load_v1_config_file(p)
BY DEF find_v1_config, kLegacyCandidates, Legacy, OneSource, FirstOf, load_v1_config_file

\* With one source, a migration translates what load_or_default() falls back
\* on.
LEMMA SameSource ==
  ASSUME OneSource
  PROVE  Legacy = IF find_v1_config = {} THEN Defaults
                  ELSE load_v1_config_file(The(find_v1_config))
BY DEF OneSource, Legacy
-----------------------------------------------------------------------------
(* Types                                                                   *)

\* The types hold at the start.
LEMMA InitTypeOK == Init => TypeOK
<1> SUFFICES ASSUME Init PROVE TypeOK
  OBVIOUS
<1>1. nift_json \in File(Objects \union [Field -> Value]) /\ tracked \in File(Tracked)
      /\ sample \in File({"page"})
  BY DEF Init, File
<1>2. from \in Loaded
  BY <1>1, LoadedType DEF Init
<1>3. edits \in 0 .. MaxEdit /\ commands \in 0 .. MaxCommand /\ cfg \in [Field -> Value]
  BY ConfigAssumption DEF Init
<1>4. v1 \in [Place -> File(Texts)] /\ v1_tracked \in File(Tracked) \ {Bad}
  BY DEF Init
<1> QED BY <1>1, <1>2, <1>3, <1>4 DEF Init, TypeOK

\* The start of a command, with the configuration it is about to write.
LEMMA BeginTypes ==
  ASSUME TypeOK, NEW j \in {"init", "default", "migrate"}, NEW c \in [Field -> Value],
         Begin(j, c), kept' \in BOOLEAN, from' \in Loaded
  PROVE  TypeOK'
<1>1. commands' \in 0 .. MaxCommand
  BY ConfigAssumption DEF Begin, TypeOK
<1> QED BY <1>1 DEF Begin, TypeOK, author

\* The history of a migration keeps its types.
LEMMA RememberTypes ==
  ASSUME TypeOK, Remember PROVE kept' \in BOOLEAN /\ from' \in Loaded
<1>1. kept' \in BOOLEAN
  BY Zenon DEF TypeOK, Remember
<1>2. from' \in Loaded
  BY LoadedType DEF TypeOK, Remember
<1> QED BY <1>1, <1>2

\* Every step keeps the types.
LEMMA TypeStep == TypeOK /\ [Next]_vars => TypeOK'
<1> SUFFICES ASSUME TypeOK, [Next]_vars PROVE TypeOK'
  OBVIOUS
<1>0. /\ Missing \in File(Texts) /\ Bad \in File(Tracked) /\ Bad \in File({"page"})
      /\ Whole("page") \in File({"page"})
      /\ Missing \in File(Objects \union [Field -> Value])
      /\ Bad \in File(Objects \union [Field -> Value])
      /\ \A c \in Objects \union [Field -> Value] :
           Whole(c) \in File(Objects \union [Field -> Value])
  BY DEF File
<1>1. CASE InitCmd
  <2>1. Begin("init", Defaults) /\ kept' \in BOOLEAN /\ from' \in Loaded
    BY <1>1 DEF InitCmd, TypeOK
  <2> QED BY <2>1, ConfigAssumption, BeginTypes
<1>2. CASE MigrateNothing
  BY <1>2, ConfigAssumption, BeginTypes, RememberTypes DEF MigrateNothing
<1>3. CASE Migrate
  <2>1. load_v1_config_file(The(find_v1_config)) \in [Field -> Value]
    <3>1. The(find_v1_config) \in Place /\ v1[The(find_v1_config)] \notin {Missing, Bad}
      BY <1>3, TheElement, Found DEF Migrate
    <3> QED BY <3>1, V1Type DEF TypeOK
  <2> QED BY <1>3, <2>1, BeginTypes, RememberTypes DEF Migrate
<1>4. CASE MigrateFails
  <2>1. commands' \in 0 .. MaxCommand
    BY <1>4, ConfigAssumption DEF MigrateFails, TypeOK
  <2> QED BY <1>4, <2>1 DEF MigrateFails, End, TypeOK, author
<1>5. CASE OpenJson
  BY <1>0, <1>5 DEF OpenJson, End, TypeOK, author
<1>6. CASE WriteJson
  <2>1. nift_json' \in File(Objects \union [Field -> Value]) /\ lost' \in BOOLEAN
    BY <1>0, <1>6 DEF WriteJson, to_json, TypeOK
  <2>2. /\ pc' \in {"idle", "json_open", "json_write", "tracked_open", "tracked_write",
                    "sample_open", "sample_write"}
        /\ rc' \in {"none", "ok", "error", "killed"}
        /\ pc' \in {"tracked_open", "tracked_write"} => v1_tracked # Missing
    BY <1>6 DEF WriteJson, End, TypeOK
  <2> QED BY <1>6, <2>1, <2>2 DEF WriteJson, TypeOK, author
<1>7. CASE OpenTracked \/ WriteTracked
  <2>1. tracked' \in File(Tracked) /\ lost' \in BOOLEAN
    BY <1>0, <1>7 DEF OpenTracked, WriteTracked, TypeOK
  <2> QED BY <1>7, <2>1 DEF OpenTracked, WriteTracked, End, TypeOK, author
<1>8. CASE OpenSample \/ WriteSample
  <2>1. sample' \in File({"page"}) /\ lost' \in BOOLEAN
    BY <1>0, <1>8 DEF OpenSample, WriteSample, TypeOK
  <2> QED BY <1>8, <2>1 DEF OpenSample, WriteSample, End, TypeOK, author
<1>9. CASE Kill
  BY <1>9 DEF Kill, End, TypeOK, author
<1>10. CASE EditV1
  <2>1. v1' \in [Place -> File(Texts)]
    BY <1>10 DEF EditV1, TypeOK
  <2>2. edits' \in 0 .. MaxEdit
    BY <1>10, ConfigAssumption DEF EditV1, TypeOK
  <2> QED BY <1>10, <2>1, <2>2 DEF EditV1, TypeOK
<1>11. CASE EditJson
  <2>1. nift_json' \in File(Objects \union [Field -> Value])
    BY <1>0, <1>11 DEF EditJson
  <2>2. edits' \in 0 .. MaxEdit
    BY <1>11, ConfigAssumption DEF EditJson, TypeOK
  <2> QED BY <1>11, <2>1, <2>2 DEF EditJson, TypeOK
<1>12. CASE Revert
  BY <1>0, <1>12 DEF Revert, TypeOK, author
<1>13. CASE UNCHANGED vars
  BY <1>13 DEF vars, TypeOK
<1> QED BY <1>1, <1>2, <1>3, <1>4, <1>5, <1>6, <1>7, <1>8, <1>9, <1>10, <1>11, <1>12, <1>13
        DEF Next

\* Every variable keeps its type: in particular what is about to be written to
\* nift.json has every field, whatever the v1 file holds.
THEOREM TypeCorrect == Spec => []TypeOK
BY InitTypeOK, TypeStep, PTL DEF Spec
-----------------------------------------------------------------------------
(* Invariance                                                              *)

\* The invariant holds at the start.
LEMMA InitIInv == Init => IInv
BY InitTypeOK DEF Init, IInv, Running, Translated, InForce, Completes

\* The start of a command.
LEMMA BeginStep ==
  ASSUME IInv, TypeOK', NEW j, NEW c, Begin(j, c),
         j = "migrate" => c = load_v1_config_file(The(find_v1_config)),
         kept' => Remember /\ c = IF find_v1_config = {} THEN Defaults
                                  ELSE load_v1_config_file(The(find_v1_config))
  PROVE  IInv'
<1> USE DEF IInv
<1>1. /\ UNCHANGED <<v1, v1_tracked, nift_json, tracked, sample>>
      /\ pc' = "json_open" /\ rc' = "none" /\ job' = j /\ cfg' = c
  BY DEF Begin, author
<1>2. UNCHANGED <<find_v1_config, kLegacyCandidates, Legacy>>
      /\ (OneSource' <=> OneSource)
      /\ load_v1_config_file(The(find_v1_config))' = load_v1_config_file(The(find_v1_config))
  <2>1. find_v1_config' = find_v1_config
    BY <1>1, V1Unchanged
  <2> QED BY <1>1, <2>1, V1Unchanged DEF load_v1_config_file
<1>3. Running' /\ Translated' /\ Completes'
  BY <1>1, <1>2 DEF Running, Translated, Completes
<1>4. InForce'
  <2> SUFFICES ASSUME kept' PROVE InForce'
    BY DEF InForce
  <2>1. Remember /\ (kept \/ (OneSource /\ nift_json.file # "whole"))
    BY DEF Remember
  <2>2. OneSource /\ (nift_json.file = "whole" => nift_json.data = Legacy)
    BY <2>1 DEF InForce
  <2>3. from' = [f \in Field |-> rebase(Legacy[f])]
    BY <2>1 DEF InForce, Remember, load_or_default
  <2>4. c = Legacy
    BY <2>2, SameSource
  <2> QED BY <1>1, <1>2, <2>2, <2>3, <2>4 DEF InForce
<1> QED BY <1>3, <1>4

\* The steps of a running command, which leave the author's files alone.
LEMMA CommandStep ==
  ASSUME IInv, TypeOK',
         \/ OpenJson \/ WriteJson \/ OpenTracked \/ WriteTracked \/ OpenSample
         \/ WriteSample \/ Kill
  PROVE  IInv'
<1> USE DEF IInv
<1>1. UNCHANGED <<v1, v1_tracked, job, cfg, from, kept>> /\ pc # "idle"
  BY DEF OpenJson, WriteJson, OpenTracked, WriteTracked, OpenSample, WriteSample, Kill, author
<1>2. UNCHANGED <<find_v1_config, Legacy>> /\ (OneSource' <=> OneSource)
      /\ load_v1_config_file(The(find_v1_config))' = load_v1_config_file(The(find_v1_config))
  <2>1. find_v1_config' = find_v1_config
    BY <1>1, V1Unchanged
  <2> QED BY <1>1, <2>1, V1Unchanged DEF load_v1_config_file
<1>3. Running'
  BY <1>1 DEF Running, OpenJson, WriteJson, OpenTracked, WriteTracked, OpenSample, WriteSample,
              Kill, End
<1>4. \/ nift_json' = nift_json
      \/ pc = "json_open" /\ nift_json' = Bad /\ pc' = "json_write"
      \/ pc = "json_write" /\ nift_json' = to_json(cfg)
  BY DEF OpenJson, WriteJson, OpenTracked, WriteTracked, OpenSample, WriteSample, Kill
<1>5. pc' \in {"json_open", "json_write"} => pc = "json_open"
  BY <1>1 DEF OpenJson, WriteJson, OpenTracked, WriteTracked, OpenSample, WriteSample, Kill, End
<1>6. InForce'
  <2> SUFFICES ASSUME kept PROVE InForce'
    BY <1>1 DEF InForce
  <2>1. nift_json'.file = "whole" => nift_json'.data = Legacy
    BY <1>4 DEF InForce, Bad, to_json, Whole
  <2> QED BY <1>1, <1>2, <1>5, <2>1 DEF InForce
<1>7. Translated'
  <2>1. CASE OpenJson \/ OpenSample \/ WriteSample \/ Kill \/ WriteTracked
    BY <1>1, <1>2, <2>1 DEF Translated, OpenJson, OpenSample, WriteSample, Kill, WriteTracked, End,
                            Running
  <2>2. CASE WriteJson
    BY <1>1, <1>2, <2>2 DEF Translated, WriteJson, End
  <2>3. CASE OpenTracked
    BY <1>1, <1>2, <2>3 DEF Translated, OpenTracked, End
  <2> QED BY <2>1, <2>2, <2>3
<1>8. Completes'
  <2>0. rc = "none"
    BY <1>1 DEF Running
  <2>1. CASE OpenJson \/ Kill
    BY <2>0, <2>1 DEF Completes, OpenJson, Kill, End
  <2>2. CASE WriteJson
    BY <1>1, <1>2, <2>0, <2>2 DEF Completes, Translated, WriteJson, End
  <2>3. CASE OpenTracked
    BY <2>0, <2>3 DEF Completes, OpenTracked, End
  <2>4. CASE WriteTracked
    BY <1>1, <1>2, <2>0, <2>4 DEF Completes, Translated, Running, WriteTracked, End
  <2>5. CASE OpenSample \/ WriteSample
    BY <1>1, <2>0, <2>5 DEF Completes, Running, OpenSample, WriteSample
  <2> QED BY <2>1, <2>2, <2>3, <2>4, <2>5
<1> QED BY <1>3, <1>6, <1>7, <1>8

\* Every step keeps the invariant.
LEMMA NextIInv == IInv /\ [Next]_vars => IInv'
<1> SUFFICES ASSUME IInv, [Next]_vars PROVE IInv'
  OBVIOUS
<1>0. TypeOK'
  BY TypeStep DEF IInv
<1>1. CASE InitCmd
  <2>1. Begin("init", Defaults) /\ ~kept'
    BY <1>1 DEF InitCmd
  <2> QED BY <1>0, <2>1, BeginStep
<1>2. CASE MigrateNothing
  <2>1. Begin("default", Defaults) /\ Remember /\ find_v1_config = {}
    BY <1>2 DEF MigrateNothing
  <2> QED BY <1>0, <2>1, BeginStep
<1>3. CASE Migrate
  <2>1. Begin("migrate", load_v1_config_file(The(find_v1_config))) /\ Remember
        /\ find_v1_config # {}
    BY <1>3 DEF Migrate
  <2> QED BY <1>0, <2>1, BeginStep
<1>4. CASE \/ OpenJson \/ WriteJson \/ OpenTracked \/ WriteTracked \/ OpenSample
           \/ WriteSample \/ Kill
  BY <1>0, <1>4, CommandStep
<1> USE DEF IInv
<1>5. CASE MigrateFails \/ Revert \/ UNCHANGED vars
  <2>1. UNCHANGED <<v1, v1_tracked, tracked, job, cfg, lost, from, kept, pc>>
    BY <1>5 DEF MigrateFails, Revert, vars, author, End
  <2>2. UNCHANGED <<find_v1_config, Legacy>> /\ (OneSource' <=> OneSource)
        /\ load_v1_config_file(The(find_v1_config))' = load_v1_config_file(The(find_v1_config))
    <3>1. find_v1_config' = find_v1_config
      BY <2>1, V1Unchanged
    <3> QED BY <2>1, <3>1, V1Unchanged DEF load_v1_config_file
  <2>3. nift_json' = nift_json \/ (nift_json' = Missing /\ pc = "idle")
    <3>1. CASE MigrateFails \/ UNCHANGED vars
      BY <3>1 DEF MigrateFails, vars
    <3>2. CASE Revert
      BY <3>2 DEF Revert
    <3> QED BY <1>5, <3>1, <3>2
  <2>4. Running'
    BY <1>5, <2>1 DEF MigrateFails, Revert, vars, End, Running
  <2>5. Translated' /\ InForce'
    BY <2>1, <2>2, <2>3 DEF Translated, InForce, Missing
  <2>6. Completes'
    BY <1>5, <2>1, <2>2 DEF MigrateFails, Revert, vars, End, Completes
  <2> QED BY <1>0, <2>4, <2>5, <2>6
<1>6. CASE EditV1 \/ EditJson
  BY <1>0, <1>6 DEF EditV1, EditJson, Running, Translated, InForce, Completes
<1> QED BY <1>1, <1>2, <1>3, <1>4, <1>5, <1>6 DEF Next
-----------------------------------------------------------------------------
(* Theorems                                                                *)

\* A project loads the same configuration before, during and after its
\* migration, whatever step the command is killed or fails at, however often
\* it is run again, and when nift.json is deleted to undo it.
THEOREM KeepsCorrect == Spec => []MigrateKeeps
<1>1. IInv => MigrateKeeps
  <2> SUFFICES ASSUME IInv, kept PROVE load_or_default = from
    BY DEF MigrateKeeps
  <2>1. Legacy \in [Field -> Value]
    BY LegacyType DEF IInv, TypeOK
  <2>2. (IF nift_json.file = "whole" THEN from_json(nift_json.data) ELSE Legacy) = Legacy
    BY <2>1, RoundTrip DEF IInv, InForce
  <2>3. load_or_default = [f \in Field |-> rebase(Legacy[f])]
    BY <2>2 DEF load_or_default
  <2> QED BY <2>3 DEF IInv, InForce
<1> QED BY InitIInv, NextIInv, <1>1, PTL DEF Spec

\* A migration that reports success and has lost no write leaves the whole
\* translated configuration and an exact copy of tracked.json, whatever an
\* earlier run was killed at.
THEOREM CompletesCorrect == Spec => []Completes
<1>1. IInv => Completes
  BY DEF IInv
<1> QED BY InitIInv, NextIInv, <1>1, PTL DEF Spec
=============================================================================
