------------------------------ MODULE ConfigStore ------------------------------
(***************************************************************************)
(* The user's configuration: the file config.yaml, the Store that reads    *)
(* and writes it under one mutex, the Manager that keeps the current copy  *)
(* and notices edits of the file, and the four who change it: the settings *)
(* form, the turns (which remember the channel they used), the pricing     *)
(* page and the user's editor.  The pricing page goes to the store itself, *)
(* with a load and a save; the others go through the manager.              *)
(*                                                                         *)
(* The fields only the form changes are one value, "ui".  An adapter is    *)
(* its place in Adapters, by which the form also recognises it.  A model   *)
(* name is a sequence of its parts; one price row stands for its prices.   *)
(***************************************************************************)
EXTENDS Integers, Sequences, SequencesExt

CONSTANTS
    Adapters,   \* adapters of the user, in file order: [id, legacy, model, priority]
    Refs,       \* what a turn may ask for: ids, legacy ids, models, aliases
    Aliases,    \* the references that mean the first adapter
    Builtin,    \* models with a built-in price
    Custom,     \* models the user may add a price for
    Usages,     \* the names under which usage is recorded
    Namespaces, \* parts of a name that are a provider's prefix
    Tags,       \* parts of a name that are a date, a version or an effort
    Pricers,    \* the pricing calls that may run at one time
    MaxWrites   \* bound on the writes of the file

Places == 1 .. Len(Adapters)
Models == Builtin \cup Custom

ASSUME AdaptersAssumption ==
    /\ Adapters \in Seq([id : STRING, legacy : STRING, model : STRING, priority : Int])
    /\ \A i, j \in Places : i # j => Adapters[i].id # Adapters[j].id
ASSUME ModelsAssumption ==
    /\ Builtin \cap Custom = {} /\ Namespaces \cap Tags = {}
    /\ \A n \in Models \cup Usages : n \in Seq(STRING) /\ n # <<>>
ASSUME ConfigBoundsAssumption == MaxWrites \in Nat

VARIABLES
    file,       \* config.yaml
    stamp,      \* what Stat tells of it: the number of writes so far
    current,    \* the manager's copy
    snapshot,   \* the stamp the manager last saw
    reload,     \* the reload under way: the stamp it read, what it loaded
    saving,     \* per manager caller, its update after the write
    form,       \* the configuration the settings form was filled from
    sheet,      \* per pricing call, the configuration it loaded
    told,       \* history: per model, what the user last said of its price
    raced       \* history: an update overlapped a write or a reload, none since

configVars == <<file, stamp, current, snapshot, reload, saving, form, sheet, told, raced>>

Callers == {"form", "turn"}
Nothing == 0

(* One configuration.  kind is that of the file: absent, not parsable, with *)
(* the listen addresses missing, or as the program writes it.  A price row  *)
(* is absent, built in, the user's own or a deleted built-in one.           *)
Config == [kind : {"none", "bad", "raw", "tidy"}, ui : {0, 1},
           adapters : [Places -> {"absent", "on", "off"}],
           multiplier : [Places -> BOOLEAN],
           rows : [Models -> {"absent", "seed", "own", "deleted"}],
           hash : Places \cup {Nothing}]

DefaultConfig == [kind |-> "tidy", ui |-> 0, adapters |-> [i \in Places |-> "absent"],
                  multiplier |-> [i \in Places |-> FALSE],
                  rows |-> [m \in Models |-> "absent"], hash |-> Nothing]

normalizePricingConfig(rows) ==
    [m \in Models |-> IF m \in Builtin /\ rows[m] = "absent" THEN "seed" ELSE rows[m]]

NormalizeConfig(c) == [c EXCEPT !.kind = "tidy", !.rows = normalizePricingConfig(@)]

Unloaded == [DefaultConfig EXCEPT !.kind = "none"]

NoStep == [at |-> "none", stamp |-> 0, config |-> Unloaded]

snapshotOf(f, s) == IF f.kind = "none" THEN 0 ELSE s

(* Store.Load: what it returns and what it leaves in the file. *)
Loadable(f) == f.kind # "bad"
Loaded(f)   == IF f.kind = "none" THEN DefaultConfig ELSE NormalizeConfig(f)
Rewritten(f) == CASE f.kind = "none" -> DefaultConfig
                  [] f.kind = "raw"  -> NormalizeConfig(f)
                  [] OTHER           -> f

InUpdate == \E w \in Callers : saving[w].at # "none"

(* Every write of the file passes here. *)
WriteFile(f, overlaps) ==
    /\ stamp < MaxWrites
    /\ file' = f
    /\ stamp' = stamp + 1
    /\ raced' = (raced \/ overlaps)

LoadEffect ==
    IF Rewritten(file) = file THEN UNCHANGED <<file, stamp, raced>>
                              ELSE WriteFile(Rewritten(file), InUpdate)

(***************************************************************************)
(* Which channels serve a request, from the adapters of a configuration.   *)
(***************************************************************************)
Present(c) == {i \in Places : c.adapters[i] # "absent"}

First(c) == CHOOSE i \in Present(c) : \A j \in Present(c) : i <= j

Target(c, ref) == IF ref \in Aliases THEN Adapters[First(c)].id ELSE ref

MatchRank(i, ref) == CASE Adapters[i].id = ref     -> 1
                       [] Adapters[i].legacy = ref -> 2
                       [] Adapters[i].model = ref  -> 3
                       [] OTHER                    -> 4

SelectChannelsForModel(c, ref) ==
    IF Present(c) = {} THEN <<>>
    ELSE LET target == Target(c, ref)
             key(i) == <<Adapters[i].priority, MatchRank(i, target), i>>
             before(i, j) == \/ key(i)[1] < key(j)[1]
                             \/ key(i)[1] = key(j)[1] /\ key(i)[2] < key(j)[2]
                             \/ key(i)[1] = key(j)[1] /\ key(i)[2] = key(j)[2] /\ i < j
         IN  SetToSortSeq({i \in Present(c) : MatchRank(i, target) < 4 /\ c.adapters[i] = "on"}, before)

(***************************************************************************)
(* The price of a usage: its name is tried as it is, then with prefixes of  *)
(* providers and tags stripped, one more at a time, then with parts of its  *)
(* end left out.  The first that has a row decides: a deleted row costs     *)
(* nothing, and so does a name without any.                                 *)
(***************************************************************************)
Strips(name) ==
    {SubSeq(name, p[1], p[2]) : p \in
        {q \in (1 .. Len(name)) \X (1 .. Len(name)) :
            /\ q[1] <= q[2]
            /\ \A k \in 1 .. q[1] - 1 : name[k] \in Namespaces
            /\ \A k \in q[2] + 1 .. Len(name) : name[k] \in Tags}}

Shortened(name) == [k \in 1 .. Len(name) |-> SubSeq(name, 1, Len(name) - k + 1)]

modelPricingCandidates ==
    [u \in Usages |->
        LET stripped == SetToSortSeq(Strips(u), LAMBDA c, d :
                            \/ Len(c) > Len(d)
                            \/ Len(c) = Len(d) /\ Head(c) # Head(u) /\ Head(d) = Head(u))
        IN  stripped \o FlattenSeq([k \in 1 .. Len(stripped) |-> Shortened(stripped[k])])]

MatchModelPricing(rows, u) ==
    SelectSeq(modelPricingCandidates[u], LAMBDA c : c \in Models /\ rows[c] # "absent")

findPrice(rows, u) ==
    LET found == MatchModelPricing(rows, u)
    IN  IF found = <<>> \/ rows[Head(found)] = "deleted" THEN "nothing" ELSE rows[Head(found)]

(***************************************************************************)
(* The manager                                                             *)
(***************************************************************************)
ConfigInit ==
    /\ file = NormalizeConfig([DefaultConfig EXCEPT
                !.adapters = [i \in Places |-> "on"], !.multiplier = [i \in Places |-> i = 1]])
    /\ stamp = 1 /\ snapshot = 1 /\ current = file /\ reload = NoStep
    /\ saving = [w \in Callers |-> NoStep]
    /\ form = Unloaded /\ sheet = [p \in Pricers |-> Unloaded]
    /\ told = [m \in Models |-> "nothing said"] /\ raced = FALSE

(* A caller of Current or Load looks at the file, under reloadMu, unless it *)
(* was looked at less than half a second ago.                               *)
reloadIfChanged ==
    /\ reload = NoStep
    /\ snapshotOf(file, stamp) # snapshot
    /\ reload' = [NoStep EXCEPT !.at = "looked", !.stamp = snapshotOf(file, stamp)]
    /\ UNCHANGED <<file, stamp, current, snapshot, saving, form, sheet, told, raced>>

(* ... then loads it; a file that cannot be parsed leaves the copy as it is. *)
ReloadLoads ==
    /\ reload.at = "looked"
    /\ IF Loadable(file)
       THEN /\ reload' = [reload EXCEPT !.at = "loaded", !.config = Loaded(file)]
            /\ LoadEffect
       ELSE /\ reload' = NoStep
            /\ UNCHANGED <<file, stamp, raced>>
    /\ UNCHANGED <<current, snapshot, saving, form, sheet, told>>

\* Slip: the stamp is read when the copy is published.
ReloadPublishesLateStamp ==
    /\ reload.at = "loaded"
    /\ current' = reload.config
    /\ snapshot' = snapshotOf(file, stamp)
    /\ reload' = NoStep
    /\ raced' = (raced /\ InUpdate)
    /\ UNCHANGED <<file, stamp, saving, form, sheet, told>>

(* ... and publishes it, with the stamp read before the load. *)
ReloadPublishes ==
    /\ reload.at = "loaded"
    /\ current' = reload.config
    /\ snapshot' = reload.stamp
    /\ reload' = NoStep
    /\ raced' = (raced /\ InUpdate)
    /\ UNCHANGED <<file, stamp, saving, form, sheet, told>>

(* Store.Update: baseline and write are one critical section of the store. *)
Baseline == Loaded(file)

StoreUpdate(w, changed) ==
    /\ saving[w].at = "none"
    /\ Loadable(file)
    /\ WriteFile(NormalizeConfig(changed), InUpdate \/ reload.at = "loaded")
    /\ saving' = [saving EXCEPT ![w] = [NoStep EXCEPT !.at = "stored", !.config = NormalizeConfig(changed)]]

setCurrent(w) ==
    /\ saving[w].at = "stored"
    /\ current' = saving[w].config
    /\ saving' = [saving EXCEPT ![w].at = "set"]
    /\ UNCHANGED <<file, stamp, snapshot, reload, form, sheet, told, raced>>

TakeSnapshot(w) ==
    /\ saving[w].at = "set"
    /\ reload = NoStep
    /\ snapshot' = snapshotOf(file, stamp)
    /\ saving' = [saving EXCEPT ![w] = NoStep]
    /\ UNCHANGED <<file, stamp, current, reload, form, sheet, told, raced>>

(***************************************************************************)
(* The settings form: filled from the manager's copy, sent back whole.      *)
(***************************************************************************)
FillForm ==
    /\ form.kind = "none" /\ saving["form"].at = "none"
    /\ form' = current
    /\ UNCHANGED <<file, stamp, current, snapshot, reload, saving, sheet, told, raced>>

WithAdapter(c, i, a) == [c EXCEPT !.adapters[i] = a, !.multiplier[i] = FALSE]

Payloads == {[form EXCEPT !.ui = 1 - @]}
            \cup {WithAdapter(form, i, a) : i \in Places, a \in {"absent", "on", "off"}}

\* Slip: the payload's multiplier as it is.
PayloadMultiplier(config, patch, i) == patch.adapters[i] # "absent" /\ patch.multiplier[i]

KeptMultiplier(config, patch, i) ==
    /\ patch.adapters[i] # "absent"
    /\ patch.multiplier[i] \/ (config.adapters[i] # "absent" /\ config.multiplier[i])

mergeUserPatchInto(config, patch) ==
    [config EXCEPT !.ui = patch.ui, !.adapters = patch.adapters, !.hash = patch.hash,
                   !.multiplier = [i \in Places |-> KeptMultiplier(config, patch, i)]]

SaveUserConfig ==
    /\ form.kind # "none"
    /\ \E patch \in Payloads : StoreUpdate("form", mergeUserPatchInto(Baseline, patch))
    /\ form' = Unloaded
    /\ told' = told
    /\ UNCHANGED <<current, snapshot, reload, sheet>>

(* A payload with an adapter that fails the checks, or a file that cannot be *)
(* parsed: nothing is written, the form is filled anew for the next try.     *)
RejectUserConfig ==
    /\ form.kind # "none"
    /\ form' = Unloaded
    /\ UNCHANGED <<file, stamp, current, snapshot, reload, saving, sheet, told, raced>>

(* The first pass of a turn remembers the first channel of its model. *)
SaveLastAgentModelHash(ref) ==
    LET chain == SelectChannelsForModel(current, ref)
    IN  /\ chain # <<>>
        /\ Baseline.hash # Head(chain)
        /\ StoreUpdate("turn", [Baseline EXCEPT !.hash = Head(chain)])
        /\ UNCHANGED <<current, snapshot, reload, form, sheet, told>>

(***************************************************************************)
(* The pricing page: a load, then a save of what was loaded.                *)
(***************************************************************************)
PricingLoad(p) ==
    /\ sheet[p].kind = "none"
    /\ Loadable(file)
    /\ sheet' = [sheet EXCEPT ![p] = Loaded(file)]
    /\ LoadEffect
    /\ UNCHANGED <<current, snapshot, reload, saving, form, told>>

PricingSave(p, rows) ==
    /\ sheet[p].kind # "none"
    /\ WriteFile(NormalizeConfig([sheet[p] EXCEPT !.rows = rows]), InUpdate)
    /\ sheet' = [sheet EXCEPT ![p] = Unloaded]
    /\ UNCHANGED <<current, snapshot, reload, saving, form>>

(* Editing a deleted built-in price does not bring it back. *)
UpdatedRow(row) == IF row = "deleted" THEN "deleted" ELSE "own"

UpdateModelPricing(p, m) ==
    /\ PricingSave(p, [sheet[p].rows EXCEPT ![m] = UpdatedRow(@)])
    /\ told' = [told EXCEPT ![m] = IF @ = "nothing said" THEN UpdatedRow(sheet[p].rows[m]) ELSE UpdatedRow(@)]

\* Slip: every deleted row is dropped.
DeletedRowDropped(m) == "absent"

DeletedRow(m) == IF m \in Builtin THEN "deleted" ELSE "absent"

DeleteModelPricing(p, m) ==
    /\ sheet[p].rows[m] # "absent"
    /\ PricingSave(p, [sheet[p].rows EXCEPT ![m] = DeletedRow(m)])
    /\ told' = [told EXCEPT ![m] = IF m \in Builtin THEN "deleted" ELSE "nothing said"]

RestoreDefaultPricing(p, m) ==
    /\ m \in Builtin
    /\ PricingSave(p, [sheet[p].rows EXCEPT ![m] = "seed"])
    /\ told' = [told EXCEPT ![m] = "seed"]

(* The user's editor: breaks the file or mends it, saves it without the      *)
(* listen addresses, gives an adapter a multiplier, or removes the file.     *)
Edits == {[file EXCEPT !.kind = "bad"], [file EXCEPT !.kind = "raw", !.ui = 1 - @]}
         \cup {[file EXCEPT !.kind = "tidy", !.multiplier[i] = TRUE] : i \in Present(file)}

ExternalEdit ==
    /\ file.kind # "none"
    /\ \/ \E f \in Edits \ {file} : WriteFile(f, InUpdate) /\ told' = told
       \/ WriteFile(Unloaded, InUpdate) /\ told' = [m \in Models |-> "nothing said"]
    /\ UNCHANGED <<current, snapshot, reload, saving, form, sheet>>

PricingCall(p) == \/ PricingLoad(p)
                  \/ \E m \in Models : UpdateModelPricing(p, m) \/ DeleteModelPricing(p, m) \/ RestoreDefaultPricing(p, m)

ConfigNext ==
    \/ reloadIfChanged \/ ReloadLoads \/ ReloadPublishes
    \/ \E w \in Callers : setCurrent(w) \/ TakeSnapshot(w)
    \/ FillForm \/ SaveUserConfig \/ RejectUserConfig
    \/ \E ref \in Refs : SaveLastAgentModelHash(ref)
    \/ \E p \in Pricers : PricingCall(p)
    \/ ExternalEdit

ConfigSpec == ConfigInit /\ [][ConfigNext]_configVars

(***************************************************************************)
(* Properties                                                              *)
(***************************************************************************)

(* What the user says of a price holds for every name under which the model's *)
(* usage is recorded: no save of the form, no turn, no reload and no          *)
(* normalisation brings a deleted built-in price back, drops the user's own   *)
(* or charges a dated or prefixed name by another row.                        *)
ModelOf(u) == SelectSeq(u, LAMBDA part : part \notin Namespaces \cup Tags)

PricesAsTold ==
    \A u \in Usages : LET m == ModelOf(u) IN
        (m \in Models /\ told[m] # "nothing said") =>
            findPrice(Loaded(file).rows, u) = (IF told[m] = "deleted" THEN "nothing" ELSE told[m])

(* A save of the form, whose payload may have been filled before the file     *)
(* changed, takes no multiplier from an adapter it keeps.                    *)
MultiplierSurvives ==
    [][SaveUserConfig =>
         \A i \in Present(Baseline) \cap Present(file') :
            Baseline.multiplier[i] => file'.multiplier[i]]_configVars

(* While no update is under way, a manager whose snapshot is that of the file *)
(* serves what the file says, unless an update overlapped another write or a  *)
(* reload: a reload overlooks no edit.  (A file that is absent again has the snapshot   *)
(* of an absent file, whatever it held in between.)                           *)
CurrentMatchesFile ==
    (~InUpdate /\ ~raced /\ reload = NoStep /\ file.kind \notin {"none", "bad"} /\ snapshot = stamp)
        => NormalizeConfig(current) = NormalizeConfig(file)

(* A pricing call changes prices and nothing else of the file. *)
PricingCallsKeepTheRest ==
    [][\A p \in Pricers, m \in Models :
         (UpdateModelPricing(p, m) \/ DeleteModelPricing(p, m) \/ RestoreDefaultPricing(p, m)) =>
            [file' EXCEPT !.rows = Baseline.rows] = Baseline]_configVars

================================================================================
