------------------------------ MODULE Settings ------------------------------
(***************************************************************************)
(* The configuration centre (internal/settings): the rows a page saves,    *)
(* the environment that overrides some of them (env.go), the group view a  *)
(* page is shown, and the layered load every chat turn and every scan      *)
(* makes (service.go LoadRuntimeConfig).  Saves are applied key by key and *)
(* loads read group by group, so the two overlap.                          *)
(***************************************************************************)
EXTENDS Naturals, Sequences, SequencesExt

CONSTANTS
  Keys,       \* catalogue keys (catalog.go), of every group
  GroupOf,    \* the group of a key
  Groups,     \* Groups(): the groups, in the order they are read
  PatchOrder, \* the keys by name, the order a batch is saved in
  Sourced,    \* keys with a place in config.yaml; the others live in the
              \* table alone, and nothing reads them at run time
  Sensitive,  \* keys stored encrypted
  Seeded,     \* whitelisted keys of the seed tier: the page outranks them
  Secret,     \* whitelisted keys of the secret tier: they outrank the page
  Modelled,   \* the keys that say where the model is (base_url, model)
  Saved, Deployed, Filed,   \* a value by the hand that set it: page,
                            \* environment, config.yaml
  Bad,        \* a value normalize refuses
  Savers, Loaders,
  MaxSaves, MaxLoads,       \* bounds: batches sent, loads begun
  MaxFaults                 \* bound: store calls that fail, and crashes

NoRow == "no row"
Empty == "empty"        \* a row whose value is "", [] or null
Default == "default"    \* the catalogue's default
Unset == "unset"

(* The catalogue: every key is in a group that is read, a whitelisted key  *)
(* has one tier.                                                           *)
ASSUME SettingsAssumption ==
  /\ Groups \in Seq(ToSet(Groups)) /\ GroupOf \in [Keys -> ToSet(Groups)]
  /\ Sensitive \cup Seeded \cup Secret \cup Sourced \subseteq Keys
  /\ Modelled \subseteq Sourced
  /\ Seeded \cap Secret = {}

VARIABLES
  db,      \* the settings table: the content of each key's row
  env,     \* what the deployment sets for each key; fixed while it runs
  file,    \* config.yaml, as each process read it at its start
  cipher,  \* a SecretCipher is configured
  save,    \* the PATCH each saver has sent
  load,    \* the load each loader makes
  since,   \* history: what the page would have shown of each sourced key,
           \* from the moment a load began
  saves, loads, faults

deployVars == <<env, file, cipher>>
settingsVars == <<db, deployVars, save, load, since, saves, loads, faults>>

KeysOf(g) == {k \in Keys : GroupOf[k] = g}
HasContent(v) == v \notin {NoRow, Empty}

ActiveEnvOverrides(dbHas) ==
  {k \in Seeded \cup Secret : /\ env[k] # Unset
                              /\ ~(k \in Seeded /\ k \in dbHas)}

(* What the page is shown of a group: for each key whether the deployment's *)
(* value is in force, whether there is a value, and the row's value or, for *)
(* want of a row, the catalogue's default.  (Of a sensitive key it is not   *)
(* the value that is shown, only whether there is one.)                     *)
GetGroup(g) ==
  LET dbHas == {k \in KeysOf(g) \cap (Seeded \cup Secret) : HasContent(db[k])}
      overrides == ActiveEnvOverrides(dbHas)
  IN  [k \in KeysOf(g) |-> [override |-> k \in overrides,
                            hasValue |-> k \in overrides \/ HasContent(db[k]),
                            value |-> IF db[k] = NoRow THEN Default ELSE db[k]]]

(* A key as its page shows it: whether it is set, and its value, which is   *)
(* the variable's where the page says that a variable is in force.          *)
Shown(k) == LET item == GetGroup(GroupOf[k])[k]
            IN  [set |-> item.hasValue,
                 value |-> IF item.override THEN env[k] ELSE item.value]

IdleSave == [pc |-> "idle", batch |-> <<>>, todo |-> <<>>, changed |-> {},
             warn |-> {}, audited |-> FALSE]
EndedSave(s, pc) == [save[s] EXCEPT !.pc = pc, !.batch = <<>>, !.todo = <<>>]
IdleLoad == [pc |-> "idle", group |-> 1, raw |-> <<>>, dbHas |-> {},
             configured |-> {}]

SettingsInit ==
  /\ db = [k \in Keys |-> NoRow]
  /\ \E set \in {{}, Seeded \cup Secret} :
       env = [k \in Keys |-> IF k \in set THEN Deployed ELSE Unset]
  /\ \E v \in {Default, Filed, Bad} :
       file = [k \in Keys |-> IF k \in Sourced THEN v ELSE Default]
  /\ cipher \in BOOLEAN
  /\ save = [s \in Savers |-> IdleSave] /\ load = [l \in Loaders |-> IdleLoad]
  /\ since = [l \in Loaders |-> [k \in Sourced |-> {}]]
  /\ saves = 0 /\ loads = 0 /\ faults = 0

(* Every step lets the history see what it leaves.                         *)
Observe ==
  since' = [l \in Loaders |->
              IF load'[l].pc = "read"
              THEN [k \in Sourced |-> since[l][k] \cup {Shown(k)'}] ELSE since[l]]

---------------------------------------------------------------------------
(* PatchGroup.  A batch is any choice of values for keys of one group.     *)

Batches == UNION {[ks -> {Saved, Empty, Bad}] :
                    ks \in UNION {SUBSET KeysOf(g) \ {{}} : g \in ToSet(Groups)}}

Sorted(b) == SelectSeq(PatchOrder, LAMBDA k : k \in DOMAIN b)

(* The whole batch is validated before any of it is written: a value no    *)
(* rule accepts refuses all of it.                                         *)
Refused(b) == \E k \in DOMAIN b : b[k] = Bad

PatchGroup(s) ==
  /\ save[s].pc \in {"idle", "refused", "failed", "done"} /\ saves < MaxSaves
  /\ \E b \in Batches :
       save' = [save EXCEPT ![s] =
                  IF Refused(b) THEN [IdleSave EXCEPT !.pc = "refused"]
                  ELSE [IdleSave EXCEPT !.pc = "overrides", !.batch = b,
                                        !.todo = Sorted(b)]]
  /\ saves' = saves + 1
  /\ UNCHANGED <<db, deployVars, load, loads, faults>>

(* What the environment overrides is read before anything is saved: it is  *)
(* what the saver is warned about.                                         *)
ReadOverrides(s) ==
  /\ save[s].pc = "overrides"
  /\ LET b == save[s].batch
         dbHas == {k \in Keys : HasContent(db[k])}
     IN  save' = [save EXCEPT ![s].pc = "keys",
                              ![s].warn = ActiveEnvOverrides(dbHas) \cap DOMAIN b]
  /\ UNCHANGED <<db, deployVars, load, saves, loads, faults>>

(* One key: its row is read, compared and written.  A sensitive key needs  *)
(* the cipher, and loses its row when it is cleared.                       *)
Wanted(k, v) ==
  IF k \in Sensitive /\ ~HasContent(v)
  THEN IF HasContent(db[k]) THEN NoRow ELSE db[k]
  ELSE v

SaveKey(s) ==
  /\ save[s].pc = "keys" /\ save[s].todo # <<>>
  /\ LET k == Head(save[s].todo)
         v == Wanted(k, save[s].batch[k])
     IN  IF k \in Sensitive /\ ~cipher
         THEN save' = [save EXCEPT ![s] = EndedSave(s, "failed")] /\ UNCHANGED db
         ELSE /\ db' = [db EXCEPT ![k] = v]
              /\ save' = [save EXCEPT ![s].todo = Tail(@),
                                      ![s].changed = IF db[k] = v THEN @ ELSE @ \cup {k}]
  /\ UNCHANGED <<deployVars, load, saves, loads, faults>>

(* A change is put on record, which may fail without failing the save.     *)
EndSave(s) ==
  /\ save[s].pc = "keys" /\ save[s].todo = <<>>
  /\ \/ save' = [save EXCEPT ![s] = [EndedSave(s, "done") EXCEPT
                                       !.audited = save[s].changed # {}]]
        /\ UNCHANGED faults
     \/ save[s].changed # {} /\ faults < MaxFaults
        /\ save' = [save EXCEPT ![s] = EndedSave(s, "done")] /\ faults' = faults + 1
  /\ UNCHANGED <<db, deployVars, load, saves, loads>>

(* A store call of a save fails: what is saved stays saved, unrecorded.    *)
SaveFails(s) ==
  /\ save[s].pc \in {"overrides", "keys"} /\ faults < MaxFaults
  /\ save' = [save EXCEPT ![s] = EndedSave(s, "failed")] /\ faults' = faults + 1
  /\ UNCHANGED <<db, deployVars, load, saves, loads>>

---------------------------------------------------------------------------
(* LoadRuntimeConfig, and ChatRuntimeConfig's gate.                        *)

BeginLoad(l) ==
  /\ load[l].pc \in {"idle", "loaded", "failed", "unconfigured"} /\ loads < MaxLoads
  /\ load' = [load EXCEPT ![l] = [IdleLoad EXCEPT !.pc = "read", !.raw = file]]
  /\ since' = [since EXCEPT ![l] = [k \in Sourced |-> {Shown(k)}]]
  /\ loads' = loads + 1
  /\ UNCHANGED <<db, deployVars, save, saves, faults>>

(* One group's rows: those with content count for what of the environment  *)
(* does, and are laid over what is there where they have a place in it.    *)
loadRuntime(l) ==
  /\ load[l].pc = "read" /\ load[l].group <= Len(Groups)
  /\ LET full == {k \in KeysOf(Groups[load[l].group]) : HasContent(db[k])}
         ks == full \cap Sourced
     IN  IF ~cipher /\ ks \cap Sensitive # {}
         THEN load' = [load EXCEPT ![l].pc = "failed"]
         ELSE load' = [load EXCEPT ![l].group = @ + 1,
                                   ![l].raw = [k \in Keys |-> IF k \in ks THEN db[k] ELSE @[k]],
                                   ![l].dbHas = @ \cup (full \cap (Seeded \cup Secret)),
                                   ![l].configured = @ \cup ks]
  /\ UNCHANGED <<db, deployVars, save, saves, loads, faults>>

(* Mutant: the rows are read again to judge the environment. *)
envOverrideReread(l) ==
  {k \in Seeded \cup Secret : env[k] # Unset /\ ~(k \in Seeded /\ HasContent(db[k]))}

(* The environment last: what of it counts is judged by the rows the load  *)
(* has read.                                                               *)
envOverrideValues(l) ==
  {k \in Seeded \cup Secret : env[k] # Unset /\ ~(k \in Seeded /\ k \in load[l].dbHas)}

modelExplicitlyConfigured(raw, configured) ==
  \E k \in Modelled : k \in configured \/ raw[k] # Default

EndLoad(l) ==
  /\ load[l].pc = "read" /\ load[l].group > Len(Groups)
  /\ LET over == envOverrideValues(l)
         raw == [k \in Keys |-> IF k \in over \cap Sourced THEN env[k] ELSE load[l].raw[k]]
         configured == load[l].configured \cup over
     IN  load' = [load EXCEPT ![l].raw = raw, ![l].configured = configured,
                              ![l].pc = IF modelExplicitlyConfigured(raw, configured)
                                        THEN "loaded" ELSE "unconfigured"]
  /\ UNCHANGED <<db, deployVars, save, saves, loads, faults>>

LoadFails(l) ==
  /\ load[l].pc = "read" /\ load[l].group <= Len(Groups) /\ faults < MaxFaults
  /\ load' = [load EXCEPT ![l].pc = "failed"] /\ faults' = faults + 1
  /\ UNCHANGED <<db, deployVars, save, saves, loads>>

Saving(s) == \/ PatchGroup(s) \/ ReadOverrides(s) \/ SaveKey(s)
             \/ EndSave(s) \/ SaveFails(s)
Loading(l) == loadRuntime(l) \/ EndLoad(l) \/ LoadFails(l)

SettingsNext ==
  \/ \E s \in Savers : Saving(s) /\ Observe
  \/ \E l \in Loaders : BeginLoad(l) \/ (Loading(l) /\ Observe)

---------------------------------------------------------------------------
(* A load that ends, however the saves and the import ran past it, has     *)
(* given each key that has a place in the configuration a value that the   *)
(* page showed as set at some moment since the load began; or config.yaml's *)
(* if at some such moment the page called the key not set.  The page's     *)
(* notion of precedence (GetGroup) and the load's (LoadRuntimeConfig) are   *)
(* the same, and no key falls between its row and its variable.            *)
SetIsLoaded ==
  \A l \in Loaders : load[l].pc \in {"loaded", "unconfigured"} =>
    \A k \in Sourced : \E item \in since[l][k] :
      load[l].raw[k] = IF item.set THEN item.value ELSE file[k]

(* What a page that shows the configuration in force would promise: each   *)
(* key is loaded with a value its page has shown.                          *)
(* The code does not keep this: a key that is not set is shown with the    *)
(* catalogue's default and loaded from config.yaml (README, section 4).    *)
ShownIsLoaded ==
  \A l \in Loaders : load[l].pc \in {"loaded", "unconfigured"} =>
    \A k \in Sourced : \E item \in since[l][k] : load[l].raw[k] = item.value

(* What the documentation says of a batch with a sensitive key, and        *)
(* service_test.go of its other keys: without a cipher all of it is        *)
(* refused, so a save that failed for want of one has changed nothing.     *)
(* The code does not keep this (README, section 4).                        *)
CipherlessSavesNothing ==
  \A s \in Savers : save[s].pc = "failed" /\ ~cipher /\ faults = 0 =>
    save[s].changed = {}
=============================================================================
