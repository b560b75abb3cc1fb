------------------------------ MODULE PhoneKeys ------------------------------
(***************************************************************************)
(* The keys of the mobile signer (AirSignCoreModule.ts): asynchronous calls *)
(* over the phone's secure store, where each key has an entry of its own   *)
(* and one more entry lists them.  Every await is a step: calls mix, fail, *)
(* or end with the app between any two.                                    *)
(***************************************************************************)
EXTENDS Naturals, Sequences, FiniteSets, SequencesExt

CONSTANTS Tasks,     \* calls in progress at a time
          Keys,      \* private keys a user may bring from elsewhere
          MaxKeyCalls,  \* bound: calls on keys
          NoKey

\* A key that is generated here is none that was made elsewhere.
ASSUME KeysAreOwn == /\ MaxKeyCalls \in Nat
                     /\ Keys \intersect ({NoKey} \union {<<"generated", n>> : n \in 1..MaxKeyCalls}) = {}

VARIABLES secrets,   \* id -> key: the entries of the secure store
          index,     \* the entry that lists the ids
          task,      \* the calls in progress
          calls,     \* calls begun; an id is the number of its call
          created,   \* ids of the calls that reported a key
          deleting,  \* ids whose deletion was asked for
          exported,  \* the keys the app has shown for a backup
          raced      \* an index update, an import, met another one's window

keyVars == <<secrets, index, task, calls, created, deleting, exported, raced>>

Idle == [op |-> "none", pc |-> "idle", id |-> 0, key |-> NoKey, read |-> <<>>]

KeyInit == /\ secrets = <<>> /\ index = <<>>
           /\ task = [t \in Tasks |-> Idle]
           /\ calls = 0 /\ created = {} /\ deleting = {} /\ exported = {} /\ raced = {}

-----------------------------------------------------------------------------
BeginCall(t, c) == /\ task[t].pc = "idle" /\ calls < MaxKeyCalls
               /\ calls' = calls + 1
               /\ task' = [task EXCEPT ![t] = c]

GenerateKeypair(t) ==
  /\ BeginCall(t, [op |-> "generate", pc |-> "store", id |-> calls + 1,
               key |-> <<"generated", calls + 1>>, read |-> <<>>])
  /\ UNCHANGED <<secrets, index, created, deleting, exported, raced>>
\* Any key may be given, one that the app itself has shown included.
ImportKeypair(t, key) ==
  /\ BeginCall(t, [op |-> "import", pc |-> "check", id |-> calls + 1, key |-> key, read |-> <<>>])
  /\ UNCHANGED <<secrets, index, created, deleting, exported, raced>>
\* The screen offers the ids it was told of or has read from the index.
DeleteKeypair(t, id) ==
  /\ id \in created \union ToSet(index)
  /\ BeginCall(t, [op |-> "delete", pc |-> "remove", id |-> id, key |-> NoKey, read |-> <<>>])
  /\ deleting' = deleting \union {id}
  /\ UNCHANGED <<secrets, index, created, exported, raced>>

\* One read of one entry, shown on the screen of a listed id.
ExportPrivateKey(id) ==
  /\ id \in created \union ToSet(index) /\ id \in DOMAIN secrets
  /\ exported' = exported \union {secrets[id]}
  /\ UNCHANGED <<secrets, index, task, calls, created, deleting, raced>>

To(t, c) == task' = [task EXCEPT ![t] = c]

\* Another call is between its read of the index and its save; another import
\* is between its check and its save.
Updating(t) == \E u \in Tasks \ {t} : task[u].pc = "save"
Importing(t) == \E u \in Tasks \ {t} :
  task[u].op = "import" /\ task[u].pc \in {"compare", "store", "read", "save"}

\* An import reads the index, then the listed entries one by one.
Check(t) == /\ task[t].pc = "check"
            /\ To(t, [task[t] EXCEPT !.pc = "compare", !.read = index])
            /\ raced' = IF Importing(t) THEN raced \union {"import"} ELSE raced
            /\ UNCHANGED <<secrets, index, calls, created, deleting, exported>>

\* Mutant: the last entry decides.
XSame(rest, key) == rest[1] \in DOMAIN secrets /\ secrets[rest[1]] = key /\ Len(rest) = 1
Same(rest, key) == rest[1] \in DOMAIN secrets /\ secrets[rest[1]] = key

Compare(t) == /\ task[t].pc = "compare"
              /\ To(t, IF task[t].read = <<>> THEN [task[t] EXCEPT !.pc = "store"]
                       ELSE IF Same(task[t].read, task[t].key) THEN Idle
                       ELSE [task[t] EXCEPT !.read = Tail(@)])
              /\ UNCHANGED <<secrets, index, calls, created, deleting, exported, raced>>

StoreSecret(t) == /\ task[t].pc = "store"
                  /\ secrets' = [id \in DOMAIN secrets \union {task[t].id} |->
                                   IF id = task[t].id THEN task[t].key ELSE secrets[id]]
                  /\ To(t, [task[t] EXCEPT !.pc = "read"])
                  /\ UNCHANGED <<index, calls, created, deleting, exported, raced>>
RemoveSecret(t) == /\ task[t].pc = "remove"
                   /\ secrets' = [id \in DOMAIN secrets \ {task[t].id} |-> secrets[id]]
                   /\ To(t, [task[t] EXCEPT !.pc = "read"])
                   /\ UNCHANGED <<index, calls, created, deleting, exported, raced>>

\* getKeypairIndex and, an await later, saveKeypairIndex; then the call is over.
ReadIndex(t) == /\ task[t].pc = "read"
                /\ To(t, [task[t] EXCEPT !.pc = "save", !.read = index])
                /\ raced' = IF Updating(t) THEN raced \union {"index"} ELSE raced
                /\ UNCHANGED <<secrets, index, calls, created, deleting, exported>>

\* The filter of the ids, all but one.
Without(ids, id) ==
  LET kept[k \in 0..Len(ids)] == IF k = 0 THEN <<>>
                                 ELSE IF ids[k] = id THEN kept[k - 1] ELSE Append(kept[k - 1], ids[k])
  IN kept[Len(ids)]

\* Mutant: the filter keeps what it should drop.
XUpdated(c) == IF c.op = "delete" THEN SelectSeq(c.read, LAMBDA id : id = c.id) ELSE Append(c.read, c.id)
Updated(c) == IF c.op = "delete" THEN Without(c.read, c.id) ELSE Append(c.read, c.id)

SaveIndex(t) == /\ task[t].pc = "save"
                /\ index' = Updated(task[t])
                /\ created' = IF task[t].op /= "delete" THEN created \union {task[t].id} ELSE created
                /\ To(t, Idle)
                /\ UNCHANGED <<secrets, calls, deleting, exported, raced>>

\* The store refuses, and the call ends there with an error; or the app ends.
Refused(t) == /\ task[t].pc /= "idle"
              /\ To(t, Idle)
              /\ UNCHANGED <<secrets, index, calls, created, deleting, exported, raced>>
AppEnds == /\ \E t \in Tasks : task[t].pc /= "idle"
           /\ task' = [t \in Tasks |-> Idle]
           /\ UNCHANGED <<secrets, index, calls, created, deleting, exported, raced>>

KeyStep(t) == \/ Check(t) \/ Compare(t) \/ StoreSecret(t) \/ RemoveSecret(t)
              \/ ReadIndex(t) \/ SaveIndex(t) \/ Refused(t)
KeyNext == \/ AppEnds
           \/ \E id \in 1..MaxKeyCalls : ExportPrivateKey(id)
           \/ \E t \in Tasks : \/ GenerateKeypair(t)
                               \/ \E key \in Keys \union exported : ImportKeypair(t, key)
                               \/ \E id \in 1..MaxKeyCalls : DeleteKeypair(t, id)
                               \/ KeyStep(t)
KeySpec == KeyInit /\ [][KeyNext]_keyVars

-----------------------------------------------------------------------------
\* What the calls have reported is what the list shows, unless two updates of
\* the index met: a key that was created and that nobody asked to delete is
\* listed and there, whatever else failed or was cut short.
ListedAsReported ==
  "index" \notin raced => created \ deleting \subseteq ToSet(index) \intersect DOMAIN secrets

\* Two listed ids that have an entry have different keys, unless two imports
\* or two updates met: also when a key that was generated here, exported and
\* perhaps deleted is imported again, and after an import that failed half way.
NoKeyTwice ==
  raced = {} => \A i, j \in DOMAIN index :
    i /= j /\ {index[i], index[j]} \subseteq DOMAIN secrets => secrets[index[i]] /= secrets[index[j]]
=============================================================================
