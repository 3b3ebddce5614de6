---------------------------- MODULE CollectStorage ----------------------------
(***************************************************************************)
(* The encrypted state of the Collect phone: EncryptedCollectStore, which  *)
(* queues transactions, over ExpoAesGcmStateDriver, which replaces the     *)
(* state through three files (next, current, backup).                      *)
(*                                                                         *)
(* A transaction reads the document, works on it and replaces it; every    *)
(* file operation of the replacement is a step, and so are a killed app, a *)
(* failing file operation and a plain read, which does not queue.  What a  *)
(* document says is abstracted to the transactions whose work it holds.    *)
(* The file system is external: a file is written or copied in two steps,  *)
(* being unreadable in between, and a move with overwrite deletes the      *)
(* destination before it renames.                                          *)
(***************************************************************************)
EXTENDS Naturals, Sequences

CONSTANTS
  Transactions,   \* calls of store.transaction
  Readers,        \* calls of store.read outside a transaction
  Opener,         \* the replacement that EncryptedCollectStore.open may make
  MaxFaults       \* bound: killed apps and failing file operations

ASSUME StorageAssumption ==
  /\ Opener \notin Transactions
  /\ MaxFaults \in Nat

Documents == SUBSET Transactions
Writers == Transactions \cup {Opener}

(* What decrypt finds in a file: a document, something that fails
   authentication, or no file. *)
Sealed(document) == [kind |-> "sealed", holds |-> document]
Torn == [kind |-> "torn", holds |-> {}]
Absent == [kind |-> "absent", holds |-> {}]
Contents == {Sealed(document) : document \in Documents} \cup {Torn, Absent}
Decrypts(file) == file.kind = "sealed"

VARIABLES
  next, current, backup,   \* the three files
  phase,                   \* of the app: "down", "opening", "open"
  queue,                   \* the promise chain: transactions not yet released
  pc,                      \* per writer: the next step of its transaction
  draft,                   \* per writer: the document it is about to store
  saved,                   \* history: transactions whose caller was told so
  reading, since, seen,    \* per reader: its step, saved when it began, its result
  faults                   \* killed apps and failed operations so far

files == <<next, current, backup>>
readerVars == <<reading, since, seen>>
vars == <<files, phase, queue, pc, draft, saved, readerVars, faults>>

Replacing == {"creating", "writing", "verifying", "saving_old", "copying_old", "moving",
              "renaming", "cleaning"}
Steps == Replacing \cup {"new", "queued", "returned", "failed"}

-----------------------------------------------------------------------------
(* ExpoAesGcmStateDriver.read: the current file, or the backup if the current
   one is missing or fails authentication. *)
Readable == Decrypts(current) \/ Decrypts(backup)
Stored == IF Decrypts(current) THEN current.holds ELSE backup.holds

TypeOK ==
  /\ next \in Contents /\ current \in Contents /\ backup \in Contents
  /\ phase \in {"down", "opening", "open"}
  /\ queue \in Seq(Transactions)
  /\ pc \in [Writers -> Steps]
  /\ draft \in [Writers -> Documents]
  /\ saved \in SUBSET Transactions
  /\ reading \in [Readers -> {"idle", "current", "backup", "returned", "failed"}]
  /\ since \in [Readers -> Documents]
  /\ seen \in [Readers -> Documents]
  /\ faults \in 0..MaxFaults

Init ==
  /\ next = Absent /\ current = Absent /\ backup = Absent
  /\ phase = "down"
  /\ queue = <<>>
  /\ pc = [w \in Writers |-> "new"]
  /\ draft = [w \in Writers |-> {}]
  /\ saved = {}
  /\ reading = [r \in Readers |-> "idle"]
  /\ since = [r \in Readers |-> {}]
  /\ seen = [r \in Readers |-> {}]
  /\ faults = 0

-----------------------------------------------------------------------------
(* EncryptedCollectStore *)

(* open: an unreadable store makes open throw, an empty one is initialised. *)
Open ==
  /\ phase = "down"
  /\ \/ /\ Readable
        /\ phase' = "open"
        /\ UNCHANGED <<pc, draft>>
     \/ /\ current = Absent /\ backup = Absent
        /\ phase' = "opening"
        /\ pc' = [pc EXCEPT ![Opener] = "creating"]
        /\ draft' = [draft EXCEPT ![Opener] = {}]
  /\ UNCHANGED <<files, queue, saved, readerVars, faults>>

(* transaction, up to `await prior`. *)
Enqueue(t) ==
  /\ phase = "open"
  /\ pc[t] = "new"
  /\ pc' = [pc EXCEPT ![t] = "queued"]
  /\ queue' = Append(queue, t)
  /\ UNCHANGED <<files, phase, draft, saved, readerVars, faults>>

(* Variant: a transaction does not wait for the one before it. *)
BeginUnqueued(t) ==
  /\ pc[t] = "queued"
  /\ Readable
  /\ draft' = [draft EXCEPT ![t] = Stored \cup {t}]
  /\ pc' = [pc EXCEPT ![t] = "creating"]
  /\ UNCHANGED <<files, phase, queue, saved, readerVars, faults>>

(* The prior transaction released the queue: read the document and work on it. *)
Begin(t) ==
  /\ pc[t] = "queued"
  /\ t = Head(queue)
  /\ Readable
  /\ draft' = [draft EXCEPT ![t] = Stored \cup {t}]
  /\ pc' = [pc EXCEPT ![t] = "creating"]
  /\ UNCHANGED <<files, phase, queue, saved, readerVars, faults>>

(* Variant: no finally. *)
ReleaseNever(w) == UNCHANGED <<phase, queue>>

(* finally { release() }; for the opener, open returns or throws. *)
Release(w) ==
  IF w = Opener
    THEN /\ phase' = IF pc'[w] = "returned" THEN "open" ELSE "down"
         /\ UNCHANGED queue
    ELSE /\ queue' = Tail(queue)
         /\ UNCHANGED phase

(* The work, or the read before it, throws: nothing is replaced. *)
Reject(t) ==
  /\ pc[t] = "queued"
  /\ t = Head(queue)
  /\ pc' = [pc EXCEPT ![t] = "failed"]
  /\ Release(t)
  /\ UNCHANGED <<files, draft, saved, readerVars, faults>>

-----------------------------------------------------------------------------
(* ExpoAesGcmStateDriver.replace *)

Step(w, from, to) ==
  /\ pc[w] = from
  /\ pc' = [pc EXCEPT ![w] = to]
  /\ UNCHANGED <<phase, queue, draft, saved, readerVars, faults>>

(* next.create with overwrite. *)
CreateNext(w) ==
  /\ Step(w, "creating", "writing")
  /\ next' = Torn
  /\ UNCHANGED <<current, backup>>

(* next.write; the bytes may not be what was meant. *)
WriteNext(w) ==
  /\ Step(w, "writing", "verifying")
  /\ next' \in {Sealed(draft[w]), Torn}
  /\ UNCHANGED <<current, backup>>

(* Variant: the written file is not read back. *)
VerifyNothing(w) == Step(w, "verifying", "saving_old") /\ UNCHANGED files

(* decrypt(next) succeeds. *)
Verify(w) ==
  /\ Decrypts(next)
  /\ Step(w, "verifying", "saving_old")
  /\ UNCHANGED files

(* decrypt(next) throws out of replace, and out of the transaction. *)
VerifyFails(w) ==
  /\ pc[w] = "verifying"
  /\ ~Decrypts(next)
  /\ pc' = [pc EXCEPT ![w] = "failed"]
  /\ Release(w)
  /\ UNCHANGED <<files, draft, saved, readerVars, faults>>

(* Variant: the old document is not kept while the new one moves in. *)
SkipSavingOld(w) ==
  /\ Step(w, "saving_old", "moving")
  /\ UNCHANGED files

(* current.copy(backup), if there is a current file. *)
StartSavingOld(w) ==
  \/ /\ current # Absent
     /\ Step(w, "saving_old", "copying_old")
     /\ backup' = Torn
     /\ UNCHANGED <<next, current>>
  \/ /\ current = Absent
     /\ Step(w, "saving_old", "moving")
     /\ UNCHANGED files

SaveOld(w) ==
  /\ Step(w, "copying_old", "moving")
  /\ backup' = current
  /\ UNCHANGED <<next, current>>

(* next.move(current) with overwrite. *)
StartMove(w) ==
  /\ Step(w, "moving", "renaming")
  /\ current' = Absent
  /\ UNCHANGED <<next, backup>>

Rename(w) ==
  /\ Step(w, "renaming", "cleaning")
  /\ current' = next
  /\ next' = Absent
  /\ UNCHANGED backup

(* backup.delete; replace and the transaction return. *)
Clean(w) ==
  /\ pc[w] = "cleaning"
  /\ backup' = Absent
  /\ pc' = [pc EXCEPT ![w] = "returned"]
  /\ saved' = saved \cup ({w} \cap Transactions)
  /\ Release(w)
  /\ UNCHANGED <<next, current, draft, readerVars, faults>>

-----------------------------------------------------------------------------
(* Reads, failures and restarts *)

BeginRead(r) ==
  /\ phase = "open"
  /\ reading[r] = "idle"
  /\ reading' = [reading EXCEPT ![r] = "current"]
  /\ since' = [since EXCEPT ![r] = saved]
  /\ UNCHANGED <<files, phase, queue, pc, draft, saved, seen, faults>>

(* decrypt(current) succeeds, or is missing or fails. *)
ReadCurrent(r) ==
  /\ reading[r] = "current"
  /\ \/ /\ Decrypts(current)
        /\ seen' = [seen EXCEPT ![r] = current.holds]
        /\ reading' = [reading EXCEPT ![r] = "returned"]
     \/ /\ ~Decrypts(current)
        /\ reading' = [reading EXCEPT ![r] = "backup"]
        /\ UNCHANGED seen
  /\ UNCHANGED <<files, phase, queue, pc, draft, saved, since, faults>>

(* decrypt(backup) succeeds, or read throws or finds nothing. *)
ReadBackup(r) ==
  /\ reading[r] = "backup"
  /\ \/ /\ Decrypts(backup)
        /\ seen' = [seen EXCEPT ![r] = backup.holds]
        /\ reading' = [reading EXCEPT ![r] = "returned"]
     \/ /\ ~Decrypts(backup)
        /\ reading' = [reading EXCEPT ![r] = "failed"]
        /\ UNCHANGED seen
  /\ UNCHANGED <<files, phase, queue, pc, draft, saved, since, faults>>

(* A file operation throws where it stands (storage full, permission): the
   transaction fails, even if the rename before it was done. *)
OperationFails(w) ==
  /\ faults < MaxFaults
  /\ faults' = faults + 1
  /\ pc[w] \in Replacing
  /\ pc' = [pc EXCEPT ![w] = "failed"]
  /\ Release(w)
  /\ UNCHANGED <<files, draft, saved, readerVars>>

(* The app is killed: the files stay as they are, nobody hears of anything. *)
Kill ==
  /\ phase # "down"
  /\ faults < MaxFaults
  /\ faults' = faults + 1
  /\ phase' = "down"
  /\ queue' = <<>>
  /\ pc' = [w \in Writers |-> IF pc[w] \in {"new", "returned"} THEN pc[w] ELSE "failed"]
  /\ reading' = [r \in Readers |-> IF reading[r] \in {"idle", "returned"} THEN reading[r] ELSE "failed"]
  /\ UNCHANGED <<files, draft, saved, since, seen>>

-----------------------------------------------------------------------------
Replace(w) ==
  \/ CreateNext(w) \/ WriteNext(w) \/ Verify(w) \/ VerifyFails(w)
  \/ StartSavingOld(w) \/ SaveOld(w) \/ StartMove(w) \/ Rename(w) \/ Clean(w)

Read(r) == ReadCurrent(r) \/ ReadBackup(r)

Next ==
  \/ Open
  \/ \E t \in Transactions : Enqueue(t) \/ Begin(t) \/ Reject(t)
  \/ \E w \in Writers : Replace(w) \/ OperationFails(w)
  \/ \E r \in Readers : BeginRead(r) \/ Read(r)
  \/ Kill

Spec == Init /\ [][Next]_vars

(* Promises settle: a queued transaction starts once released, and every file
   operation returns or throws. *)
Fairness ==
  /\ \A t \in Transactions : WF_vars(Begin(t))
  /\ \A w \in Writers : WF_vars(Replace(w))

FairSpec == Spec /\ Fairness

-----------------------------------------------------------------------------
(* Properties *)

(* storage.ts:63 and production-storage.ts:130.  Once a caller was told that its
   work is saved, reading the files finds it, whatever is killed or fails. *)
SavedIsReadable == saved # {} => Readable /\ saved \subseteq Stored

(* storage.ts:63-78 and production-storage.ts:138-144.  Why the queue and the
   order of the file operations suffice: only the head of the queue, or the
   opener of an empty store, replaces; what it is about to store extends what
   the files hold, and some file holds that until the new document is in place. *)
Replaces(w) == pc[w] \in Replacing

OneReplaces ==
  /\ \A w \in Writers : Replaces(w) =>
       IF w = Opener THEN phase = "opening"
                     ELSE phase = "open" /\ queue # <<>> /\ w = Head(queue)
  /\ \A t \in Transactions : pc[t] = "queued" =>
       phase = "open" /\ \E i \in 1..Len(queue) : queue[i] = t
  /\ pc[Opener] # "queued"

FilesFollow ==
  /\ current.kind # "torn"
  /\ phase = "open" => Readable
  /\ saved # {} => Readable /\ saved \subseteq Stored
  /\ \A w \in Writers :
       /\ pc[w] = "verifying" => next \in {Sealed(draft[w]), Torn}
       /\ pc[w] \in {"saving_old", "copying_old", "moving", "renaming"} =>
            next = Sealed(draft[w])
       /\ pc[w] = "copying_old" => Decrypts(current)
       /\ pc[w] = "moving" => current \in {Absent, backup}
       /\ pc[w] = "renaming" => current = Absent
       /\ pc[w] = "cleaning" => current = Sealed(draft[w])

DraftExtends ==
  /\ \A t \in Transactions : Replaces(t) => Readable /\ draft[t] = Stored \cup {t}
  /\ Replaces(Opener) =>
       /\ draft[Opener] = {}
       /\ pc[Opener] # "cleaning" => current = Absent /\ backup = Absent

ReplacementProtocol == OneReplaces /\ FilesFollow /\ DraftExtends

(* production-storage.ts:142-144.  The document that the files hold only ever
   grows: an interrupted replacement is finished or undone, never half of one,
   and work that made it into the files stays although nobody was told. *)
EvidenceOnlyGrows ==
  [][Readable => Readable' /\ Stored \subseteq Stored']_files

(* storage.ts:57.  A read outside the queue may fail while files move, but what
   it returns holds everything that was saved when it began. *)
ReadsAreFresh == \A r \in Readers : reading[r] = "returned" => since[r] \subseteq seen[r]

(* storage.ts:76.  Every queued transaction is settled, whatever the ones before
   it do: a failed replacement does not keep the queue. *)
QueueDrains ==
  \A t \in Transactions : (pc[t] = "queued") ~> (pc[t] \in {"returned", "failed"})

(* The files implement one document that changes atomically. *)
Document ==
  INSTANCE AtomicDocument WITH
    document <- Stored,
    reported <- saved

StoresAtomically == Document!Spec
==============================================================================
