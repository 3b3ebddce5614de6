------------------------- MODULE CollectStorageProofs -------------------------
(***************************************************************************)
(* Theorems about CollectStorage, for any transactions, readers and        *)
(* faults.                                                                 *)
(***************************************************************************)
EXTENDS CollectStorage, SequenceTheorems, TLAPS

USE DEF Replacing, Steps, Writers

-----------------------------------------------------------------------------
(* What the files can hold. *)
LEMMA FileKinds ==
  /\ Torn \in Contents /\ Absent \in Contents
  /\ \A document \in Documents :
       /\ Sealed(document) \in Contents
       /\ Decrypts(Sealed(document))
       /\ Sealed(document).holds = document
  /\ \A file \in Contents :
       /\ file.holds \in Documents
       /\ Decrypts(file) => file = Sealed(file.holds)
       /\ ~Decrypts(file) => file \in {Torn, Absent} /\ file.holds = {}
  /\ ~Decrypts(Torn) /\ ~Decrypts(Absent) /\ Torn # Absent
BY DEF Contents, Torn, Absent, Sealed, Decrypts, Documents

(* The files hold one document, whichever of them it is read from. *)
LEMMA StoredType ==
  ASSUME TypeOK
  PROVE  /\ Stored \in Documents
         /\ ~Readable => Stored = {}
BY FileKinds DEF TypeOK, Stored, Readable

(* Dropping the head of the queue. *)
LEMMA TailType ==
  ASSUME NEW s \in Seq(Transactions), s # <<>>
  PROVE  /\ Tail(s) \in Seq(Transactions)
         /\ Head(s) = s[1]
         /\ Len(Tail(s)) = Len(s) - 1
         /\ \A i \in 2..Len(s) : Tail(s)[i - 1] = s[i] /\ i - 1 \in 1..Len(Tail(s))
OBVIOUS

-----------------------------------------------------------------------------
(* Types *)

(* The initial state is typed. *)
LEMMA TypeInit == Init => TypeOK
BY FileKinds, StorageAssumption DEF Init, TypeOK, Documents

(* Only a writer that has something to release is released. *)
LEMMA ReleaseType ==
  ASSUME TypeOK, OneReplaces, NEW w \in Writers,
         Replaces(w) \/ (pc[w] = "queued" /\ w = Head(queue)),
         Release(w)
  PROVE  /\ queue' \in Seq(Transactions)
         /\ phase' \in {"down", "opening", "open"}
<1>1. w # Opener => queue # <<>>
  <2>1. CASE Replaces(w)
    BY <2>1 DEF OneReplaces
  <2>2. CASE ~Replaces(w)
    <3>1. ASSUME w # Opener PROVE \E i \in 1..Len(queue) : queue[i] = w
      BY <2>2, <3>1 DEF OneReplaces
    <3> QED
      BY <3>1 DEF TypeOK
  <2> QED
    BY <2>1, <2>2
<1> QED
  BY <1>1, TailType DEF TypeOK, Release

(* Every step keeps the types. *)
LEMMA TypeStep == TypeOK /\ OneReplaces /\ [Next]_vars => TypeOK'
<1> SUFFICES ASSUME TypeOK, OneReplaces, [Next]_vars
             PROVE  TypeOK'
  OBVIOUS
<1> USE FileKinds
<1>1. CASE Open
  BY <1>1 DEF Open, TypeOK, files, readerVars, Documents
<1>2. ASSUME NEW t \in Transactions, Enqueue(t)
      PROVE  TypeOK'
  BY <1>2 DEF Enqueue, TypeOK, files, readerVars
<1>3. ASSUME NEW t \in Transactions, Begin(t)
      PROVE  TypeOK'
  <2>1. Stored \cup {t} \in Documents
    BY StoredType DEF Documents
  <2> QED
    BY <1>3, <2>1 DEF Begin, TypeOK, files, readerVars
<1>4. ASSUME NEW t \in Transactions, Reject(t)
      PROVE  TypeOK'
  BY <1>4, ReleaseType DEF Reject, TypeOK, files, readerVars
<1>5. ASSUME NEW w \in Writers, Replace(w)
      PROVE  TypeOK'
  <2>1. CASE CreateNext(w)
    BY <2>1 DEF CreateNext, Step, TypeOK, readerVars
  <2>2. CASE WriteNext(w)
    BY <2>2 DEF WriteNext, Step, TypeOK, readerVars
  <2>3. CASE Verify(w)
    BY <2>3 DEF Verify, Step, TypeOK, files, readerVars
  <2>4. CASE VerifyFails(w)
    BY <2>4, ReleaseType DEF VerifyFails, Replaces, TypeOK, files, readerVars
  <2>5. CASE StartSavingOld(w)
    BY <2>5 DEF StartSavingOld, Step, TypeOK, files, readerVars
  <2>6. CASE SaveOld(w)
    BY <2>6 DEF SaveOld, Step, TypeOK, readerVars
  <2>7. CASE StartMove(w)
    BY <2>7 DEF StartMove, Step, TypeOK, readerVars
  <2>8. CASE Rename(w)
    BY <2>8 DEF Rename, Step, TypeOK, readerVars
  <2>9. CASE Clean(w)
    BY <2>9, ReleaseType DEF Clean, Replaces, TypeOK, readerVars
  <2> QED
    BY <1>5, <2>1, <2>2, <2>3, <2>4, <2>5, <2>6, <2>7, <2>8, <2>9 DEF Replace
<1>6. ASSUME NEW w \in Writers, OperationFails(w)
      PROVE  TypeOK'
  BY <1>6, ReleaseType, StorageAssumption
     DEF OperationFails, Replaces, TypeOK, files, readerVars
<1>7. ASSUME NEW r \in Readers, BeginRead(r) \/ Read(r)
      PROVE  TypeOK'
  BY <1>7 DEF BeginRead, Read, ReadCurrent, ReadBackup, TypeOK, files, Documents
<1>8. CASE Kill
  BY <1>8, StorageAssumption DEF Kill, TypeOK, files
<1>9. CASE UNCHANGED vars
  BY <1>9 DEF vars, TypeOK, files, readerVars
<1> QED
  BY <1>1, <1>2, <1>3, <1>4, <1>5, <1>6, <1>7, <1>8, <1>9 DEF Next

-----------------------------------------------------------------------------
(* The queue *)

(* Two writers never replace at once. *)
LEMMA OneWriter ==
  ASSUME OneReplaces, NEW v \in Writers, NEW w \in Writers, Replaces(v), Replaces(w)
  PROVE  v = w
BY DEF OneReplaces

(* When the replacing writer, or the head of the queue, settles, whoever waits
   still has a place in the queue. *)
LEMMA ReleaseOne ==
  ASSUME TypeOK, OneReplaces, NEW w \in Writers,
         Replaces(w) \/ (pc[w] = "queued" /\ w = Head(queue)),
         NEW step \in {"returned", "failed"},
         pc' = [pc EXCEPT ![w] = step],
         Release(w)
  PROVE  OneReplaces'
<1>1. \A v \in Writers \ {w} : pc'[v] = pc[v]
  BY DEF TypeOK
<1>2. pc'[w] \in {"returned", "failed"}
  BY DEF TypeOK
<1>3. CASE w = Opener
  <2>1. phase = "opening"
    BY <1>3 DEF OneReplaces
  <2>2. \A v \in Writers : pc'[v] # "queued" /\ ~Replaces(v)'
    BY <1>1, <1>2, <1>3, <2>1, OneWriter DEF OneReplaces, Replaces
  <2> QED
    BY <2>2 DEF OneReplaces
<1>4. CASE w # Opener
  <2>1. phase = "open" /\ queue # <<>> /\ w = Head(queue)
    BY <1>4, TailType DEF OneReplaces, TypeOK
  <2>2. queue \in Seq(Transactions) /\ queue' = Tail(queue) /\ phase' = "open"
    BY <1>4, <2>1 DEF Release, TypeOK
  <2>3. \A v \in Writers : ~Replaces(v)'
    <3>1. \A v \in Writers \ {w} : ~Replaces(v)
      BY <2>1 DEF OneReplaces
    <3> QED
      BY <3>1, <1>1, <1>2 DEF Replaces
  <2>4. ASSUME NEW t \in Transactions, pc'[t] = "queued"
        PROVE  \E i \in 1..Len(queue') : queue'[i] = t
    <3>1. t # w /\ pc[t] = "queued"
      BY <2>4, <1>1, <1>2
    <3>2. PICK i \in 1..Len(queue) : queue[i] = t
      BY <3>1 DEF OneReplaces
    <3>3. i \in 2..Len(queue)
      BY <3>1, <3>2, <2>1, <2>2, TailType
    <3> QED
      BY <3>2, <3>3, <2>1, <2>2, TailType
  <2> QED
    BY <2>2, <2>3, <2>4, <1>1, <1>2 DEF OneReplaces
<1> QED
  BY <1>3, <1>4

(* Every step keeps the queue's discipline. *)
LEMMA QueueStep == TypeOK /\ OneReplaces /\ [Next]_vars => OneReplaces'
<1> SUFFICES ASSUME TypeOK, OneReplaces, [Next]_vars
             PROVE  OneReplaces'
  OBVIOUS
<1>1. CASE Open
  <2>1. \A w \in Writers : ~Replaces(w) /\ pc[w] # "queued"
    BY <1>1 DEF Open, OneReplaces
  <2> QED
    BY <1>1, <2>1 DEF Open, OneReplaces, Replaces, TypeOK
<1>2. ASSUME NEW t \in Transactions, Enqueue(t)
      PROVE  OneReplaces'
  <2>1. /\ Len(queue') = Len(queue) + 1
        /\ queue'[Len(queue) + 1] = t
        /\ \A i \in 1..Len(queue) : queue'[i] = queue[i]
        /\ queue # <<>> => Head(queue') = Head(queue)
        /\ queue' # <<>>
        /\ Len(queue) \in Nat
    BY <1>2 DEF Enqueue, TypeOK
  <2>2. phase = "open" /\ phase' = "open"
    BY <1>2 DEF Enqueue
  <2>3. \A v \in Writers \ {t} : pc'[v] = pc[v]
    BY <1>2 DEF Enqueue, TypeOK
  <2>4. pc'[t] = "queued" /\ t # Opener
    BY <1>2, StorageAssumption DEF Enqueue, TypeOK
  <2>5. ASSUME NEW w \in Writers, Replaces(w)'
        PROVE  w # Opener /\ w = Head(queue')
    BY <2>5, <2>1, <2>2, <2>3, <2>4 DEF OneReplaces, Replaces
  <2>6. ASSUME NEW u \in Transactions, pc'[u] = "queued"
        PROVE  \E i \in 1..Len(queue') : queue'[i] = u
    BY <2>6, <2>1, <2>3 DEF OneReplaces
  <2> QED
    BY <2>1, <2>2, <2>3, <2>4, <2>5, <2>6 DEF OneReplaces
<1>3. ASSUME NEW t \in Transactions, Begin(t)
      PROVE  OneReplaces'
  <2>1. t # Opener /\ phase = "open" /\ queue # <<>>
    BY <1>3, StorageAssumption DEF Begin, OneReplaces, TypeOK
  <2> QED
    BY <1>3, <2>1 DEF Begin, OneReplaces, Replaces, TypeOK
<1>4. ASSUME NEW t \in Transactions, Reject(t)
      PROVE  OneReplaces'
  BY <1>4, ReleaseOne DEF Reject
<1>5. ASSUME NEW w \in Writers, Replace(w)
      PROVE  OneReplaces'
  <2>1. ASSUME NEW from \in Replacing, NEW to \in Replacing, Step(w, from, to)
        PROVE  OneReplaces'
    BY <2>1 DEF Step, OneReplaces, Replaces, TypeOK
  <2>2. CASE VerifyFails(w) \/ Clean(w)
    BY <2>2, ReleaseOne DEF VerifyFails, Clean, Replaces
  <2> QED
    BY <1>5, <2>1, <2>2
       DEF Replace, CreateNext, WriteNext, Verify, StartSavingOld, SaveOld, StartMove, Rename
<1>6. ASSUME NEW w \in Writers, OperationFails(w)
      PROVE  OneReplaces'
  BY <1>6, ReleaseOne DEF OperationFails, Replaces
<1>7. ASSUME NEW r \in Readers, BeginRead(r) \/ Read(r)
      PROVE  OneReplaces'
  BY <1>7 DEF BeginRead, Read, ReadCurrent, ReadBackup, OneReplaces, Replaces
<1>8. CASE Kill
  BY <1>8 DEF Kill, OneReplaces, Replaces, TypeOK
<1>9. CASE UNCHANGED vars
  BY <1>9 DEF vars, OneReplaces, Replaces
<1> QED
  BY <1>1, <1>2, <1>3, <1>4, <1>5, <1>6, <1>7, <1>8, <1>9 DEF Next

-----------------------------------------------------------------------------
(* The files *)

(* Reading the files finds no less than before. *)
Grows == Readable => Readable' /\ Stored \subseteq Stored'

(* A step that moves no file and starts no replacement keeps the protocol. *)
LEMMA FilesUnmoved ==
  ASSUME FilesFollow, DraftExtends,
         UNCHANGED <<files, draft, saved>>,
         phase' = "open" => Readable,
         \A v \in Writers : pc'[v] = pc[v] \/ ~Replaces(v)'
  PROVE  FilesFollow' /\ DraftExtends' /\ Grows
<1>1. UNCHANGED <<next, current, backup, draft, saved, Readable, Stored>>
  BY DEF files, Readable, Stored
<1>2. \A v \in Writers : Replaces(v)' => pc'[v] = pc[v] /\ Replaces(v)
  BY DEF Replaces
<1>3. FilesFollow'
  BY <1>1, <1>2 DEF FilesFollow, Replaces, Decrypts
<1>4. DraftExtends'
  BY <1>1, <1>2 DEF DraftExtends, Replaces
<1> QED
  BY <1>1, <1>3, <1>4 DEF Grows

(* Giving up a replacement, or refusing one, moves no file. *)
LEMMA GiveUp ==
  ASSUME TypeOK, ReplacementProtocol, NEW w \in Writers,
         pc' = [pc EXCEPT ![w] = "failed"], Release(w),
         UNCHANGED <<files, draft, saved>>
  PROVE  FilesFollow' /\ DraftExtends' /\ Grows
<1>1. pc'[w] = "failed" /\ \A v \in Writers \ {w} : pc'[v] = pc[v]
  BY DEF TypeOK
<1>2. phase' = "open" => Readable
  BY <1>1 DEF Release, ReplacementProtocol, FilesFollow
<1>3. \A v \in Writers : pc'[v] = pc[v] \/ ~Replaces(v)'
  BY <1>1 DEF Replaces
<1> QED
  BY <1>2, <1>3, FilesUnmoved DEF ReplacementProtocol

(* What a step of one writer's replacement leaves of the protocol: nobody else
   is replacing, so only its own obligations count. *)
LEMMA OwnStep ==
  ASSUME TypeOK, ReplacementProtocol, NEW w \in Writers, Replaces(w),
         NEW to \in Replacing, pc' = [pc EXCEPT ![w] = to],
         UNCHANGED <<phase, draft, saved>>,
         Readable => Readable' /\ Stored \subseteq Stored',
         current'.kind # "torn",
         w = Opener /\ to # "cleaning" => current' = Absent /\ backup' = Absent,
         w # Opener => draft[w] = Stored' \cup {w},
         to = "verifying" => next' \in {Sealed(draft[w]), Torn},
         to \in {"saving_old", "copying_old", "moving", "renaming"} => next' = Sealed(draft[w]),
         to = "copying_old" => Decrypts(current'),
         to = "moving" => current' \in {Absent, backup'},
         to = "renaming" => current' = Absent,
         to = "cleaning" => current' = Sealed(draft[w])
  PROVE  FilesFollow' /\ DraftExtends' /\ Grows
<1>1. \A v \in Writers \ {w} : ~Replaces(v) /\ pc'[v] = pc[v]
  BY OneWriter DEF ReplacementProtocol, TypeOK
<1>2. pc'[w] = to
  BY DEF TypeOK
<1>3. \A v \in Writers \ {w} : ~Replaces(v)' /\ pc'[v] \notin Replacing
  BY <1>1 DEF Replaces
<1>4. FilesFollow'
  <2>1. /\ current'.kind # "torn"
        /\ phase' = "open" => Readable'
        /\ saved' # {} => Readable' /\ saved' \subseteq Stored'
    BY DEF ReplacementProtocol, FilesFollow
  <2> QED
    BY <2>1, <1>2, <1>3 DEF FilesFollow, Decrypts
<1>5. DraftExtends'
  <2>1. ASSUME NEW t \in Transactions, Replaces(t)'
        PROVE  Readable' /\ draft'[t] = Stored' \cup {t}
    <3>1. t = w /\ t # Opener
      BY <2>1, <1>3, StorageAssumption
    <3> QED
      BY <3>1 DEF ReplacementProtocol, DraftExtends
  <2>2. ASSUME Replaces(Opener)'
        PROVE  /\ draft'[Opener] = {}
               /\ pc'[Opener] # "cleaning" => current' = Absent /\ backup' = Absent
    <3>1. Opener = w
      BY <2>2, <1>3
    <3> QED
      BY <3>1, <1>2 DEF ReplacementProtocol, DraftExtends
  <2> QED
    BY <2>1, <2>2 DEF DraftExtends
<1> QED
  BY <1>4, <1>5 DEF Grows

(* What the writer that replaces knows. *)
LEMMA OwnFacts ==
  ASSUME TypeOK, ReplacementProtocol, NEW w \in Writers, Replaces(w)
  PROVE  /\ w # Opener => w \in Transactions /\ Readable /\ draft[w] = Stored \cup {w}
         /\ w = Opener => draft[w] = {}
         /\ w = Opener /\ pc[w] # "cleaning" => current = Absent /\ backup = Absent
         /\ draft[w] \in Documents
         /\ current \in Contents /\ current.kind # "torn"
         /\ current # Absent => Decrypts(current)
<1>1. current \in Contents /\ current.kind # "torn"
  BY DEF TypeOK, ReplacementProtocol, FilesFollow
<1>2. current # Absent => Decrypts(current)
  BY <1>1, FileKinds DEF Torn
<1> QED
  BY <1>1, <1>2 DEF TypeOK, ReplacementProtocol, DraftExtends

(* Every step of a replacement keeps the protocol and what the files hold. *)
LEMMA ReplaceStep ==
  ASSUME TypeOK, ReplacementProtocol, NEW w \in Writers, Replace(w)
  PROVE  FilesFollow' /\ DraftExtends' /\ Grows
<1>0. Replaces(w)
  BY DEF Replace, Replaces, CreateNext, WriteNext, Verify, VerifyFails, StartSavingOld,
         SaveOld, StartMove, Rename, Clean, Step
<1> USE <1>0, FileKinds, OwnFacts
<1>1. CASE CreateNext(w)
  <2>1. UNCHANGED <<Readable, Stored>>
    BY <1>1 DEF CreateNext, Readable, Stored
  <2> QED
    BY <1>1, <2>1, OwnStep DEF CreateNext, Step
<1>2. CASE WriteNext(w)
  <2>1. UNCHANGED <<Readable, Stored>>
    BY <1>2 DEF WriteNext, Readable, Stored
  <2> QED
    BY <1>2, <2>1, OwnStep DEF WriteNext, Step
<1>3. CASE Verify(w)
  <2>1. UNCHANGED <<Readable, Stored>>
    BY <1>3 DEF Verify, files, Readable, Stored
  <2>2. next = Sealed(draft[w])
    BY <1>3 DEF Verify, Step, ReplacementProtocol, FilesFollow
  <2> QED
    BY <1>3, <2>1, <2>2, OwnStep DEF Verify, Step, files
<1>4. CASE VerifyFails(w)
  BY <1>4, GiveUp DEF VerifyFails
<1>5. CASE StartSavingOld(w)
  <2>1. next = Sealed(draft[w]) /\ pc[w] = "saving_old"
    BY <1>5 DEF StartSavingOld, Step, ReplacementProtocol, FilesFollow
  <2>2. CASE current # Absent
    <3>1. UNCHANGED <<Readable, Stored>>
      BY <1>5, <2>2 DEF StartSavingOld, Readable, Stored
    <3>2. w # Opener
      BY <2>1, <2>2
    <3> QED
      BY <1>5, <2>1, <2>2, <3>1, <3>2, OwnStep DEF StartSavingOld, Step
  <2>3. CASE current = Absent
    <3>1. UNCHANGED <<Readable, Stored>>
      BY <1>5, <2>3 DEF StartSavingOld, files, Readable, Stored
    <3> QED
      BY <1>5, <2>1, <2>3, <3>1, OwnStep DEF StartSavingOld, Step, files
  <2> QED
    BY <2>2, <2>3
<1>6. CASE SaveOld(w)
  <2>1. next = Sealed(draft[w]) /\ Decrypts(current) /\ pc[w] = "copying_old"
    BY <1>6 DEF SaveOld, Step, ReplacementProtocol, FilesFollow
  <2>2. UNCHANGED <<Readable, Stored>>
    BY <1>6, <2>1 DEF SaveOld, Readable, Stored
  <2>3. w # Opener
    BY <2>1
  <2> QED
    BY <1>6, <2>1, <2>2, <2>3, OwnStep DEF SaveOld, Step
<1>7. CASE StartMove(w)
  <2>1. next = Sealed(draft[w]) /\ current \in {Absent, backup} /\ pc[w] = "moving"
    BY <1>7 DEF StartMove, Step, ReplacementProtocol, FilesFollow
  <2>2. UNCHANGED <<Readable, Stored>>
    BY <1>7, <2>1 DEF StartMove, Readable, Stored
  <2>3. current'.kind # "torn"
    BY <1>7 DEF StartMove, Absent
  <2> QED
    BY <1>7, <2>1, <2>2, <2>3, OwnStep DEF StartMove, Step
<1>8. CASE Rename(w)
  <2>1. next = Sealed(draft[w]) /\ pc[w] = "renaming" /\ current' = Sealed(draft[w])
    BY <1>8 DEF Rename, Step, ReplacementProtocol, FilesFollow
  <2>2. Readable' /\ Stored' = draft[w]
    BY <2>1 DEF Readable, Stored
  <2>3. Readable => Stored \subseteq Stored'
    <3>1. CASE w = Opener
      BY <3>1, <2>1 DEF Readable
    <3>2. CASE w # Opener
      BY <3>2, <2>2
    <3> QED
      BY <3>1, <3>2
  <2>4. current'.kind # "torn"
    BY <2>1 DEF Sealed
  <2> QED
    BY <1>8, <2>1, <2>2, <2>3, <2>4, OwnStep DEF Rename, Step
<1>9. CASE Clean(w)
  <2>1. current = Sealed(draft[w]) /\ UNCHANGED <<next, current, draft>>
    BY <1>9 DEF Clean, ReplacementProtocol, FilesFollow
  <2>2. /\ pc'[w] = "returned"
        /\ \A v \in Writers \ {w} : pc'[v] = pc[v] /\ ~Replaces(v)
    BY <1>9, OneWriter DEF Clean, TypeOK, ReplacementProtocol
  <2>3. \A v \in Writers : ~Replaces(v)' /\ pc'[v] \notin Replacing
    BY <2>2 DEF Replaces
  <2>4. Readable /\ Readable' /\ Stored' = Stored /\ Stored = draft[w]
    BY <2>1 DEF Readable, Stored
  <2>5. saved' \subseteq Stored'
    <3>1. saved \subseteq Stored
      BY DEF ReplacementProtocol, FilesFollow
    <3>2. {w} \cap Transactions \subseteq Stored
      BY <2>4, StorageAssumption
    <3> QED
      BY <1>9, <2>4, <3>1, <3>2 DEF Clean
  <2>6. FilesFollow'
    BY <2>1, <2>3, <2>4, <2>5 DEF FilesFollow
  <2>7. DraftExtends'
    BY <2>3 DEF DraftExtends
  <2> QED
    BY <2>4, <2>6, <2>7 DEF Grows
<1> QED
  BY <1>1, <1>2, <1>3, <1>4, <1>5, <1>6, <1>7, <1>8, <1>9 DEF Replace

(* Every step keeps the protocol and what the files hold. *)
LEMMA FilesStep ==
  TypeOK /\ ReplacementProtocol /\ [Next]_vars => FilesFollow' /\ DraftExtends' /\ Grows
<1> SUFFICES ASSUME TypeOK, ReplacementProtocol, [Next]_vars
             PROVE  FilesFollow' /\ DraftExtends' /\ Grows
  OBVIOUS
<1> USE DEF ReplacementProtocol
<1>1. CASE Open
  <2>1. CASE Readable /\ phase' = "open" /\ UNCHANGED <<pc, draft>>
    BY <1>1, <2>1, FilesUnmoved DEF Open
  <2>2. CASE /\ current = Absent /\ backup = Absent
             /\ phase' = "opening"
             /\ pc' = [pc EXCEPT ![Opener] = "creating"]
             /\ draft' = [draft EXCEPT ![Opener] = {}]
    <3>1. UNCHANGED <<files, saved>> /\ phase = "down"
      BY <1>1 DEF Open
    <3>2. UNCHANGED <<next, current, backup, Readable, Stored>>
      BY <3>1 DEF files, Readable, Stored
    <3>3. /\ pc'[Opener] = "creating" /\ draft'[Opener] = {}
          /\ \A t \in Transactions : pc'[t] = pc[t] /\ ~Replaces(t)
      BY <2>2, <3>1, StorageAssumption DEF TypeOK, OneReplaces
    <3>4. FilesFollow'
      BY <2>2, <3>1, <3>2, <3>3 DEF FilesFollow, Replaces
    <3>5. DraftExtends'
      BY <2>2, <3>1, <3>2, <3>3 DEF DraftExtends, Replaces
    <3> QED
      BY <3>2, <3>4, <3>5 DEF Grows
  <2> QED
    BY <1>1, <2>1, <2>2 DEF Open
<1>2. ASSUME NEW t \in Transactions, Enqueue(t)
      PROVE  FilesFollow' /\ DraftExtends' /\ Grows
  <2>1. \A v \in Writers : pc'[v] = pc[v] \/ ~Replaces(v)'
    BY <1>2 DEF Enqueue, TypeOK, Replaces
  <2> QED
    BY <1>2, <2>1, FilesUnmoved DEF Enqueue, FilesFollow
<1>3. ASSUME NEW t \in Transactions, Begin(t)
      PROVE  FilesFollow' /\ DraftExtends' /\ Grows
  <2>1. UNCHANGED <<next, current, backup, phase, saved, Readable, Stored>>
    BY <1>3 DEF Begin, files, Readable, Stored
  <2>2. /\ pc'[t] = "creating" /\ draft'[t] = Stored \cup {t} /\ Readable
        /\ t # Opener
        /\ \A v \in Writers \ {t} : pc'[v] = pc[v] /\ draft'[v] = draft[v]
    BY <1>3, StorageAssumption DEF Begin, TypeOK
  <2>3. FilesFollow'
    BY <2>1, <2>2 DEF FilesFollow, Decrypts
  <2>4. DraftExtends'
    BY <2>1, <2>2 DEF DraftExtends, Replaces
  <2> QED
    BY <2>1, <2>3, <2>4 DEF Grows
<1>4. ASSUME NEW t \in Transactions, Reject(t)
      PROVE  FilesFollow' /\ DraftExtends' /\ Grows
  BY <1>4, GiveUp DEF Reject
<1>5. ASSUME NEW w \in Writers, Replace(w)
      PROVE  FilesFollow' /\ DraftExtends' /\ Grows
  BY <1>5, ReplaceStep
<1>6. ASSUME NEW w \in Writers, OperationFails(w)
      PROVE  FilesFollow' /\ DraftExtends' /\ Grows
  BY <1>6, GiveUp DEF OperationFails
<1>7. ASSUME NEW r \in Readers, BeginRead(r) \/ Read(r)
      PROVE  FilesFollow' /\ DraftExtends' /\ Grows
  <2>1. UNCHANGED <<files, draft, saved, phase, pc>>
    BY <1>7 DEF BeginRead, Read, ReadCurrent, ReadBackup
  <2> QED
    BY <2>1, FilesUnmoved DEF FilesFollow
<1>8. CASE Kill
  <2>1. \A v \in Writers : pc'[v] = pc[v] \/ ~Replaces(v)'
    BY <1>8 DEF Kill, Replaces
  <2> QED
    BY <1>8, <2>1, FilesUnmoved DEF Kill
<1>9. CASE UNCHANGED vars
  BY <1>9, FilesUnmoved DEF vars, FilesFollow
<1> QED
  BY <1>1, <1>2, <1>3, <1>4, <1>5, <1>6, <1>7, <1>8, <1>9 DEF Next

-----------------------------------------------------------------------------
(* Theorems *)

(* The initial state follows the protocol: nothing is stored or replaced. *)
LEMMA ProtocolInit == Init => ReplacementProtocol
BY DEF Init, ReplacementProtocol, OneReplaces, FilesFollow, DraftExtends, Replaces, Absent

(* storage.ts:63-78 and production-storage.ts:130-145, together with the types:
   one writer replaces at a time, and some file always holds what is stored. *)
THEOREM Protocol == Spec => [](TypeOK /\ ReplacementProtocol)
<1>1. Init => TypeOK /\ ReplacementProtocol
  BY TypeInit, ProtocolInit
<1>2. TypeOK /\ ReplacementProtocol /\ [Next]_vars => (TypeOK /\ ReplacementProtocol)'
  BY TypeStep, QueueStep, FilesStep DEF ReplacementProtocol
<1> QED
  BY <1>1, <1>2, PTL DEF Spec

(* The variables keep their types. *)
THEOREM TypeCorrect == Spec => []TypeOK
BY Protocol, PTL

(* What a caller of transaction was told is saved can be read from the files,
   at whatever step the app is killed or a file operation fails. *)
THEOREM SavedStaysReadable == Spec => []SavedIsReadable
<1>1. TypeOK /\ ReplacementProtocol => SavedIsReadable
  BY DEF ReplacementProtocol, FilesFollow, SavedIsReadable
<1> QED
  BY <1>1, Protocol, PTL

(* No step of a replacement, no failure and no restart loses anything the files
   held. *)
THEOREM NothingIsLost == Spec => EvidenceOnlyGrows
<1>1. TypeOK /\ ReplacementProtocol /\ [Next]_vars
        => [Readable => Readable' /\ Stored \subseteq Stored']_files
  BY FilesStep DEF Grows
<1> QED
  BY <1>1, Protocol, PTL DEF Spec, EvidenceOnlyGrows

-----------------------------------------------------------------------------
(* Plain reads *)

(* What a read can still rely on: what was saved when it began is saved now, and
   is in the backup once the read went on to that. *)
ReadsAreSound ==
  \A r \in Readers :
    /\ since[r] \subseteq saved
    /\ reading[r] = "backup" /\ Decrypts(backup) => since[r] \subseteq backup.holds
    /\ reading[r] = "returned" => since[r] \subseteq seen[r]

(* A backup that decrypts after a step was there before, or is a copy of the
   current document. *)
LEMMA BackupIsKept ==
  ASSUME TypeOK, ReplacementProtocol, [Next]_vars
  PROVE  \/ backup' = backup
         \/ ~Decrypts(backup')
         \/ Decrypts(current) /\ backup' = current
<1>1. ASSUME NEW w \in Writers, SaveOld(w)
      PROVE  Decrypts(current) /\ backup' = current
  BY <1>1 DEF SaveOld, Step, ReplacementProtocol, FilesFollow
<1>2. ASSUME NEW w \in Writers, Replace(w)
      PROVE  \/ backup' = backup
             \/ ~Decrypts(backup')
             \/ Decrypts(current) /\ backup' = current
  BY <1>1, <1>2, FileKinds
     DEF Replace, CreateNext, WriteNext, Verify, VerifyFails, StartSavingOld, StartMove,
         Rename, Clean, files
<1>3. CASE ~ \E w \in Writers : Replace(w)
  BY <1>3 DEF Next, Open, Enqueue, Begin, Reject, OperationFails, BeginRead, Read,
              ReadCurrent, ReadBackup, Kill, files, vars
<1> QED
  BY <1>2, <1>3

(* Only reads change what a read knows, and saved only grows. *)
LEMMA ReaderStep ==
  ASSUME TypeOK, ReplacementProtocol, [Next]_vars, NEW r \in Readers
  PROVE  /\ saved \subseteq saved'
         /\ \/ UNCHANGED <<since[r], seen[r]>> /\ reading'[r] \in {reading[r], "failed"}
            \/ BeginRead(r)
            \/ Read(r)
<1>1. ASSUME NEW u \in Readers, u # r, BeginRead(u) \/ Read(u)
      PROVE  UNCHANGED <<since[r], seen[r], reading[r]>>
  BY <1>1 DEF BeginRead, Read, ReadCurrent, ReadBackup, TypeOK
<1>2. CASE \E u \in Readers : BeginRead(u) \/ Read(u)
  BY <1>1, <1>2 DEF BeginRead, Read, ReadCurrent, ReadBackup
<1>3. CASE Kill
  BY <1>3 DEF Kill, TypeOK
<1>4. CASE Open \/ \E t \in Transactions : Enqueue(t) \/ Begin(t) \/ Reject(t)
  BY <1>4 DEF Open, Enqueue, Begin, Reject, readerVars
<1>5. ASSUME NEW w \in Writers, Replace(w) \/ OperationFails(w)
      PROVE  UNCHANGED readerVars /\ saved \subseteq saved'
  BY <1>5 DEF Replace, CreateNext, WriteNext, Verify, VerifyFails, StartSavingOld, SaveOld,
              StartMove, Rename, Clean, OperationFails, Step
<1> QED
  BY <1>2, <1>3, <1>4, <1>5 DEF Next, readerVars, vars

(* What a plain read returns holds everything that was saved when it began. *)
THEOREM ReadsNeverStale == Spec => []ReadsAreFresh
<1>1. Init => ReadsAreSound
  BY DEF Init, ReadsAreSound
<1>2. ASSUME TypeOK, ReplacementProtocol, ReadsAreSound, [Next]_vars
      PROVE  ReadsAreSound'
  <2> USE <1>2
  <2>0. Decrypts(current) => saved \subseteq current.holds
    BY FileKinds DEF ReplacementProtocol, FilesFollow, Stored
  <2>1. ASSUME NEW r \in Readers
        PROVE  /\ since'[r] \subseteq saved'
               /\ reading'[r] = "backup" /\ Decrypts(backup') => since'[r] \subseteq backup'.holds
               /\ reading'[r] = "returned" => since'[r] \subseteq seen'[r]
    <3>1. CASE BeginRead(r)
      BY <3>1 DEF BeginRead, TypeOK
    <3>2. CASE ReadCurrent(r)
      <4>1. since[r] \subseteq saved /\ UNCHANGED <<since, saved, backup>>
        BY <3>2 DEF ReadCurrent, ReadsAreSound, files
      <4>2. CASE Decrypts(current)
        BY <3>2, <4>1, <4>2, <2>0 DEF ReadCurrent, TypeOK
      <4>3. CASE ~Decrypts(current)
        <5>1. saved \subseteq backup.holds
          BY <4>3 DEF ReplacementProtocol, FilesFollow, Stored
        <5> QED
          BY <3>2, <4>1, <4>3, <5>1 DEF ReadCurrent, TypeOK
      <4> QED
        BY <4>2, <4>3
    <3>3. CASE ReadBackup(r)
      BY <3>3 DEF ReadBackup, ReadsAreSound, TypeOK
    <3>4. CASE UNCHANGED <<since[r], seen[r]>> /\ reading'[r] \in {reading[r], "failed"}
      <4>1. saved \subseteq saved'
        BY ReaderStep
      <4>2. Decrypts(backup') => backup' = backup \/ saved \subseteq backup'.holds
        BY <2>0, BackupIsKept
      <4> QED
        BY <3>4, <4>1, <4>2 DEF ReadsAreSound
    <3> QED
      BY <3>1, <3>2, <3>3, <3>4, ReaderStep DEF Read
  <2> QED
    BY <2>1 DEF ReadsAreSound
<1>3. ReadsAreSound => ReadsAreFresh
  BY DEF ReadsAreSound, ReadsAreFresh
<1> QED
  BY <1>1, <1>2, <1>3, Protocol, PTL DEF Spec

-----------------------------------------------------------------------------
(* Refinement *)

(* Three files and a queue of transactions implement one document that changes
   atomically: the rename commits, the return reports. *)
THEOREM FilesImplementDocument == Spec => StoresAtomically
<1>1. Init => Document!Init
  BY DEF Init, Document!Init, Stored, Decrypts, Absent
<1>2. ASSUME TypeOK, ReplacementProtocol, [Next]_vars
      PROVE  [Document!Next]_(Document!vars)
  <2> USE <1>2 DEF Document!vars
  <2>1. ASSUME NEW w \in Writers, Rename(w)
        PROVE  [Document!Next]_(Document!vars)
    <3>1. /\ next = Sealed(draft[w]) /\ Stored' = draft[w] /\ saved' = saved
          /\ Replaces(w) /\ pc[w] # "cleaning"
      <4>1. next = Sealed(draft[w]) /\ current' = next /\ saved' = saved
        BY <2>1 DEF Rename, Step, ReplacementProtocol, FilesFollow
      <4> QED
        BY <4>1, <2>1, FileKinds DEF Rename, Step, Stored, Replaces, TypeOK
    <3>2. CASE w = Opener
      <4>1. Stored = {} /\ Stored' = {}
        BY <3>1, <3>2, OwnFacts, FileKinds DEF Stored
      <4> QED
        BY <3>1, <4>1
    <3>3. CASE w # Opener
      <4>1. w \in Transactions /\ Stored' = Stored \cup {w}
        BY <3>1, <3>3, OwnFacts
      <4> QED
        BY <3>1, <4>1 DEF Document!Next, Document!Commit
    <3> QED
      BY <3>2, <3>3
  <2>2. ASSUME NEW w \in Writers, Clean(w)
        PROVE  [Document!Next]_(Document!vars)
    <3>1. /\ current = Sealed(draft[w]) /\ Replaces(w)
          /\ UNCHANGED current /\ saved' = saved \cup ({w} \cap Transactions)
      BY <2>2 DEF Clean, ReplacementProtocol, FilesFollow, Replaces
    <3>2. UNCHANGED Stored /\ Stored = draft[w]
      BY <3>1, FileKinds, OwnFacts DEF Stored
    <3>3. CASE w = Opener
      BY <3>1, <3>2, <3>3, StorageAssumption
    <3>4. CASE w # Opener
      <4>1. w \in Transactions /\ w \in Stored /\ saved' = saved \cup {w}
        BY <3>1, <3>2, <3>4, OwnFacts
      <4> QED
        BY <3>2, <4>1 DEF Document!Next, Document!Report
    <3> QED
      BY <3>3, <3>4
  <2>3. ASSUME NEW w \in Writers, Replace(w), ~Rename(w), ~Clean(w)
        PROVE  UNCHANGED <<Stored, saved>>
    <3>1. CASE StartSavingOld(w)
      <4>1. current # Absent => Decrypts(current)
        BY <3>1, OwnFacts DEF StartSavingOld, Step, Replaces
      <4> QED
        BY <3>1, <4>1 DEF StartSavingOld, Step, Stored, files
    <3>2. CASE SaveOld(w)
      BY <3>2 DEF SaveOld, Step, Stored, ReplacementProtocol, FilesFollow
    <3>3. CASE StartMove(w)
      <4>1. current \in {Absent, backup}
        BY <3>3 DEF StartMove, Step, ReplacementProtocol, FilesFollow
      <4> QED
        BY <3>3, <4>1, FileKinds DEF StartMove, Step, Stored
    <3> QED
      BY <2>3, <3>1, <3>2, <3>3
         DEF Replace, CreateNext, WriteNext, Verify, VerifyFails, Step, Stored, files
  <2>4. CASE ~ \E w \in Writers : Replace(w)
    BY <2>4 DEF Next, Open, Enqueue, Begin, Reject, OperationFails, BeginRead, Read,
                ReadCurrent, ReadBackup, Kill, files, vars, Stored
  <2> QED
    BY <2>1, <2>2, <2>3, <2>4
<1> QED
  BY <1>1, <1>2, Protocol, PTL DEF Spec, StoresAtomically, Document!Spec
==============================================================================
