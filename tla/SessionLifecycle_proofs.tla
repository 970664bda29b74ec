------------------------ MODULE SessionLifecycle_proofs ------------------------
(***************************************************************************)
(* TypeOK, OneWinner, PostsInOrder and DeletionHides, for any number of    *)
(* requests of any mix, of crashes and of failed invalidations.            *)
(***************************************************************************)
EXTENDS SessionLifecycle, SequenceTheorems, TLAPS

-----------------------------------------------------------------------------
(* The inductive invariant. *)

Points == {"lookup", "fetch", "store", "have", "publish", "apply", "invalidate",
           "lock", "insert", "file", "done", "idle", "commit", "mark"}

Message == [by : Requests, seq : Nat \ {0}]

Types ==
  /\ lastId \in Nat /\ mishaps \in 0 .. MaxMishaps
  /\ row \in Copies /\ cache \in Copies
  /\ copy \in [Processes -> Copies]
  /\ at \in [Processes -> Points]
  /\ op \in [Requests -> Everything \cup {"file"}]
  /\ messages \in Seq(Message)
  /\ seq \in [Requests -> Nat]
  /\ job \in [task : Requests \cup {None}, messages : Nat, items : SUBSET Requests]
  /\ lock \in Requests \cup {None}
  /\ items \subseteq Requests /\ tasks \subseteq Requests
  /\ failed \subseteq Requests /\ retried \subseteq Requests
  /\ result \in [Requests -> {"none", "ok", "missing", "conflict", "error", "collided"}]
  /\ hidden \subseteq 1 .. lastId

\* What is stored refers to what exists.
References ==
  /\ row # None => row.id = lastId
  /\ \A r \in items : row # None /\ Stored(r)
  /\ lock # None => at[lock] = "insert"
  /\ job.task = None <=> at[Worker] = "idle"
  /\ job.task # None => job.task \in tasks
  /\ tasks \cap failed = {}

\* Which operation can be at which point, and with what in its hands.
Flow ==
  /\ \A r \in tasks \cup failed : op[r] = "delete" /\ at[r] \in {"invalidate", "done"}
  /\ \A r \in Requests : at[r] \notin {"idle", "commit", "mark"}
  /\ at[Worker] \notin {"publish", "apply", "lock", "insert", "file", "done"}
  /\ \A r \in Requests : at[r] = "publish" => op[r] \in {"configure", "update", "post", "file"}
  /\ \A r \in Requests : at[r] = "apply" => op[r] = "update"
  /\ \A r \in Requests : at[r] \in {"publish", "apply", "invalidate"} => copy[r] # None

\* Only the holder of the lock is between the read of the last sequence number and
\* its insert.  A deletion in between takes messages away, and cannot raise any.
Numbering ==
  /\ \A r \in Requests : at[r] = "insert" =>
       /\ lock = r
       /\ \A i \in DOMAIN messages : messages[i].seq <= seq[r]
  /\ PostsInOrder

\* A request that has lost once and holds no copy looked when there was no row: a
\* row that exists now was created after the one it lost to.
Racing ==
  /\ retried # {} => lastId > 0
  /\ \A r \in retried : at[r] \in {"store", "have"} /\ copy[r] = None /\ row # None
       => lastId > 1
  /\ OneWinner

\* An active copy of a hidden identity is nowhere: not in the row, not in the hands
\* of anyone who may still store it, and not in the cache.
Shows(c) == c # None /\ c.active

Hiding ==
  /\ Shows(row) => row.id \notin hidden
  /\ \A p \in Processes : at[p] \in {"store", "have", "publish"} /\ Shows(copy[p])
       => copy[p].id \notin hidden
  /\ \A r \in Requests : at[r] = "invalidate" /\ op[r] = "delete" /\ Shows(row)
       => row.id # copy[r].id
  /\ DeletionHides

IInv == Types /\ References /\ Flow /\ Numbering /\ Racing /\ Hiding

USE SessionAssumption DEF SessionAssumption

-----------------------------------------------------------------------------
(* Copies and sequences. *)

LEMMA TypesSuffice == Types /\ References => TypeOK
<1> SUFFICES ASSUME Types, References PROVE TypeOK
  OBVIOUS
<1>1. \A i \in DOMAIN messages : messages[i] \in [by : Requests, seq : Nat \ {0}]
  <2>1. messages \in Seq(Message)
    BY DEF Types
  <2>2. DOMAIN messages = 1 .. Len(messages)
    BY <2>1
  <2> QED BY <2>1, <2>2, ElementOfSeq, ZenonT(60) DEF Message
<1> QED BY <1>1 DEF Types, References, TypeOK

\* What a copy is made of, and what rewriting one part of it leaves alone.
LEMMA CopyParts ==
  ASSUME NEW c \in Copies, c # None
  PROVE  c \in [id : 1 .. lastId, active : BOOLEAN, config : SUBSET Requests]
BY DEF Copies

\* A row is not None.
LEMMA NewCopy ==
  ASSUME NEW n \in Nat \ {0}, NEW m \in SUBSET Requests
  PROVE  [id |-> n, active |-> TRUE, config |-> m] # None
<1>1. [id |-> n, active |-> TRUE, config |-> m] \in [id : Nat, active : BOOLEAN, config : SUBSET Requests]
  OBVIOUS
<1> QED BY <1>1

LEMMA Configured ==
  ASSUME lastId \in Nat, NEW c \in Copies, c # None, NEW m \in SUBSET Requests
  PROVE  LET d == [c EXCEPT !.config = m] IN
           d \in Copies /\ d # None /\ d.id = c.id /\ d.active = c.active
<1> DEFINE d == [c EXCEPT !.config = m]
<1>1. c \in [id : 1 .. lastId, active : BOOLEAN, config : SUBSET Requests]
  BY CopyParts
<1>2. /\ d \in [id : 1 .. lastId, active : BOOLEAN, config : SUBSET Requests]
      /\ d.id = c.id /\ d.active = c.active
  BY <1>1
<1>3. d \in [id : Nat, active : BOOLEAN, config : SUBSET Requests]
  BY <1>2
<1> QED BY <1>2, <1>3 DEF Copies

LEMMA Deactivated ==
  ASSUME lastId \in Nat, NEW c \in Copies, c # None
  PROVE  LET d == [c EXCEPT !.active = FALSE] IN
           d \in Copies /\ d # None /\ d.id = c.id /\ ~ d.active
<1> DEFINE d == [c EXCEPT !.active = FALSE]
<1>1. c \in [id : 1 .. lastId, active : BOOLEAN, config : SUBSET Requests]
  BY CopyParts
<1>2. /\ d \in [id : 1 .. lastId, active : BOOLEAN, config : SUBSET Requests]
      /\ d.id = c.id /\ ~ d.active
  BY <1>1
<1>3. d \in [id : Nat, active : BOOLEAN, config : SUBSET Requests]
  BY <1>2
<1> QED BY <1>2, <1>3 DEF Copies

\* In a sequence that grows, the last element bounds the others.
LEMMA LastIsGreatest ==
  ASSUME messages \in Seq(Message), PostsInOrder, messages # <<>>
  PROVE  /\ messages[Len(messages)].seq \in Nat
         /\ \A i \in DOMAIN messages : messages[i].seq <= messages[Len(messages)].seq
<1>1. Len(messages) \in DOMAIN messages /\ DOMAIN messages = 1 .. Len(messages)
  OBVIOUS
<1>2. \A i \in DOMAIN messages : messages[i] \in Message
  BY <1>1
<1> QED BY <1>1, <1>2 DEF PostsInOrder, Message

-----------------------------------------------------------------------------
(* Every action keeps the invariant. *)

LEMMA LookupIsFine ==
  ASSUME NEW p \in Processes, IInv, Lookup(p) PROVE IInv'
<1> USE DEF IInv, Processes
<1>1. CASE cache = None
  <2>1. /\ at[p] = "lookup"
        /\ at' = [at EXCEPT ![p] = "fetch"]
        /\ UNCHANGED <<row, cache, lastId, messages, lock, items, tasks, failed, op,
                      copy, seq, retried, result, job, mishaps, hidden, strayed>>
    BY <1>1 DEF Lookup, Goto, queue
  <2>2. Types'
    BY <2>1, <1>1 DEF Types, Points, Message, Copies, Everything
  <2>3. References'
    BY <2>1, <1>1 DEF Types, References, Flow, Stored
  <2>4. Flow'
    BY <2>1, <1>1 DEF Types, References, Flow
  <2>5. Numbering'
    BY <2>1, <1>1 DEF Types, References, Numbering, PostsInOrder
  <2>6. Racing'
    BY <2>1, <1>1 DEF Types, Flow, Racing, OneWinner, References
  <2>7. Hiding'
    BY <2>1, <1>1 DEF Types, Flow, References, Hiding, DeletionHides, Shows, Copies
  <2> QED BY <2>2, <2>3, <2>4, <2>5, <2>6, <2>7
<1>2. CASE cache # None
  <2>1. /\ at[p] = "lookup"
        /\ at' = [at EXCEPT ![p] = "have"]
        /\ copy' = [copy EXCEPT ![p] = cache]
        /\ UNCHANGED <<row, cache, lastId, messages, lock, items, tasks, failed, op,
                      seq, retried, result, job, mishaps, hidden, strayed>>
    BY <1>2 DEF Lookup, Goto, queue
  <2>2. Types'
    BY <2>1, <1>2 DEF Types, Points, Message, Copies, Everything
  <2>3. References'
    BY <2>1, <1>2 DEF Types, References, Flow, Stored
  <2>4. Flow'
    BY <2>1, <1>2 DEF Types, References, Flow
  <2>5. Numbering'
    BY <2>1, <1>2 DEF Types, References, Numbering, PostsInOrder
  <2>6. Racing'
    BY <2>1, <1>2 DEF Types, Flow, Racing, OneWinner, References
  <2>7. Hiding'
    BY <2>1, <1>2 DEF Types, Flow, References, Hiding, DeletionHides, Shows, Copies
  <2> QED BY <2>2, <2>3, <2>4, <2>5, <2>6, <2>7
<1> QED BY <1>1, <1>2 DEF Lookup, Goto, queue

LEMMA FetchIsFine ==
  ASSUME NEW p \in Processes, IInv, Fetch(p) PROVE IInv'
<1> USE DEF IInv, Processes
<1>1. /\ at[p] = "fetch"
      /\ copy' = [copy EXCEPT ![p] = row]
      /\ at' = [at EXCEPT ![p] = "store"]
      /\ UNCHANGED <<row, cache, lastId, messages, lock, items, tasks, failed, op,
                    seq, retried, result, job, mishaps, hidden, strayed>>
  BY DEF Fetch, Goto, queue
<1>2. Types'
  BY <1>1 DEF Types, Points, Message, Copies, Everything
<1>3. References'
  BY <1>1 DEF Types, References, Flow, Stored
<1>4. Flow'
  BY <1>1 DEF Types, References, Flow
<1>5. Numbering'
  BY <1>1 DEF Types, References, Numbering, PostsInOrder
<1>6. Racing'
  BY <1>1 DEF Types, Flow, Racing, OneWinner, References
<1>7. Hiding'
  BY <1>1 DEF Types, Flow, References, Hiding, DeletionHides, Shows, Copies
<1> QED BY <1>2, <1>3, <1>4, <1>5, <1>6, <1>7

LEMMA StoreIsFine ==
  ASSUME NEW p \in Processes, IInv, Store(p) PROVE IInv'
<1> USE DEF IInv, Processes
<1>1. /\ at[p] = "store"
      /\ cache' = IF copy[p] = None THEN cache ELSE copy[p]
      /\ at' = [at EXCEPT ![p] = "have"]
      /\ UNCHANGED <<row, lastId, messages, lock, items, tasks, failed, op, copy, seq,
                    retried, result, job, mishaps, hidden, strayed>>
  BY DEF Store, Goto, queue
<1>2. Types'
  BY <1>1 DEF Types, Points, Message, Copies, Everything
<1>3. References'
  BY <1>1 DEF Types, References, Flow, Stored
<1>4. Flow'
  BY <1>1 DEF Types, References, Flow
<1>5. Numbering'
  BY <1>1 DEF Types, References, Numbering, PostsInOrder
<1>6. Racing'
  BY <1>1 DEF Types, Flow, Racing, OneWinner, References
<1>7. Hiding'
  BY <1>1 DEF Types, Flow, References, Hiding, DeletionHides, Shows, Copies
<1> QED BY <1>2, <1>3, <1>4, <1>5, <1>6, <1>7

LEMMA ReadIsFine ==
  ASSUME NEW r \in Requests, IInv, Read(r) PROVE IInv'
<1> USE DEF IInv, Processes
<1>1. /\ at[r] = "have"
      /\ at' = [at EXCEPT ![r] = "done"]
      /\ result' = [result EXCEPT ![r] = IF Active(r) THEN "ok" ELSE "missing"]
      /\ UNCHANGED <<row, cache, lastId, messages, lock, items, tasks, failed, op,
                    copy, seq, retried, job, mishaps, hidden, strayed>>
  BY DEF Read, Goto, Answers, queue
<1>2. Types'
  BY <1>1 DEF Types, Points, Message, Copies, Everything
<1>3. References'
  BY <1>1 DEF Types, References, Flow, Stored
<1>4. Flow'
  BY <1>1 DEF Types, References, Flow
<1>5. Numbering'
  BY <1>1 DEF Types, References, Numbering, PostsInOrder
<1>6. Racing'
  BY <1>1 DEF Types, Flow, Racing, OneWinner, References
<1>7. Hiding'
  BY <1>1 DEF Types, Flow, References, Hiding, DeletionHides, Shows, Copies
<1> QED BY <1>2, <1>3, <1>4, <1>5, <1>6, <1>7

LEMMA RefusedIsFine ==
  ASSUME NEW r \in Requests, IInv, Refused(r) PROVE IInv'
<1> USE DEF IInv, Processes
<1>1. /\ at[r] = "have"
      /\ at' = [at EXCEPT ![r] = "done"]
      /\ result' = [result EXCEPT ![r] = IF op[r] = "file" THEN result[r] ELSE "missing"]
      /\ UNCHANGED <<row, cache, lastId, messages, lock, items, tasks, failed, op,
                    copy, seq, retried, job, mishaps, hidden, strayed>>
  BY DEF Refused, Goto, Entering, Answers, queue
<1>2. Types'
  BY <1>1 DEF Types, Points, Message, Copies, Everything
<1>3. References'
  BY <1>1 DEF Types, References, Flow, Stored
<1>4. Flow'
  BY <1>1 DEF Types, References, Flow
<1>5. Numbering'
  BY <1>1 DEF Types, References, Numbering, PostsInOrder
<1>6. Racing'
  BY <1>1 DEF Types, Flow, Racing, OneWinner, References
<1>7. Hiding'
  BY <1>1 DEF Types, Flow, References, Hiding, DeletionHides, Shows, Copies
<1> QED BY <1>2, <1>3, <1>4, <1>5, <1>6, <1>7

LEMMA InvalidateIsFine ==
  ASSUME NEW p \in Processes, IInv, Invalidate(p) PROVE IInv'
<1> USE DEF IInv, Processes
<1>1. CASE p = Worker
  <2>1. /\ at[p] = "invalidate"
        /\ cache' \in {None, cache}
        /\ mishaps' = mishaps \/ (mishaps < MaxMishaps /\ mishaps' = mishaps + 1)
        /\ at' = [at EXCEPT ![p] = "mark"]
        /\ UNCHANGED <<row, lastId, messages, lock, items, tasks, failed, op, copy, seq,
                      retried, result, job, hidden, strayed>>
    BY <1>1 DEF Invalidate, Goto, Dropped, Answers, queue
  <2>2. Types'
    BY <2>1, <1>1, SMTT(60) DEF Types, Points, Message, Copies, Everything
  <2>3. References'
    BY <2>1, <1>1 DEF Types, References, Flow, Stored
  <2>4. Flow'
    BY <2>1, <1>1 DEF Types, References, Flow
  <2>5. Numbering'
    BY <2>1, <1>1 DEF Types, References, Numbering, PostsInOrder
  <2>6. Racing'
    BY <2>1, <1>1 DEF Types, Flow, Racing, OneWinner, References
  <2>7. Hiding'
    BY <2>1, <1>1 DEF Types, Flow, References, Hiding, DeletionHides, Shows, Copies
  <2> QED BY <2>2, <2>3, <2>4, <2>5, <2>6, <2>7
<1>2. CASE p \in Requests /\ hidden' = hidden
  <2>1. /\ at[p] = "invalidate"
        /\ cache' \in {None, cache}
        /\ mishaps' = mishaps \/ (mishaps < MaxMishaps /\ mishaps' = mishaps + 1)
        /\ hidden' = hidden
        /\ at' = [at EXCEPT ![p] = "done"]
        /\ result' = [result EXCEPT ![p] = "ok"]
        /\ UNCHANGED <<row, lastId, messages, lock, items, tasks, failed, op, copy, seq,
                      retried, job, strayed>>
    BY <1>2 DEF Invalidate, Goto, Dropped, Answers, queue
  <2>2. Types'
    BY <2>1, <1>2 DEF Types, Points, Message, Copies, Everything
  <2>3. References'
    BY <2>1, <1>2 DEF Types, References, Flow, Stored
  <2>4. Flow'
    BY <2>1, <1>2 DEF Types, References, Flow
  <2>5. Numbering'
    BY <2>1, <1>2 DEF Types, References, Numbering, PostsInOrder
  <2>6. Racing'
    BY <2>1, <1>2 DEF Types, Flow, Racing, OneWinner, References
  <2>7. Hiding'
    BY <2>1, <1>2 DEF Types, Flow, References, Hiding, DeletionHides, Shows, Copies
  <2> QED BY <2>2, <2>3, <2>4, <2>5, <2>6, <2>7
<1>3. CASE p \in Requests /\ hidden' # hidden
  <2>1. /\ at[p] = "invalidate" /\ op[p] = "delete"
        /\ cache' = None
        /\ hidden' = hidden \cup {copy[p].id}
        /\ \A q \in Processes \ {p} : at[q] \notin {"store", "have", "publish"}
        /\ at' = [at EXCEPT ![p] = "done"]
        /\ result' = [result EXCEPT ![p] = "ok"]
        /\ UNCHANGED <<row, lastId, messages, lock, items, tasks, failed, op, copy, seq,
                      retried, job, mishaps, strayed>>
    BY <1>3 DEF Invalidate, Goto, Dropped, Answers, queue, Alone
  <2>2. copy[p].id \in 1 .. lastId
    BY <2>1, <1>3 DEF Types, Flow, Copies
  <2>3. Types'
    BY <2>1, <2>2, <1>3 DEF Types, Points, Message, Copies, Everything
  <2>4. References'
    BY <2>1, <2>2, <1>3 DEF Types, References, Flow, Stored
  <2>5. Flow'
    BY <2>1, <2>2, <1>3 DEF Types, References, Flow
  <2>6. Numbering'
    BY <2>1, <2>2, <1>3 DEF Types, References, Numbering, PostsInOrder
  <2>7. Racing'
    BY <2>1, <2>2, <1>3 DEF Types, Flow, Racing, OneWinner, References
  <2>8. Hiding'
    BY <2>1, <2>2, <1>3 DEF Types, Flow, References, Hiding, DeletionHides, Shows, Copies
  <2> QED BY <2>3, <2>4, <2>5, <2>6, <2>7, <2>8
<1> QED BY <1>1, <1>2, <1>3 DEF Invalidate, Goto, Dropped, Answers, queue

LEMMA CreateIsFine ==
  ASSUME NEW r \in Requests, IInv, Create(r) PROVE IInv'
<1> USE DEF IInv, Processes
<1>1. /\ at[r] = "have"
      /\ op[r] \in {"configure", "update", "post", "file"}
      /\ copy[r] = None /\ row = None
      /\ lastId' = lastId + 1
      /\ row' = [id |-> lastId + 1, active |-> TRUE, config |-> Given(r)]
      /\ Given(r) \in SUBSET Requests
      /\ copy' = [copy EXCEPT ![r] = row']
      /\ at' = [at EXCEPT ![r] = "publish"]
      /\ UNCHANGED <<cache, messages, lock, items, tasks, failed, op, seq, retried,
                    result, job, mishaps, hidden, strayed>>
  BY DEF Create, Goto, Entering, Given, queue
<1>2. lastId \in Nat /\ lastId + 1 \notin hidden /\ lastId + 1 \notin 1 .. lastId
  BY DEF Types
<1>3. Copies \subseteq Copies'
  BY <1>1, <1>2 DEF Copies
<1>4. /\ row' \in Copies' /\ row' # None
      /\ row'.id = lastId' /\ row'.id \notin hidden /\ row'.id \notin 1 .. lastId
  BY <1>1, <1>2, NewCopy DEF Copies
<1>5. Types'
  BY <1>1, <1>2, <1>3, <1>4 DEF Types, Points
<1>6. References'
  BY <1>1, <1>2, <1>3, <1>4 DEF Types, References, Flow, Stored
<1>7. Flow'
  BY <1>1, <1>2, <1>3, <1>4 DEF Types, References, Flow
<1>8. Numbering'
  BY <1>1, <1>2, <1>3, <1>4 DEF Types, References, Numbering, PostsInOrder
<1>9. Racing'
  BY <1>1, <1>2, <1>3, <1>4 DEF Types, Flow, Racing, OneWinner, References
<1>10. Hiding'
  BY <1>1, <1>2, <1>3, <1>4 DEF Types, Flow, References, Hiding, DeletionHides, Shows, Copies
<1> QED BY <1>5, <1>6, <1>7, <1>8, <1>9, <1>10

LEMMA CreateLostIsFine ==
  ASSUME NEW r \in Requests, IInv, CreateLost(r) PROVE IInv'
<1> USE DEF IInv, Processes
<1>1. CASE r \notin retried
  <2>1. /\ at[r] = "have"
        /\ copy[r] = None /\ row # None
        /\ retried' = retried \cup {r}
        /\ at' = [at EXCEPT ![r] = "lookup"]
        /\ UNCHANGED <<row, cache, lastId, messages, lock, items, tasks, failed, op,
                      copy, seq, result, job, mishaps, hidden, strayed>>
    BY <1>1 DEF CreateLost, Goto, Entering, Answers, Retries, queue
  <2>2. lastId > 0
    BY <2>1, CopyParts DEF Types, References
  <2>3. Types'
    BY <2>1, <2>2, <1>1 DEF Types, Points, Message, Copies, Everything
  <2>4. References'
    BY <2>1, <2>2, <1>1 DEF Types, References, Flow, Stored
  <2>5. Flow'
    BY <2>1, <2>2, <1>1 DEF Types, References, Flow
  <2>6. Numbering'
    BY <2>1, <2>2, <1>1 DEF Types, References, Numbering, PostsInOrder
  <2>7. Racing'
    BY <2>1, <2>2, <1>1 DEF Types, Flow, Racing, OneWinner, References
  <2>8. Hiding'
    BY <2>1, <2>2, <1>1 DEF Types, Flow, References, Hiding, DeletionHides, Shows, Copies
  <2> QED BY <2>3, <2>4, <2>5, <2>6, <2>7, <2>8
<1>2. CASE r \in retried
  <2>1. /\ at[r] = "have"
        /\ copy[r] = None /\ row # None
        /\ retried' = retried
        /\ at' = [at EXCEPT ![r] = "done"]
        /\ result' = [result EXCEPT ![r] = IF op[r] = "file" THEN result[r] ELSE "conflict"]
        /\ UNCHANGED <<row, cache, lastId, messages, lock, items, tasks, failed, op,
                      copy, seq, job, mishaps, hidden, strayed>>
    BY <1>2 DEF CreateLost, Goto, Entering, Answers, Retries, queue
  <2>2. Types'
    BY <2>1, <1>2 DEF Types, Points, Message, Copies, Everything
  <2>3. References'
    BY <2>1, <1>2 DEF Types, References, Flow, Stored
  <2>4. Flow'
    BY <2>1, <1>2 DEF Types, References, Flow
  <2>5. Numbering'
    BY <2>1, <1>2 DEF Types, References, Numbering, PostsInOrder
  <2>6. Racing'
    BY <2>1, <1>2 DEF Types, Flow, Racing, OneWinner, References
  <2>7. Hiding'
    BY <2>1, <1>2 DEF Types, Flow, References, Hiding, DeletionHides, Shows, Copies
  <2> QED BY <2>2, <2>3, <2>4, <2>5, <2>6, <2>7
<1> QED BY <1>1, <1>2 DEF CreateLost, Goto, Entering, Answers, Retries, queue

LEMMA JoinIsFine ==
  ASSUME NEW r \in Requests, IInv, Join(r) PROVE IInv'
<1> USE DEF IInv, Processes
<1> DEFINE merged == copy[r].config \cup Given(r)
<1>1. /\ at[r] = "have" /\ copy[r] # None /\ copy[r].active
      /\ op[r] \in {"configure", "update", "post", "file"}
      /\ UNCHANGED <<cache, lastId, messages, lock, items, tasks, failed, op, seq,
                     retried, job, mishaps, hidden, strayed>>
  BY DEF Join, Entering, Active, queue
<1>2. /\ After(r) \in {"done", "apply", "lock", "file"}
      /\ After(r) = "apply" => op[r] = "update"
  BY <1>1 DEF After
<1>3. merged \in SUBSET Requests
  BY <1>1, CopyParts DEF Given, Types
<1>4. CASE UNCHANGED <<row, copy>> /\ Answers(r, "error")
  <2>1. UNCHANGED <<row, copy>> /\ at' = [at EXCEPT ![r] = "done"]
        /\ result' = [result EXCEPT ![r] = "error"]
    BY <1>4 DEF Answers, Goto
  <2>2. Types'
    BY <2>1, <1>1 DEF Types, Points, Message, Copies, Everything
  <2>3. References'
    BY <2>1, <1>1 DEF Types, References, Flow, Stored
  <2>4. Flow'
    BY <2>1, <1>1 DEF Types, References, Flow
  <2>5. Numbering'
    BY <2>1, <1>1 DEF Types, References, Numbering, PostsInOrder
  <2>6. Racing'
    BY <2>1, <1>1 DEF Types, Flow, Racing, OneWinner, References
  <2>7. Hiding'
    BY <2>1, <1>1 DEF Types, Flow, References, Hiding, DeletionHides, Shows
  <2> QED BY <2>2, <2>3, <2>4, <2>5, <2>6, <2>7
<1>5. CASE /\ merged = copy[r].config /\ row' = row
           /\ copy' = [copy EXCEPT ![r].config = merged]
           /\ Goto(r, After(r))
           /\ result' = [result EXCEPT ![r] = IF After(r) = "done" THEN "ok" ELSE @]
  <2>1. [copy[r] EXCEPT !.config = merged] = copy[r]
    BY <1>1, <1>5, CopyParts DEF Types
  <2>2. copy' = copy
    BY <1>5, <2>1 DEF Types
  <2>3. /\ UNCHANGED <<row, copy>> /\ at' = [at EXCEPT ![r] = After(r)]
        /\ result' = [result EXCEPT ![r] = IF After(r) = "done" THEN "ok" ELSE result[r]]
    BY <1>5, <2>2 DEF Goto
  <2>4. Types'
    BY <2>3, <1>1, <1>2 DEF Types, Points, Message, Copies, Everything
  <2>5. References'
    BY <2>3, <1>1, <1>2 DEF Types, References, Flow, Stored
  <2>6. Flow'
    BY <2>3, <1>1, <1>2 DEF Types, References, Flow
  <2>7. Numbering'
    BY <2>3, <1>1, <1>2 DEF Types, References, Numbering, PostsInOrder
  <2>8. Racing'
    BY <2>3, <1>1, <1>2 DEF Types, Flow, Racing, OneWinner, References
  <2>9. Hiding'
    BY <2>3, <1>1, <1>2 DEF Types, Flow, References, Hiding, DeletionHides, Shows
  <2> QED BY <2>4, <2>5, <2>6, <2>7, <2>8, <2>9
<1>6. CASE /\ Finds(r) /\ row' = [row EXCEPT !.config = merged]
           /\ copy' = [copy EXCEPT ![r].config = merged]
           /\ Goto(r, "publish")
           /\ result' = [result EXCEPT ![r] = IF After(r) = "done" THEN "ok" ELSE @]
  <2> DEFINE mine == [copy[r] EXCEPT !.config = merged]
  <2>1. row # None /\ row \in Copies
    BY <1>6 DEF Finds, Types
  <2>2. row' \in Copies /\ row' # None /\ row'.id = row.id /\ row'.active = row.active
    BY <1>3, <1>6, <2>1, Configured DEF Types
  <2>3. mine \in Copies /\ mine # None /\ mine.id = copy[r].id /\ mine.active = copy[r].active
    BY <1>1, <1>3, Configured DEF Types
  <2>4. /\ copy' = [copy EXCEPT ![r] = mine]
        /\ at' = [at EXCEPT ![r] = "publish"]
        /\ result' = [result EXCEPT ![r] = IF After(r) = "done" THEN "ok" ELSE result[r]]
    BY <1>6 DEF Goto
  <2>5. Copies' = Copies
    BY <1>1 DEF Copies
  <2> HIDE DEF mine, merged
  <2>6. Types'
    BY <2>1, <2>2, <2>3, <2>4, <2>5, <1>1, <1>2 DEF Types, Points, Message, Copies, Everything
  <2>7. References'
    BY <2>1, <2>2, <2>3, <2>4, <2>5, <1>1, <1>2 DEF Types, References, Flow, Stored
  <2>8. Flow'
    BY <2>1, <2>2, <2>3, <2>4, <2>5, <1>1, <1>2 DEF Types, References, Flow
  <2>9. Numbering'
    BY <2>1, <2>2, <2>3, <2>4, <2>5, <1>1, <1>2 DEF Types, References, Numbering, PostsInOrder
  <2>10. Racing'
    BY <2>1, <2>2, <2>3, <2>4, <2>5, <1>1, <1>2 DEF Types, Flow, Racing, OneWinner, References
  <2>11. Hiding'
    BY <2>1, <2>2, <2>3, <2>4, <2>5, <1>1, <1>2 DEF Types, Flow, References, Hiding, DeletionHides, Shows
  <2> QED BY <2>6, <2>7, <2>8, <2>9, <2>10, <2>11
<1>7. \/ UNCHANGED <<row, copy>> /\ Answers(r, "error")
      \/ /\ copy' = [copy EXCEPT ![r].config = merged]
         /\ result' = [result EXCEPT ![r] = IF After(r) = "done" THEN "ok" ELSE @]
         /\ \/ merged = copy[r].config /\ row' = row /\ Goto(r, After(r))
            \/ Finds(r) /\ row' = [row EXCEPT !.config = merged] /\ Goto(r, "publish")
  BY DEF Join
<1> QED BY <1>4, <1>5, <1>6, <1>7

LEMMA PublishIsFine ==
  ASSUME NEW r \in Requests, IInv, Publish(r) PROVE IInv'
<1> USE DEF IInv, Processes
<1>1. /\ at[r] = "publish"
      /\ cache' = copy[r]
      /\ at' = [at EXCEPT ![r] = After(r)]
      /\ result' = [result EXCEPT ![r] = IF After(r) = "done" THEN "ok" ELSE result[r]]
      /\ UNCHANGED <<row, lastId, messages, lock, items, tasks, failed, op, copy, seq,
                    retried, job, mishaps, hidden, strayed>>
  BY DEF Publish, Goto, queue
<1>2. After(r) \in {"done", "apply", "lock", "file"} /\ (After(r) = "apply" => op[r] = "update")
  BY <1>1 DEF Flow, After
<1>3. Types'
  BY <1>1, <1>2 DEF Types, Points, Message, Copies, Everything
<1>4. References'
  BY <1>1, <1>2 DEF Types, References, Flow, Stored
<1>5. Flow'
  BY <1>1, <1>2 DEF Types, References, Flow
<1>6. Numbering'
  BY <1>1, <1>2 DEF Types, References, Numbering, PostsInOrder
<1>7. Racing'
  BY <1>1, <1>2 DEF Types, Flow, Racing, OneWinner, References
<1>8. Hiding'
  BY <1>1, <1>2 DEF Types, Flow, References, Hiding, DeletionHides, Shows, Copies
<1> QED BY <1>3, <1>4, <1>5, <1>6, <1>7, <1>8

LEMMA UpdateIsFine ==
  ASSUME NEW r \in Requests, IInv, Update(r) PROVE IInv'
<1> USE DEF IInv, Processes
<1>1. CASE Finds(r)
  <2>1. /\ at[r] = "apply"
        /\ row # None
        /\ row' = [row EXCEPT !.config = copy[r].config \cup {r}]
        /\ at' = [at EXCEPT ![r] = "invalidate"]
        /\ UNCHANGED <<cache, lastId, messages, lock, items, tasks, failed, op, copy,
                      seq, retried, result, job, mishaps, hidden, strayed>>
    BY <1>1 DEF Update, Goto, Finds, Answers, queue
  <2>2. row' \in Copies /\ row' # None /\ row'.id = row.id /\ row'.active = row.active
    <3>1. copy[r] \in Copies /\ copy[r] # None
      BY <2>1 DEF Types, Flow
    <3>2. copy[r].config \cup {r} \in SUBSET Requests
      BY <3>1, CopyParts
    <3> QED BY <2>1, <3>2, Configured DEF Types
  <2>3. Types'
    BY <2>1, <2>2, <1>1 DEF Types, Points, Message, Copies, Everything
  <2>4. References'
    BY <2>1, <2>2, <1>1 DEF Types, References, Flow, Stored
  <2>5. Flow'
    BY <2>1, <2>2, <1>1 DEF Types, References, Flow
  <2>6. Numbering'
    BY <2>1, <2>2, <1>1 DEF Types, References, Numbering, PostsInOrder
  <2>7. Racing'
    BY <2>1, <2>2, <1>1 DEF Types, Flow, Racing, OneWinner, References
  <2>8. Hiding'
    BY <2>1, <2>2, <1>1 DEF Types, Flow, References, Hiding, DeletionHides, Shows, Copies
  <2> QED BY <2>3, <2>4, <2>5, <2>6, <2>7, <2>8
<1>2. CASE ~ Finds(r)
  <2>1. /\ at[r] = "apply"
        /\ at' = [at EXCEPT ![r] = "done"]
        /\ result' = [result EXCEPT ![r] = "error"]
        /\ UNCHANGED <<row, cache, lastId, messages, lock, items, tasks, failed, op,
                      copy, seq, retried, job, mishaps, hidden, strayed>>
    BY <1>2 DEF Update, Goto, Finds, Answers, queue
  <2>2. Types'
    BY <2>1, <1>2 DEF Types, Points, Message, Copies, Everything
  <2>3. References'
    BY <2>1, <1>2 DEF Types, References, Flow, Stored
  <2>4. Flow'
    BY <2>1, <1>2 DEF Types, References, Flow
  <2>5. Numbering'
    BY <2>1, <1>2 DEF Types, References, Numbering, PostsInOrder
  <2>6. Racing'
    BY <2>1, <1>2 DEF Types, Flow, Racing, OneWinner, References
  <2>7. Hiding'
    BY <2>1, <1>2 DEF Types, Flow, References, Hiding, DeletionHides, Shows, Copies
  <2> QED BY <2>2, <2>3, <2>4, <2>5, <2>6, <2>7
<1> QED BY <1>1, <1>2 DEF Update, Goto, Finds, Answers, queue

LEMMA MarkDeletedIsFine ==
  ASSUME NEW r \in Requests, IInv, MarkDeleted(r) PROVE IInv'
<1> USE DEF IInv, Processes
<1>1. CASE Active(r) /\ Finds(r)
  <2>1. /\ at[r] = "have" /\ op[r] = "delete"
        /\ copy[r] # None /\ row # None /\ row.id = copy[r].id
        /\ row' = [row EXCEPT !.active = FALSE]
        /\ tasks' = tasks \cup {r}
        /\ at' = [at EXCEPT ![r] = "invalidate"]
        /\ UNCHANGED <<cache, lastId, messages, lock, items, failed, op, copy, seq,
                      retried, result, job, mishaps, hidden, strayed>>
    BY <1>1 DEF MarkDeleted, Goto, Active, Finds, Answers, queue
  <2>2. row' \in Copies /\ row' # None /\ row'.id = row.id /\ ~ row'.active
    BY <2>1, Deactivated DEF Types
  <2>3. Types'
    BY <2>1, <2>2, <1>1 DEF Types, Points, Message, Copies, Everything
  <2>4. References'
    BY <2>1, <2>2, <1>1 DEF Types, References, Flow, Stored
  <2>5. Flow'
    BY <2>1, <2>2, <1>1 DEF Types, References, Flow
  <2>6. Numbering'
    BY <2>1, <2>2, <1>1 DEF Types, References, Numbering, PostsInOrder
  <2>7. Racing'
    BY <2>1, <2>2, <1>1 DEF Types, Flow, Racing, OneWinner, References
  <2>8. Hiding'
    BY <2>1, <2>2, <1>1 DEF Types, Flow, References, Hiding, DeletionHides, Shows, Copies
  <2> QED BY <2>3, <2>4, <2>5, <2>6, <2>7, <2>8
<1>2. CASE ~ Active(r)
  <2>1. /\ at[r] = "have"
        /\ at' = [at EXCEPT ![r] = "done"]
        /\ result' = [result EXCEPT ![r] = "missing"]
        /\ UNCHANGED <<row, cache, lastId, messages, lock, items, tasks, failed, op,
                      copy, seq, retried, job, mishaps, hidden, strayed>>
    BY <1>2 DEF MarkDeleted, Goto, Active, Finds, Answers, queue
  <2>2. Types'
    BY <2>1, <1>2 DEF Types, Points, Message, Copies, Everything
  <2>3. References'
    BY <2>1, <1>2 DEF Types, References, Flow, Stored
  <2>4. Flow'
    BY <2>1, <1>2 DEF Types, References, Flow
  <2>5. Numbering'
    BY <2>1, <1>2 DEF Types, References, Numbering, PostsInOrder
  <2>6. Racing'
    BY <2>1, <1>2 DEF Types, Flow, Racing, OneWinner, References
  <2>7. Hiding'
    BY <2>1, <1>2 DEF Types, Flow, References, Hiding, DeletionHides, Shows, Copies
  <2> QED BY <2>2, <2>3, <2>4, <2>5, <2>6, <2>7
<1>3. CASE Active(r) /\ ~ Finds(r)
  <2>1. /\ at[r] = "have"
        /\ at' = [at EXCEPT ![r] = "done"]
        /\ result' = [result EXCEPT ![r] = "error"]
        /\ UNCHANGED <<row, cache, lastId, messages, lock, items, tasks, failed, op,
                      copy, seq, retried, job, mishaps, hidden, strayed>>
    BY <1>3 DEF MarkDeleted, Goto, Active, Finds, Answers, queue
  <2>2. Types'
    BY <2>1, <1>3 DEF Types, Points, Message, Copies, Everything
  <2>3. References'
    BY <2>1, <1>3 DEF Types, References, Flow, Stored
  <2>4. Flow'
    BY <2>1, <1>3 DEF Types, References, Flow
  <2>5. Numbering'
    BY <2>1, <1>3 DEF Types, References, Numbering, PostsInOrder
  <2>6. Racing'
    BY <2>1, <1>3 DEF Types, Flow, Racing, OneWinner, References
  <2>7. Hiding'
    BY <2>1, <1>3 DEF Types, Flow, References, Hiding, DeletionHides, Shows, Copies
  <2> QED BY <2>2, <2>3, <2>4, <2>5, <2>6, <2>7
<1> QED BY <1>1, <1>2, <1>3 DEF MarkDeleted, Goto, Active, Finds, Answers, queue

LEMMA LockSessionIsFine ==
  ASSUME NEW r \in Requests, IInv, LockSession(r) PROVE IInv'
<1> USE DEF IInv, Processes
<1> DEFINE last == IF messages = <<>> THEN 0 ELSE messages[Len(messages)].seq
<1>1. /\ at[r] = "lock" /\ lock = None /\ lock' = r
      /\ seq' = [seq EXCEPT ![r] = last]
      /\ at' = [at EXCEPT ![r] = "insert"]
      /\ UNCHANGED <<row, cache, lastId, messages, items, tasks, failed, op, copy,
                     retried, result, job, mishaps, hidden, strayed>>
  BY DEF LockSession, Goto, Free, queue
<1>2. last \in Nat /\ \A i \in DOMAIN messages : messages[i].seq <= last
  <2>1. CASE messages = <<>>
    BY <2>1
  <2>2. CASE messages # <<>>
    BY <2>2, LastIsGreatest DEF Types, Numbering
  <2> QED BY <2>1, <2>2
<1> HIDE DEF last
<1>3. \A s \in Requests : at[s] # "insert"
  BY <1>1 DEF Numbering, Types
<1>4. Numbering'
  BY <1>1, <1>2, <1>3 DEF Types, Numbering, PostsInOrder
<1>5. Types'
  BY <1>1, <1>2, <1>3 DEF Types, Points, Message, Copies, Everything
<1>6. References'
  BY <1>1, <1>2, <1>3 DEF Types, References, Flow, Stored
<1>7. Flow'
  BY <1>1, <1>2, <1>3 DEF Types, References, Flow
<1>8. Racing'
  BY <1>1, <1>2, <1>3 DEF Types, Flow, Racing, OneWinner, References
<1>9. Hiding'
  BY <1>1, <1>2, <1>3 DEF Types, Flow, References, Hiding, DeletionHides, Shows
<1> QED BY <1>4, <1>5, <1>6, <1>7, <1>8, <1>9

LEMMA InsertMessageIsFine ==
  ASSUME NEW r \in Requests, IInv, InsertMessage(r) PROVE IInv'
<1> USE DEF IInv, Processes
<1>1. /\ at[r] = "insert"
      /\ UNCHANGED <<row, cache, lastId, items, tasks, failed, copy, seq, job, mishaps,
                     hidden, strayed>>
  BY DEF InsertMessage, queue
<1>2. lock = r /\ lock' = None
  BY <1>1 DEF InsertMessage, Numbering
<1>3. \A i \in DOMAIN messages : messages[i] \in Message /\ messages[i].seq <= seq[r]
  BY <1>1, ElementOfSeq DEF Numbering, Types
<1>4. ~ \E i \in DOMAIN messages : messages[i].seq = seq[r] + 1
  BY <1>3 DEF Types, Message
<1>5. CASE row # None
  <2> DEFINE new == [by |-> r, seq |-> seq[r] + 1]
  <2>1. /\ messages' = Append(messages, new)
        /\ op' = [op EXCEPT ![r] = "file"]
        /\ retried' = retried \ {r}
        /\ at' = [at EXCEPT ![r] = "lookup"]
        /\ result' = [result EXCEPT ![r] = "ok"]
    BY <1>4, <1>5 DEF InsertMessage, Goto
  <2>2. new \in Message /\ new.seq = seq[r] + 1
    BY DEF Types, Message
  <2>3. /\ messages' \in Seq(Message) /\ Len(messages') = Len(messages) + 1
        /\ \A i \in 1 .. Len(messages) : messages'[i] = messages[i]
        /\ messages'[Len(messages) + 1] = new
    BY <2>1, <2>2, AppendProperties DEF Types
  <2>4. /\ Len(messages) \in Nat /\ DOMAIN messages = 1 .. Len(messages)
        /\ DOMAIN messages' = 1 .. Len(messages) + 1
    BY <2>3 DEF Types
  <2>5. \A s \in Requests : Stored(s) => Stored(s)'
    BY <2>3, <2>4 DEF Stored
  <2> HIDE DEF new
  <2>6. Types'
    BY <1>1, <1>2, <2>1, <2>3 DEF Types, Points, Copies, Everything
  <2>7. References'
    BY <1>1, <1>2, <1>5, <2>1, <2>5 DEF Types, References, Flow
  <2>8. Flow'
    BY <1>1, <2>1 DEF Types, References, Flow
  <2>9. \A i, j \in DOMAIN messages' : i < j => messages'[i].seq < messages'[j].seq
    <3> SUFFICES ASSUME NEW i \in DOMAIN messages', NEW j \in DOMAIN messages', i < j
                 PROVE  messages'[i].seq < messages'[j].seq
      OBVIOUS
    <3>1. i \in DOMAIN messages /\ messages'[i] = messages[i]
      BY <2>3, <2>4
    <3>2. CASE j = Len(messages) + 1
      BY <1>3, <2>2, <2>3, <3>1, <3>2 DEF Types, Message
    <3>3. CASE j # Len(messages) + 1
      <4>1. j \in DOMAIN messages /\ messages'[j] = messages[j]
        BY <2>3, <2>4, <3>3
      <4> QED BY <3>1, <4>1 DEF Numbering, PostsInOrder
    <3> QED BY <3>2, <3>3
  <2>10. \A s \in Requests : at'[s] # "insert"
    BY <1>1, <1>2, <2>1 DEF Types, Numbering
  <2>11. Numbering'
    BY <1>1, <2>1, <2>9, <2>10 DEF Types, Numbering, PostsInOrder
  <2>12. Racing'
    BY <1>1, <2>1 DEF Types, Flow, Racing, OneWinner, References
  <2>13. Hiding'
    BY <1>1, <2>1 DEF Types, Flow, References, Hiding, DeletionHides, Shows
  <2> QED BY <2>6, <2>7, <2>8, <2>11, <2>12, <2>13
<1>6. CASE row = None
  <2>1. /\ UNCHANGED <<messages, op, retried>>
        /\ at' = [at EXCEPT ![r] = "done"]
        /\ result' = [result EXCEPT ![r] = "error"]
    BY <1>4, <1>6 DEF InsertMessage, Answers, Goto
  <2>2. Types'
    BY <2>1, <1>1, <1>2, <1>6 DEF Types, Points, Message, Copies, Everything
  <2>3. References'
    BY <2>1, <1>1, <1>2, <1>6 DEF Types, References, Flow, Stored
  <2>4. Flow'
    BY <2>1, <1>1, <1>2, <1>6 DEF Types, References, Flow
  <2>5. Numbering'
    BY <2>1, <1>1, <1>2, <1>6 DEF Types, References, Numbering, PostsInOrder
  <2>6. Racing'
    BY <2>1, <1>1, <1>2, <1>6 DEF Types, Flow, Racing, OneWinner, References
  <2>7. Hiding'
    BY <2>1, <1>1, <1>2, <1>6 DEF Types, Flow, References, Hiding, DeletionHides, Shows
  <2> QED BY <2>2, <2>3, <2>4, <2>5, <2>6, <2>7
<1> QED BY <1>5, <1>6

LEMMA FileItemIsFine ==
  ASSUME NEW r \in Requests, IInv, FileItem(r) PROVE IInv'
<1> USE DEF IInv, Processes
<1>1. CASE Finds(r) /\ Stored(r)
  <2>1. /\ at[r] = "file"
        /\ row # None
        /\ items' = items \cup {r}
        /\ at' = [at EXCEPT ![r] = "done"]
        /\ UNCHANGED <<row, cache, lastId, messages, lock, tasks, failed, op, copy, seq,
                      retried, result, job, mishaps, hidden, strayed>>
    BY <1>1 DEF FileItem, Goto, Finds, queue
  <2>2. Types'
    BY <2>1, <1>1 DEF Types, Points, Message, Copies, Everything
  <2>3. References'
    BY <2>1, <1>1 DEF Types, References, Flow, Stored
  <2>4. Flow'
    BY <2>1, <1>1 DEF Types, References, Flow
  <2>5. Numbering'
    BY <2>1, <1>1 DEF Types, References, Numbering, PostsInOrder
  <2>6. Racing'
    BY <2>1, <1>1 DEF Types, Flow, Racing, OneWinner, References
  <2>7. Hiding'
    BY <2>1, <1>1 DEF Types, Flow, References, Hiding, DeletionHides, Shows, Copies
  <2> QED BY <2>2, <2>3, <2>4, <2>5, <2>6, <2>7
<1>2. CASE ~ (Finds(r) /\ Stored(r))
  <2>1. /\ at[r] = "file"
        /\ at' = [at EXCEPT ![r] = "done"]
        /\ UNCHANGED <<row, cache, lastId, messages, lock, items, tasks, failed, op,
                      copy, seq, retried, result, job, mishaps, hidden, strayed>>
    BY <1>2 DEF FileItem, Goto, Finds, queue
  <2>2. Types'
    BY <2>1, <1>2 DEF Types, Points, Message, Copies, Everything
  <2>3. References'
    BY <2>1, <1>2 DEF Types, References, Flow, Stored
  <2>4. Flow'
    BY <2>1, <1>2 DEF Types, References, Flow
  <2>5. Numbering'
    BY <2>1, <1>2 DEF Types, References, Numbering, PostsInOrder
  <2>6. Racing'
    BY <2>1, <1>2 DEF Types, Flow, Racing, OneWinner, References
  <2>7. Hiding'
    BY <2>1, <1>2 DEF Types, Flow, References, Hiding, DeletionHides, Shows, Copies
  <2> QED BY <2>2, <2>3, <2>4, <2>5, <2>6, <2>7
<1> QED BY <1>1, <1>2 DEF FileItem, Goto, Finds, queue

LEMMA TakeIsFine ==
  ASSUME NEW t \in Requests, IInv, Take(t) PROVE IInv'
<1> USE DEF IInv, Processes
<1>1. /\ at[Worker] = "idle"
      /\ t \in tasks
      /\ job' = [task |-> t, messages |-> 0, items |-> {}]
      /\ at' = [at EXCEPT ![Worker] = "lookup"]
      /\ UNCHANGED <<row, cache, lastId, messages, lock, items, tasks, failed, op,
                    copy, seq, retried, result, mishaps, hidden, strayed>>
  BY DEF Take, Goto, NoTask, queue
<1>2. Types'
  BY <1>1 DEF Types, Points, Message, Copies, Everything
<1>3. References'
  BY <1>1 DEF Types, References, Flow, Stored
<1>4. Flow'
  BY <1>1 DEF Types, References, Flow
<1>5. Numbering'
  BY <1>1 DEF Types, References, Numbering, PostsInOrder
<1>6. Racing'
  BY <1>1 DEF Types, Flow, Racing, OneWinner, References
<1>7. Hiding'
  BY <1>1 DEF Types, Flow, References, Hiding, DeletionHides, Shows, Copies
<1> QED BY <1>2, <1>3, <1>4, <1>5, <1>6, <1>7

LEMMA SweepIsFine ==
  ASSUME IInv, Sweep PROVE IInv'
<1> USE DEF IInv, Processes
<1>1. CASE Found
  <2>1. /\ at[Worker] = "have"
        /\ job' = [job EXCEPT !.messages = Len(messages), !.items = IF Finds(Worker) THEN items ELSE {}]
        /\ at' = [at EXCEPT ![Worker] = "commit"]
        /\ UNCHANGED <<row, cache, lastId, messages, lock, items, tasks, failed, op,
                      copy, seq, retried, result, mishaps, hidden, strayed>>
    BY <1>1 DEF Sweep, Goto, Found, Finds, queue
  <2>2. job' \in [task : Requests \cup {None}, messages : Nat, items : SUBSET Requests] /\ job'.task = job.task
    <3>1. Len(messages) \in Nat
      BY DEF Types
    <3> QED BY <2>1, <3>1 DEF Types
  <2>3. Types'
    BY <2>1, <2>2, <1>1 DEF Types, Points, Message, Copies, Everything
  <2>4. References'
    BY <2>1, <2>2, <1>1 DEF Types, References, Flow, Stored
  <2>5. Flow'
    BY <2>1, <2>2, <1>1 DEF Types, References, Flow
  <2>6. Numbering'
    BY <2>1, <2>2, <1>1 DEF Types, References, Numbering, PostsInOrder
  <2>7. Racing'
    BY <2>1, <2>2, <1>1 DEF Types, Flow, Racing, OneWinner, References
  <2>8. Hiding'
    BY <2>1, <2>2, <1>1 DEF Types, Flow, References, Hiding, DeletionHides, Shows, Copies
  <2> QED BY <2>3, <2>4, <2>5, <2>6, <2>7, <2>8
<1>2. CASE ~ Found
  <2>1. /\ at[Worker] = "have"
        /\ at' = [at EXCEPT ![Worker] = "mark"]
        /\ UNCHANGED <<row, cache, lastId, messages, lock, items, tasks, failed, op,
                      copy, seq, retried, result, job, mishaps, hidden, strayed>>
    BY <1>2 DEF Sweep, Goto, Found, Finds, queue
  <2>2. Types'
    BY <2>1, <1>2 DEF Types, Points, Message, Copies, Everything
  <2>3. References'
    BY <2>1, <1>2 DEF Types, References, Flow, Stored
  <2>4. Flow'
    BY <2>1, <1>2 DEF Types, References, Flow
  <2>5. Numbering'
    BY <2>1, <1>2 DEF Types, References, Numbering, PostsInOrder
  <2>6. Racing'
    BY <2>1, <1>2 DEF Types, Flow, Racing, OneWinner, References
  <2>7. Hiding'
    BY <2>1, <1>2 DEF Types, Flow, References, Hiding, DeletionHides, Shows, Copies
  <2> QED BY <2>2, <2>3, <2>4, <2>5, <2>6, <2>7
<1> QED BY <1>1, <1>2 DEF Sweep, Goto, Found, Finds, queue

LEMMA DeleteSessionIsFine ==
  ASSUME IInv, DeleteSession PROVE IInv'
<1> USE DEF IInv, Processes
<1>1. /\ at[Worker] = "commit"
      /\ messages' = SubSeq(messages, job.messages + 1, Len(messages))
      /\ items' = {}
      /\ row' \in {row, None}
      /\ at' = [at EXCEPT ![Worker] = "invalidate"]
      /\ UNCHANGED <<cache, lastId, lock, tasks, failed, op, copy, seq, retried, result,
                     job, mishaps, hidden>>
  BY DEF DeleteSession, Goto, Unreferenced, Finds
<1>2. job.messages \in Nat /\ Len(messages) \in Nat
      /\ DOMAIN messages = 1 .. Len(messages)
  BY DEF Types
<1>3. \A i \in job.messages + 1 .. Len(messages) : messages[i] \in Message
  BY <1>2, ElementOfSeq DEF Types
<1>4. /\ messages' \in Seq(Message)
      /\ \A i \in DOMAIN messages' :
           i + job.messages \in DOMAIN messages /\ messages'[i] = messages[i + job.messages]
  <2> DEFINE m == job.messages + 1
             n == Len(messages)
  <2>1. m \in Int /\ n \in Int
    BY <1>2
  <2>2. /\ messages' \in Seq(Message)
        /\ Len(messages') = IF m <= n THEN n - m + 1 ELSE 0
        /\ \A i \in 1 .. n - m + 1 : messages'[i] = messages[m + i - 1]
    BY <1>1, <1>3, <2>1, SubSeqProperties
  <2>3. DOMAIN messages' = 1 .. Len(messages')
    BY <2>2
  <2> SUFFICES ASSUME NEW i \in DOMAIN messages'
               PROVE  i + job.messages \in DOMAIN messages
                      /\ messages'[i] = messages[i + job.messages]
    BY <2>2
  <2>4. CASE m <= n
    <3>1. i \in 1 .. n - m + 1
      BY <2>2, <2>3, <2>4
    <3>2. m + i - 1 = i + job.messages /\ i + job.messages \in 1 .. Len(messages)
      BY <1>2, <3>1
    <3> QED BY <1>2, <2>2, <3>1, <3>2
  <2>5. CASE ~ (m <= n)
    BY <2>2, <2>3, <2>5
  <2> QED BY <2>4, <2>5
<1>5. Types'
  BY <1>1, <1>4, SMTT(60) DEF Types, Points, Copies, Everything
<1>6. References'
  BY <1>1 DEF Types, References, Flow
<1>7. Flow'
  BY <1>1 DEF Types, References, Flow
<1>8. PostsInOrder'
  <2>1. \A i, j \in DOMAIN messages' : i < j => messages'[i].seq < messages'[j].seq
    <3> SUFFICES ASSUME NEW i \in DOMAIN messages', NEW j \in DOMAIN messages', i < j
                 PROVE  messages'[i].seq < messages'[j].seq
      OBVIOUS
    <3>1. i \in Nat /\ j \in Nat
      BY <1>4
    <3>2. i + job.messages < j + job.messages
      BY <1>2, <3>1
    <3> QED BY <1>4, <3>2 DEF Numbering, PostsInOrder
  <2> QED BY <1>1, <2>1 DEF Numbering, PostsInOrder
<1>9. Numbering'
  BY <1>1, <1>4, <1>8, SMTT(60) DEF Types, Numbering
<1>10. Racing'
  BY <1>1 DEF Types, Flow, Racing, OneWinner, References
<1>11. Hiding'
  BY <1>1 DEF Types, Flow, References, Hiding, DeletionHides, Shows
<1> QED BY <1>5, <1>6, <1>7, <1>9, <1>10, <1>11

LEMMA DeletionFailsIsFine ==
  ASSUME IInv, DeletionFails PROVE IInv'
<1> USE DEF IInv, Processes
<1>1. /\ at[Worker] = "commit"
      /\ at' = [at EXCEPT ![Worker] = "idle"]
      /\ job' = [task |-> None, messages |-> 0, items |-> {}]
      /\ copy' = [copy EXCEPT ![Worker] = None]
      /\ tasks' = tasks \ {job.task}
      /\ failed' = failed \cup {job.task}
      /\ UNCHANGED <<row, cache, lastId, messages, lock, items, op, seq, retried,
                    result, mishaps, hidden, strayed>>
  BY DEF DeletionFails, Goto, EndTask, NoTask, queue
<1>2. job.task \in tasks
  BY <1>1 DEF References
<1>3. Types'
  BY <1>1, <1>2 DEF Types, Points, Message, Copies, Everything
<1>4. References'
  BY <1>1, <1>2 DEF Types, References, Flow, Stored
<1>5. Flow'
  BY <1>1, <1>2 DEF Types, References, Flow
<1>6. Numbering'
  BY <1>1, <1>2 DEF Types, References, Numbering, PostsInOrder
<1>7. Racing'
  BY <1>1, <1>2 DEF Types, Flow, Racing, OneWinner, References
<1>8. Hiding'
  BY <1>1, <1>2 DEF Types, Flow, References, Hiding, DeletionHides, Shows, Copies
<1> QED BY <1>3, <1>4, <1>5, <1>6, <1>7, <1>8

LEMMA MarkProcessedIsFine ==
  ASSUME IInv, MarkProcessed PROVE IInv'
<1> USE DEF IInv, Processes
<1>1. /\ at[Worker] = "mark"
      /\ at' = [at EXCEPT ![Worker] = "idle"]
      /\ job' = [task |-> None, messages |-> 0, items |-> {}]
      /\ copy' = [copy EXCEPT ![Worker] = None]
      /\ tasks' = tasks \ {job.task}
      /\ UNCHANGED <<row, cache, lastId, messages, lock, items, failed, op, seq,
                    retried, result, mishaps, hidden, strayed>>
  BY DEF MarkProcessed, Goto, EndTask, NoTask, queue
<1>2. Types'
  BY <1>1 DEF Types, Points, Message, Copies, Everything
<1>3. References'
  BY <1>1 DEF Types, References, Flow, Stored
<1>4. Flow'
  BY <1>1 DEF Types, References, Flow
<1>5. Numbering'
  BY <1>1 DEF Types, References, Numbering, PostsInOrder
<1>6. Racing'
  BY <1>1 DEF Types, Flow, Racing, OneWinner, References
<1>7. Hiding'
  BY <1>1 DEF Types, Flow, References, Hiding, DeletionHides, Shows, Copies
<1> QED BY <1>2, <1>3, <1>4, <1>5, <1>6, <1>7

LEMMA InterruptedIsFine ==
  ASSUME IInv, Interrupted PROVE IInv'
<1> USE DEF IInv, Processes
<1>1. /\ mishaps' = mishaps \/ (mishaps < MaxMishaps /\ mishaps' = mishaps + 1)
      /\ at' = [at EXCEPT ![Worker] = "idle"]
      /\ job' = [task |-> None, messages |-> 0, items |-> {}]
      /\ copy' = [copy EXCEPT ![Worker] = None]
      /\ UNCHANGED <<row, cache, lastId, messages, lock, items, tasks, failed, op,
                    seq, retried, result, hidden, strayed>>
  BY DEF Interrupted, Goto, EndTask, NoTask, queue
<1>2. Types'
  BY <1>1 DEF Types, Points, Message, Copies, Everything
<1>3. References'
  BY <1>1 DEF Types, References, Flow, Stored
<1>4. Flow'
  BY <1>1 DEF Types, References, Flow
<1>5. Numbering'
  BY <1>1 DEF Types, References, Numbering, PostsInOrder
<1>6. Racing'
  BY <1>1 DEF Types, Flow, Racing, OneWinner, References
<1>7. Hiding'
  BY <1>1 DEF Types, Flow, References, Hiding, DeletionHides, Shows, Copies
<1> QED BY <1>2, <1>3, <1>4, <1>5, <1>6, <1>7

LEMMA ExpireIsFine ==
  ASSUME IInv, Expire PROVE IInv'
<1> USE DEF IInv, Processes
<1>1. /\ cache' = None
      /\ UNCHANGED <<row, lastId, messages, lock, items, tasks, failed, op, at, copy,
                    seq, retried, result, job, mishaps, hidden, strayed>>
  BY DEF Expire, Goto, queue
<1>2. Types'
  BY <1>1 DEF Types, Points, Message, Copies, Everything
<1>3. References'
  BY <1>1 DEF Types, References, Flow, Stored
<1>4. Flow'
  BY <1>1 DEF Types, References, Flow
<1>5. Numbering'
  BY <1>1 DEF Types, References, Numbering, PostsInOrder
<1>6. Racing'
  BY <1>1 DEF Types, Flow, Racing, OneWinner, References
<1>7. Hiding'
  BY <1>1 DEF Types, Flow, References, Hiding, DeletionHides, Shows, Copies
<1> QED BY <1>2, <1>3, <1>4, <1>5, <1>6, <1>7

-----------------------------------------------------------------------------

LEMMA InitIsFine == Init => IInv
<1> SUFFICES ASSUME Init PROVE IInv
  OBVIOUS
<1> USE DEF Init, Processes, NoTask
<1>1. /\ op \in [Requests -> Everything]
      /\ \A r \in Requests : at[r] = "lookup" /\ copy[r] = None /\ result[r] = "none"
      /\ at[Worker] = "idle" /\ copy[Worker] = None
  OBVIOUS
<1>2. row \in Copies /\ cache \in Copies /\ (row # None => row.id = lastId)
  <2> DEFINE first == [id |-> 1, active |-> TRUE, config |-> {}]
  <2>1. first # None /\ first.id = 1
    BY NewCopy
  <2>2. CASE row = None
    BY <2>2 DEF Copies
  <2>3. CASE row = first
    <3>1. lastId = 1
      BY <2>1, <2>3
    <3>2. first \in Copies
      BY <3>1 DEF Copies
    <3> QED BY <2>1, <2>3, <3>1, <3>2 DEF Copies
  <2> QED BY <2>2, <2>3
<1>3. Types
  BY <1>1, <1>2 DEF Types, Points, Message, Copies
<1>4. References
  BY <1>1, <1>2 DEF References
<1>5. Flow
  BY <1>1 DEF Flow
<1>6. Numbering
  BY <1>1 DEF Numbering, PostsInOrder
<1>7. Racing
  BY <1>1 DEF Racing, OneWinner
<1>8. Hiding
  BY <1>1 DEF Hiding, DeletionHides
<1> QED BY <1>3, <1>4, <1>5, <1>6, <1>7, <1>8 DEF IInv

\* Every step of a request, of the worker or of the cache keeps the invariant.
LEMMA StepIsFine == IInv /\ [Next]_vars => IInv'
<1> SUFFICES ASSUME IInv, [Next]_vars PROVE IInv'
  OBVIOUS
<1>1. ASSUME NEW p \in Processes, Step(p) PROVE IInv'
  BY <1>1, LookupIsFine, FetchIsFine, StoreIsFine, InvalidateIsFine DEF Step
<1>2. ASSUME NEW r \in Requests, Handle(r) PROVE IInv'
  <2>1. CASE Read(r) \/ Refused(r) \/ Create(r)
    BY <2>1, ReadIsFine, RefusedIsFine, CreateIsFine
  <2>2. CASE CreateLost(r) \/ Join(r) \/ Publish(r)
    BY <2>2, CreateLostIsFine, JoinIsFine, PublishIsFine
  <2>3. CASE Update(r) \/ MarkDeleted(r)
    BY <2>3, UpdateIsFine, MarkDeletedIsFine
  <2>4. CASE LockSession(r) \/ InsertMessage(r) \/ FileItem(r)
    BY <2>4, LockSessionIsFine, InsertMessageIsFine, FileItemIsFine
  <2> QED BY <1>2, <2>1, <2>2, <2>3, <2>4 DEF Handle
<1>3. ASSUME NEW t \in Requests, Take(t) PROVE IInv'
  BY <1>3, TakeIsFine
<1>4. CASE Delete
  BY <1>4, SweepIsFine, DeleteSessionIsFine, DeletionFailsIsFine, MarkProcessedIsFine DEF Delete
<1>5. CASE Interrupted
  BY <1>5, InterruptedIsFine
<1>6. CASE Expire
  BY <1>6, ExpireIsFine
<1>7. CASE UNCHANGED vars
  <2>1. UNCHANGED <<row, cache, lastId, messages, lock, items, tasks, failed, op, at, copy,
                    seq, retried, result, job, mishaps, hidden>>
    BY <1>7 DEF vars, queue
  <2>2. Types' /\ References' /\ Flow'
    BY <2>1 DEF IInv, Types, References, Flow, Copies, Stored
  <2>3. Numbering' /\ Racing' /\ Hiding'
    BY <2>1 DEF IInv, Numbering, PostsInOrder, Racing, OneWinner, Hiding, DeletionHides, Shows
  <2> QED BY <2>2, <2>3 DEF IInv
<1> QED BY <1>1, <1>2, <1>3, <1>4, <1>5, <1>6, <1>7 DEF Next, Progress

LEMMA Invariance == Spec => []IInv
BY InitIsFine, StepIsFine, PTL DEF Spec

\* What is stored refers to what exists, however requests, the deletion task and
\* the cache interleave: the row has the last identity, a queue item its message,
\* the lock its reader (TypeOK).
THEOREM TypeOKHolds == Spec => []TypeOK
<1>1. IInv => TypeOK
  BY TypesSuffice DEF IInv
<1> QED BY <1>1, Invariance, PTL

\* However many requests race to create a session, one that loses gets the session,
\* unless another one was created since (get_or_create_session).
THEOREM OneWinnerHolds == Spec => []OneWinner
<1>1. IInv => OneWinner
  BY DEF IInv, Racing
<1> QED BY <1>1, Invariance, PTL

\* Posts never collide on a sequence number and are numbered in the order of
\* their ids, deletions and new sessions of the name included (create_messages).
THEOREM PostsInOrderHolds == Spec => []PostsInOrder
<1>1. IInv => PostsInOrder
  BY DEF IInv, Numbering
<1> QED BY <1>1, Invariance, PTL

\* The cache never shows a session as active whose deletion was acknowledged while
\* nobody held an older copy (the deletion route).
THEOREM DeletionHidesHolds == Spec => []DeletionHides
<1>1. IInv => DeletionHides
  BY DEF IInv, Hiding
<1> QED BY <1>1, Invariance, PTL
===============================================================================
