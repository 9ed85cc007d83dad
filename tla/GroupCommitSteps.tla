-------------------------- MODULE GroupCommitSteps --------------------------
(***************************************************************************)
(* The inductive invariant of one WAL shard, and the lemmas that it holds  *)
(* initially and through every step of the callers and of wal_task.        *)
(***************************************************************************)
EXTENDS GroupCommit, FiniteSetTheorems, WellFoundedInduction, TLAPS

\* The steps between numbering a batch and answering it.
Writing == {"write", "sync", "fail", "publish", "reply"}

\* A message comes from the kind of caller that sends it.
Sender(m) == /\ m.type = "append" => m.from \in Clients
             /\ m.type = "drain" => m.from \in Drainers
             /\ m.type = "rotate" => m.from \in Rotators

\* Who waits where: a caller has at most one message, in the channel or in the
\* batch, and the callers of the frames being written wait for their answer.
CallInv ==
  /\ \A i \in DOMAIN queue : Sender(queue[i]) /\ status[queue[i].from] = "sent"
  /\ \A i \in DOMAIN batch : /\ Sender(batch[i]) /\ status[batch[i].from] # "idle"
                             /\ pc = "collect" => status[batch[i].from] = "sent"
  /\ \A i, j \in DOMAIN queue : i # j => queue[i].from # queue[j].from
  /\ \A i \in DOMAIN queue, j \in DOMAIN batch : queue[i].from # batch[j].from
  /\ pc \in Writing => \A i \in DOMAIN out :
       status[out[i].from] = "sent" /\ \E j \in DOMAIN batch : batch[j].from = out[i].from
  /\ pc \in Writing => out # <<>>
  /\ pc \notin Writing \cup {"rotate"} => out = <<>>
  /\ pc \in {"recv", "down"} => batch = <<>>
  /\ pc = "down" => queue = <<>>

\* The numbers on disk, and the names of the files, are bounded.
BoundInv ==
  \E b \in Nat : \A n \in DOMAIN disk : n <= b /\ \A i \in DOMAIN disk[n] : disk[n][i].seq <= b

\* The frames being written carry the last numbers given out, above every
\* number published.
NumberInv ==
  /\ last_seq <= current_seq
  /\ \A i \in DOMAIN out : out[i].seq = current_seq - Len(out) + i /\ out[i].ok
  /\ pc \in Writing \ {"reply"} => last_seq <= current_seq - Len(out)
  /\ pc = "reply" => last_seq = current_seq

\* The open file is the newest, and new numbers are above those on disk.
OrderInv ==
  /\ pc # "down" => file <= current_segment /\ \A n \in DOMAIN disk : n <= file
  /\ pc = "down" => crashes > 0
  /\ crashes = 0 => \A n \in DOMAIN disk : \A i \in DOMAIN disk[n] :
       disk[n][i].seq <= IF pc = "write" THEN current_seq - Len(out) ELSE current_seq

\* Types, callers and numbers: what holds whatever fails.
BInv == TypeOK /\ CallInv /\ BoundInv /\ NumberInv /\ OrderInv /\ ReplyIsPublished /\ LogIsOrdered

-----------------------------------------------------------------------------
(* Steps that leave the numbers or the files alone *)

\* A step that ends a batch, or only forgets its messages, gives out no number.
LEMMA NumberKept ==
  ASSUME NumberInv, DOMAIN out' = {}, pc' \notin Writing, pc' # "reply",
         \A i \in DOMAIN batch' : i \in DOMAIN batch /\ batch'[i] = batch[i],
         UNCHANGED <<current_seq, last_seq, queue>>
  PROVE  NumberInv'
BY DEF NumberInv

\* The drain step neither writes nor opens a file, and keeps their order.
LEMMA DrainOrder ==
  ASSUME BoundInv, OrderInv, LogIsOrdered, TaskDrain
  PROVE  BoundInv' /\ OrderInv' /\ LogIsOrdered'
<1>1. /\ pc = "drain" /\ pc' = "explicit"
      /\ UNCHANGED <<disk, file, current_segment, current_seq, crashes>>
  BY Zenon DEF TaskDrain, diskVars
<1> QED BY <1>1 DEF BoundInv, OrderInv, LogIsOrdered

-----------------------------------------------------------------------------
(* Lemmas about the operators *)

\* A set of naturals has a smallest element.
LEMMA SmallestExists ==
  ASSUME NEW T \in SUBSET Nat, T # {}
  PROVE  \E x \in T : \A y \in T : x <= y
<1> DEFINE R == {ss \in Nat \X Nat : ss[1] < ss[2]}
<1>1. IsWellFoundedOn(R, Nat)
  BY NatLessThanWellFounded, Zenon DEF OpToRel
<1>2. PICK x \in T : \A y \in T : <<y, x>> \notin R
  <2> HIDE DEF R
  <2> QED BY <1>1, WFMin, Zenon
<1>3. \A y \in T : x <= y
  <2> SUFFICES ASSUME NEW y \in T, ~(x <= y) PROVE FALSE
    BY Zenon
  <2>1. x \in Nat /\ y \in Nat /\ y < x
    OBVIOUS
  <2> QED BY <1>2, <2>1, Zenon
<1> QED BY <1>3, Zenon

\* A bounded set of naturals has a largest element, which Max returns.
LEMMA MaxExists ==
  ASSUME NEW S \in SUBSET Nat, S # {}, NEW b \in Nat, \A x \in S : x <= b
  PROVE  Max(S) \in S /\ \A y \in S : y <= Max(S)
<1> DEFINE U == {u \in Nat : \A x \in S : x <= u}
<1>1. U # {} /\ U \in SUBSET Nat
  BY Zenon
<1>2. PICK u \in U : \A v \in U : u <= v
  <2> HIDE DEF U
  <2> QED BY <1>1, SmallestExists, Zenon
<1>3. u \in S
  <2> SUFFICES ASSUME u \notin S PROVE FALSE
    BY Zenon
  <2>1. \A x \in S : x \in Nat /\ x < u
    OBVIOUS
  <2>2. u \in Nat /\ u # 0
    <3>1. PICK x \in S : TRUE
      BY Zenon
    <3>2. u \in Nat
      BY Zenon
    <3> QED BY <2>1, <3>1, <3>2
  <2>3. u - 1 \in Nat /\ \A x \in S : x <= u - 1
    BY <2>1, <2>2
  <2> QED BY <1>2, <2>2, <2>3
<1>4. \E x \in S : \A y \in S : x >= y
  BY <1>3, Zenon
<1>5. Max(S) \in S /\ \A y \in S : Max(S) >= y
  <2> HIDE DEF U
  <2> QED BY <1>4, Zenon DEF Max
<1> QED BY <1>5, Zenon

\* A finite set of positions has a k-th smallest element for every k up to its
\* size.
LEMMA NthExists ==
  ASSUME NEW at \in SUBSET (Nat \ {0}), IsFiniteSet(at), NEW k \in 1 .. Cardinality(at)
  PROVE  Nth(at, k) \in at
<1> DEFINE Upto(i) == {j \in at : j <= i}
           Bad == {n \in 1 .. Cardinality(at) : \A i \in at : Cardinality(Upto(i)) # n}
<1>1. Cardinality(at) \in Nat /\ \A j \in at : j \in Nat /\ j > 0
  BY FS_CardinalityType
<1>2. ASSUME Bad # {} PROVE FALSE
  <2>1. PICK n \in Bad : \A m \in Bad : n <= m
    <3>1. Bad \in SUBSET Nat
      BY <1>1
    <3> HIDE DEF Bad
    <3> QED BY <1>2, <3>1, SmallestExists, Zenon
  <2>2. PICK p \in Nat : /\ IsFiniteSet({j \in at : j <= p}) /\ Cardinality({j \in at : j <= p}) = n - 1
    <3>1. CASE n = 1
      <4>1. \A j \in at : ~(j <= 0)
        BY <1>1
      <4>2. {j \in at : j <= 0} = {}
        BY <4>1, Zenon
      <4> QED BY <3>1, <4>2, FS_EmptySet
    <3>2. CASE n # 1
      <4>1. n - 1 \in 1 .. Cardinality(at) /\ n - 1 \notin Bad
        BY <1>1, <2>1, <3>2
      <4>2. PICK i \in at : Cardinality(Upto(i)) = n - 1
        BY <4>1, Zenon
      <4>3. IsFiniteSet(Upto(i))
        BY FS_Subset, Zenon
      <4> QED BY <4>2, <4>3, Zenon
    <3> QED BY <3>1, <3>2, Zenon
  <2> DEFINE Above == {j \in at : j > p}
  <2>3. Above # {}
    <3> SUFFICES ASSUME Above = {} PROVE FALSE
      BY Zenon
    <3>1. \A j \in at : j <= p
      BY <1>1
    <3>2. {j \in at : j <= p} = at
      BY <3>1, Zenon
    <3> QED BY <1>1, <2>1, <2>2, <3>2
  <2>4. PICK q \in Above : \A j \in Above : q <= j
    <3>1. Above \in SUBSET Nat
      BY Zenon
    <3> HIDE DEF Above
    <3> QED BY <2>3, <3>1, SmallestExists, Zenon
  <2>5. Upto(q) = {j \in at : j <= p} \cup {q} /\ q \notin {j \in at : j <= p}
    <3>1. q \in at /\ q \in Nat /\ q > p
      BY <1>1, <2>4, Zenon
    <3>2. \A j \in at : j <= q <=> j <= p \/ j = q
      BY <1>1, <2>4, <3>1
    <3>3. q \notin {j \in at : j <= p}
      BY <3>1
    <3>4. Upto(q) = {j \in at : j <= p} \cup {q}
      BY <3>1, <3>2, Zenon
    <3> QED BY <3>3, <3>4, Zenon
  <2>6. Cardinality(Upto(q)) = n
    <3> DEFINE Low == {j \in at : j <= p}
    <3>1. Cardinality(Low \cup {q}) = Cardinality(Low) + 1
      <4> HIDE DEF Low
      <4> QED BY <2>2, <2>5, FS_AddElement, Zenon DEF Low
    <3> QED BY <1>1, <2>1, <2>2, <2>5, <3>1
  <2> QED BY <2>1, <2>4, <2>6, Zenon
<1>3. \E i \in at : Cardinality({j \in at : j <= i}) = k
  BY <1>2, Zenon
<1> HIDE DEF Bad
<1> QED BY <1>3, Zenon DEF Nth

\* OfType returns messages of the type it is asked for.
LEMMA OfTypeFacts ==
  ASSUME NEW msgs \in Seq(Message), NEW type
  PROVE  /\ OfType(msgs, type) \in Seq(Message)
         /\ \A k \in DOMAIN OfType(msgs, type) : \E i \in DOMAIN msgs :
              OfType(msgs, type)[k] = msgs[i] /\ msgs[i].type = type
<1> DEFINE at == {i \in DOMAIN msgs : msgs[i].type = type}
<1>1. at \in SUBSET (Nat \ {0}) /\ at \subseteq 1 .. Len(msgs)
  OBVIOUS
<1>2. IsFiniteSet(at)
  <2>1. IsFiniteSet(1 .. Len(msgs))
    BY FS_Interval
  <2> QED BY <1>1, <2>1, FS_Subset, Zenon
<1>3. Cardinality(at) \in Nat
  BY <1>2, FS_CardinalityType, Zenon
<1>4. \A k \in 1 .. Cardinality(at) : Nth(at, k) \in at
  <2> HIDE DEF at
  <2> QED BY <1>1, <1>2, NthExists, Zenon
<1>5. OfType(msgs, type) = [k \in 1 .. Cardinality(at) |-> msgs[Nth(at, k)]]
  BY Zenon DEF OfType
<1>6. \A k \in 1 .. Cardinality(at) : msgs[Nth(at, k)] \in Message
  BY <1>4
<1> DEFINE F == [k \in 1 .. Cardinality(at) |-> msgs[Nth(at, k)]]
<1>7. F \in Seq(Message)
  <2> HIDE DEF at
  <2> QED BY <1>3, <1>6
<1>8. \A k \in DOMAIN F : F[k] = msgs[Nth(at, k)] /\ Nth(at, k) \in at
  <2> HIDE DEF at
  <2> QED BY <1>4, Zenon
<1> QED BY <1>5, <1>7, <1>8, Zenon

\* The frames of a batch: numbered in a row above base, whole, of clients whose
\* appends are in the batch.
LEMMA FramesFacts ==
  ASSUME NEW msgs \in Seq(Message), NEW base \in Nat, \A i \in DOMAIN msgs : Sender(msgs[i])
  PROVE  /\ Frames(msgs, base) \in Seq(FrameType)
         /\ \A k \in DOMAIN Frames(msgs, base) :
              /\ Frames(msgs, base)[k].seq = base + k /\ Frames(msgs, base)[k].ok
              /\ \E i \in DOMAIN msgs : Frames(msgs, base)[k].from = msgs[i].from
<1> DEFINE A == OfType(msgs, "append")
           F == [k \in DOMAIN A |-> [seq |-> base + k, from |-> A[k].from, ok |-> TRUE]]
<1>1. /\ A \in Seq(Message)
      /\ \A k \in DOMAIN A : \E i \in DOMAIN msgs : A[k] = msgs[i] /\ msgs[i].type = "append"
  BY OfTypeFacts, Zenon
<1>2. Frames(msgs, base) = F
  BY Zenon DEF Frames
<1> HIDE DEF A
<1>3. Len(A) \in Nat /\ DOMAIN A = 1 .. Len(A)
  BY <1>1
<1>4. \A k \in 1 .. Len(A) : [seq |-> base + k, from |-> A[k].from, ok |-> TRUE] \in FrameType
  BY <1>1, <1>3 DEF FrameType, Sender
<1>5. F \in Seq(FrameType)
  BY <1>3, <1>4
<1>6. \A k \in DOMAIN F : /\ F[k].seq = base + k /\ F[k].ok
                          /\ \E i \in DOMAIN msgs : F[k].from = msgs[i].from
  BY <1>1, <1>3, Zenon
<1> QED BY <1>2, <1>5, <1>6

-----------------------------------------------------------------------------
(* Types, callers and numbers *)

\* What the type invariant says of the messages, frames and files.
LEMMA Typed ==
  ASSUME TypeOK
  PROVE  /\ DOMAIN queue = 1 .. Len(queue) /\ Len(queue) \in Nat
         /\ DOMAIN batch = 1 .. Len(batch) /\ Len(batch) \in Nat
         /\ DOMAIN out = 1 .. Len(out) /\ Len(out) \in Nat
         /\ \A i \in DOMAIN queue : queue[i].from \in Callers /\ queue[i].seq \in Nat
         /\ \A i \in DOMAIN batch : batch[i].from \in Callers /\ batch[i].seq \in Nat
         /\ \A i \in DOMAIN out :
              out[i].from \in Clients /\ out[i].from \in Callers /\ out[i].seq \in Nat
         /\ \A n \in DOMAIN disk : /\ n \in Nat /\ Len(disk[n]) \in Nat
                                  /\ DOMAIN disk[n] = 1 .. Len(disk[n])
                                  /\ synced[n] \in Nat /\ synced[n] <= Len(disk[n])
         /\ \A n \in DOMAIN disk : \A i \in DOMAIN disk[n] :
              /\ disk[n][i].from \in Clients /\ disk[n][i].from \in Callers
              /\ disk[n][i].seq \in Nat
<1>1. /\ DOMAIN queue = 1 .. Len(queue) /\ Len(queue) \in Nat
      /\ DOMAIN batch = 1 .. Len(batch) /\ Len(batch) \in Nat
      /\ DOMAIN out = 1 .. Len(out) /\ Len(out) \in Nat
  BY DEF TypeOK
<1>2. \A m \in Message : m.from \in Callers /\ m.seq \in Nat
  BY Zenon DEF Message
<1>3. \A f \in FrameType : f.from \in Clients /\ f.from \in Callers /\ f.seq \in Nat
  BY Zenon DEF FrameType, Callers
<1>4. /\ \A i \in DOMAIN queue : queue[i] \in Message
      /\ \A i \in DOMAIN batch : batch[i] \in Message
      /\ \A i \in DOMAIN out : out[i] \in FrameType
  BY DEF TypeOK
<1>5. \A n \in DOMAIN disk : /\ n \in Nat /\ Len(disk[n]) \in Nat
                             /\ DOMAIN disk[n] = 1 .. Len(disk[n])
                             /\ synced[n] \in Nat /\ synced[n] <= Len(disk[n])
  BY DEF TypeOK
<1>6. \A n \in DOMAIN disk : \A i \in DOMAIN disk[n] : disk[n][i] \in FrameType
  BY DEF TypeOK
<1> QED BY <1>1, <1>2, <1>3, <1>4, <1>5, <1>6, Zenon

\* The readable frames of the first k frames of a file, by their place.
LEMMA ReadablePrefix ==
  ASSUME NEW fs \in Seq(FrameType), NEW k \in 0 .. Len(fs)
  PROVE  Readable(SubSeq(fs, 1, k)) = {fs[i] : i \in {j \in 1 .. k : \A l \in 1 .. j : fs[l].ok}}
<1> DEFINE s == SubSeq(fs, 1, k)
<1>1. k \in Nat /\ Len(s) = k /\ \A i \in 1 .. k : s[i] = fs[i]
  OBVIOUS
<1>2. Readable(s) = {s[i] : i \in {j \in 1 .. Len(s) : \A l \in 1 .. j : s[l].ok}}
  BY Zenon DEF Readable
<1> HIDE DEF s
<1>3. \A j \in 1 .. k : \A l \in 1 .. j : s[l] = fs[l]
  BY <1>1
<1>4. Readable(s) = {fs[i] : i \in {j \in 1 .. k : \A l \in 1 .. j : fs[l].ok}}
  BY <1>1, <1>2, <1>3
<1> QED BY <1>4, Zenon DEF s

\* The durable frames of a segment, by their place in the file.
LEMMA DurableIs ==
  ASSUME TypeOK, NEW n \in DOMAIN disk
  PROVE  Durable(n) = {disk[n][i] : i \in {j \in 1 .. synced[n] : \A k \in 1 .. j : disk[n][k].ok}}
<1>1. disk[n] \in Seq(FrameType) /\ synced[n] \in 0 .. Len(disk[n])
  BY Zenon DEF TypeOK
<1> QED BY <1>1, ReadablePrefix, Zenon DEF Durable

\* An I/O error is recorded, within the bound.
LEMMA FaultTyped ==
  ASSUME TypeOK, NEW kind, Fault(kind)
  PROVE  faults' \in Seq(FaultKinds) /\ Len(faults') <= MaxFaults
BY BoundsAssumption DEF TypeOK, Fault

\* The initial state satisfies the invariant.
LEMMA InitB == Init => BInv
<1> SUFFICES ASSUME Init PROVE BInv
  BY Zenon
<1> USE DEF Init
<1>1. TypeOK
  BY BoundsAssumption DEF TypeOK
<1>2. CallInv /\ NumberInv
  BY DEF CallInv, NumberInv, Writing
<1>3. BoundInv
  BY DEF BoundInv
<1>4. OrderInv /\ LogIsOrdered
  BY DEF OrderInv, LogIsOrdered
<1>5. ReplyIsPublished
  BY Zenon DEF ReplyIsPublished, Callers
<1> QED BY <1>1, <1>2, <1>3, <1>4, <1>5, Zenon DEF BInv

\* A caller puts its message into the channel.
LEMMA SendB ==
  ASSUME BInv, NEW c \in Callers, NEW msg \in Message, msg.from = c, Sender(msg),
         Send(c, msg), released' \subseteq Clients, watermark' \in Nat
  PROVE  BInv'
<1> USE DEF BInv, Send, writerVars, diskVars
<1>0. /\ queue' \in Seq(Message) /\ Len(queue') = Len(queue) + 1
      /\ \A i \in DOMAIN queue' : queue'[i] = IF i = Len(queue) + 1 THEN msg ELSE queue[i]
      /\ DOMAIN queue' = 1 .. Len(queue) + 1 /\ DOMAIN queue = 1 .. Len(queue) /\ Len(queue) \in Nat
  BY DEF TypeOK
<1>1. TypeOK'
  <2>1. Len(queue') <= Capacity
    BY <1>0, BoundsAssumption
  <2>2. status' \in [Callers -> {"idle", "sent", "ok", "err", "cut"}]
    BY Zenon DEF TypeOK
  <2> QED BY <1>0, <2>1, <2>2, SMTT(30) DEF TypeOK
<1>2. CallInv'
  <2>a. /\ \A x \in Callers : status'[x] = IF x = c THEN "sent" ELSE status[x]
        /\ status[c] = "idle"
    BY Zenon DEF TypeOK
  <2>b. /\ \A i \in DOMAIN queue : queue[i].from \in Callers /\ queue[i].from # c
        /\ \A i \in DOMAIN batch : batch[i].from \in Callers /\ batch[i].from # c
        /\ \A i \in DOMAIN out : out[i].from \in Callers
    BY <2>a, Typed, Zenon DEF CallInv
  <2>1. \A i \in DOMAIN queue' : Sender(queue'[i]) /\ status'[queue'[i].from] = "sent"
    BY <1>0, <2>a, <2>b DEF CallInv
  <2>2. \A i \in DOMAIN batch : /\ Sender(batch[i]) /\ status'[batch[i].from] # "idle"
                                /\ pc = "collect" => status'[batch[i].from] = "sent"
    BY <2>a, <2>b DEF CallInv
  <2>3. \A i, j \in DOMAIN queue' : i # j => queue'[i].from # queue'[j].from
    BY <1>0, <2>b DEF CallInv
  <2>4. \A i \in DOMAIN queue', j \in DOMAIN batch : queue'[i].from # batch[j].from
    BY <1>0, <2>b DEF CallInv
  <2>5. pc \in Writing => \A i \in DOMAIN out : status'[out[i].from] = "sent"
    BY <2>a, <2>b DEF CallInv
  <2> QED BY <2>1, <2>2, <2>3, <2>4, <2>5 DEF CallInv, Sender
<1>3. NumberInv'
  BY <1>0 DEF NumberInv, TypeOK
<1>4. BoundInv' /\ OrderInv' /\ LogIsOrdered'
  BY DEF BoundInv, OrderInv, LogIsOrdered
<1>5. ReplyIsPublished'
  BY DEF ReplyIsPublished, TypeOK
<1> QED BY <1>1, <1>2, <1>3, <1>4, <1>5, Zenon

\* The callers' steps.
LEMMA CallerB ==
  ASSUME BInv, Caller
  PROVE  BInv'
<1>1. ASSUME NEW c \in Clients, SendAppend(c) PROVE BInv'
  <2> DEFINE msg == [type |-> "append", from |-> c, seq |-> 0]
  <2>1. c \in Callers /\ msg \in Message /\ msg.from = c /\ msg.type = "append"
    BY Zenon DEF Message, Callers
  <2>2. Sender(msg)
    BY Zenon DEF Sender
  <2>3. Send(c, msg) /\ released' \subseteq Clients /\ watermark' \in Nat
    BY <1>1, Zenon DEF SendAppend, BInv, TypeOK
  <2> HIDE DEF msg
  <2> QED BY <2>1, <2>2, <2>3, SendB, Zenon
<1>2. ASSUME NEW c \in Rotators, SendRotate(c) PROVE BInv'
  <2> DEFINE msg == [type |-> "rotate", from |-> c, seq |-> 0]
  <2>1. c \in Callers /\ msg \in Message /\ msg.from = c /\ msg.type = "rotate"
    BY Zenon DEF Message, Callers
  <2>2. Sender(msg)
    BY Zenon DEF Sender
  <2>3. Send(c, msg) /\ released' \subseteq Clients /\ watermark' \in Nat
    BY <1>2, Zenon DEF SendRotate, BInv, TypeOK
  <2> HIDE DEF msg
  <2> QED BY <2>1, <2>2, <2>3, SendB, Zenon
<1>3. ASSUME NEW d \in Drainers, NEW q \in {watermark} \cup 1 .. last_seq, SendDrain(d, q) PROVE BInv'
  <2> DEFINE msg == [type |-> "drain", from |-> d, seq |-> q]
  <2>0. q \in Nat
    <3>1. watermark \in Nat /\ last_seq \in Nat
      BY Zenon DEF BInv, TypeOK
    <3> QED BY <3>1
  <2>1. d \in Callers /\ msg \in Message /\ msg.from = d /\ msg.type = "drain" /\ msg.seq = q
    BY <2>0, Zenon DEF Message, Callers
  <2>2. Sender(msg)
    BY Zenon DEF Sender
  <2>3. Send(d, msg) /\ watermark' \in Nat
    BY <1>3, <2>0, Zenon DEF SendDrain, BInv, TypeOK
  <2>4. released' \subseteq Clients
    <3>1. \A n \in DOMAIN disk : \A f \in Durable(n) : f.from \in Clients
      BY DurableIs, Typed DEF BInv
    <3>2. released \subseteq Clients
      BY Zenon DEF BInv, TypeOK
    <3> DEFINE S == {f.from : f \in {g \in UNION {Durable(n) : n \in DOMAIN disk} : g.seq <= q}}
    <3>3. S \subseteq Clients
      BY <3>1, Zenon
    <3>4. released' = released \/ released' = released \cup S
      BY <1>3, Zenon DEF SendDrain
    <3> HIDE DEF S
    <3> QED BY <3>2, <3>3, <3>4, Zenon
  <2> HIDE DEF msg
  <2> QED BY <2>0, <2>1, <2>2, <2>3, <2>4, SendB, Zenon
<1>4. ASSUME NEW d \in Drainers, NEW n \in paths[d], RemoveFile(d, n) PROVE BInv'
  <2> USE <1>4 DEF RemoveFile, BInv, taskVars, writerVars
  <2>0. /\ DOMAIN disk' = DOMAIN disk \ {n} /\ DOMAIN synced' = DOMAIN disk \ {n}
        /\ \A m \in DOMAIN disk' : disk'[m] = disk[m] /\ synced'[m] = synced[m]
    BY Zenon DEF TypeOK
  <2>1. TypeOK'
    <3>1. paths' \in [Drainers -> SUBSET Nat]
      BY Zenon DEF TypeOK
    <3> QED BY <2>0, <3>1, Zenon DEF TypeOK
  <2>2. CallInv' /\ NumberInv'
    BY Zenon DEF CallInv, NumberInv, Sender
  <2>3. BoundInv'
    BY <2>0, Zenon DEF BoundInv
  <2>4. OrderInv'
    BY <2>0, Zenon DEF OrderInv
  <2>5. LogIsOrdered'
    BY <2>0 DEF LogIsOrdered
  <2>6. ReplyIsPublished'
    BY Zenon DEF ReplyIsPublished
  <2> QED BY <2>1, <2>2, <2>3, <2>4, <2>5, <2>6, Zenon
<1> QED BY <1>1, <1>2, <1>3, <1>4, Zenon DEF Caller

\* The task takes the message at the head of the channel.
LEMMA TakeB ==
  ASSUME BInv, TaskRecv \/ TaskCollect
  PROVE  BInv'
<1> USE DEF callerVars, writerVars, diskVars
<1>0. /\ queue # <<>> /\ queue' = Tail(queue) /\ batch' = Append(batch, Head(queue))
      /\ Len(batch) < MaxBatch /\ pc \in {"recv", "collect"} /\ pc' = "collect"
      /\ batch # <<>> => pc = "collect"
      /\ UNCHANGED <<callerVars, out, last_seq, writerVars, diskVars, released, watermark,
                     faults, crashes>>
  <2>1. CASE TaskCollect
    BY <2>1, Zenon DEF TaskCollect, BInv, CallInv
  <2>2. CASE TaskRecv
    <3>1. batch = <<>> /\ Head(queue) \in Message
      BY <2>2 DEF TaskRecv, BInv, CallInv, TypeOK
    <3>2. <<Head(queue)>> = Append(batch, Head(queue)) /\ Len(batch) = 0
      BY <3>1
    <3> QED BY <2>2, <3>1, <3>2, BoundsAssumption DEF TaskRecv
  <2> QED BY <2>1, <2>2, Zenon
<1> USE DEF BInv
<1>1. /\ queue' \in Seq(Message) /\ Len(queue') = Len(queue) - 1 /\ DOMAIN queue' = 1 .. Len(queue) - 1
      /\ \A i \in DOMAIN queue' : i + 1 \in DOMAIN queue /\ queue'[i] = queue[i + 1]
      /\ 1 \in DOMAIN queue /\ Len(queue) \in Nat
  BY <1>0, SMTT(30) DEF TypeOK
<1>2. /\ batch' \in Seq(Message) /\ Len(batch') = Len(batch) + 1
      /\ DOMAIN batch' = 1 .. Len(batch) + 1 /\ DOMAIN batch = 1 .. Len(batch) /\ Len(batch) \in Nat
      /\ \A i \in DOMAIN batch' : batch'[i] = IF i = Len(batch) + 1 THEN queue[1] ELSE batch[i]
  BY <1>0, <1>1 DEF TypeOK
<1>3. TypeOK'
  <2>1. Len(queue') <= Capacity /\ Len(batch') <= MaxBatch
    BY <1>0, <1>1, <1>2, BoundsAssumption, SMTT(30) DEF TypeOK
  <2> QED BY <1>0, <1>1, <1>2, <2>1, Zenon DEF TypeOK
<1>4. CallInv'
  <2>1. \A i \in DOMAIN queue' : Sender(queue'[i]) /\ status[queue'[i].from] = "sent"
    BY <1>1 DEF CallInv
  <2>2. \A i \in DOMAIN batch' : Sender(batch'[i]) /\ status[batch'[i].from] = "sent"
    BY <1>0, <1>1, <1>2 DEF CallInv
  <2>3. \A i, j \in DOMAIN queue' : i # j => queue'[i].from # queue'[j].from
    BY <1>1 DEF CallInv
  <2>4. \A i \in DOMAIN queue', j \in DOMAIN batch' : queue'[i].from # batch'[j].from
    BY <1>1, <1>2, SMTT(30) DEF CallInv
  <2> QED BY <1>0, <2>1, <2>2, <2>3, <2>4, Zenon DEF CallInv, Sender, Writing
<1>5. NumberInv'
  BY <1>0, Zenon DEF NumberInv, Writing
<1>6. BoundInv' /\ OrderInv' /\ LogIsOrdered' /\ ReplyIsPublished'
  BY <1>0 DEF BoundInv, OrderInv, LogIsOrdered, ReplyIsPublished
<1> QED BY <1>3, <1>4, <1>5, <1>6, Zenon

\* The batch is numbered.
LEMMA GatherB ==
  ASSUME BInv, TaskGather
  PROVE  BInv'
<1> DEFINE frames == Frames(batch, current_seq)
           rotates == OfType(batch, "rotate")
           S == IF rotates = <<>> THEN {} ELSE From(Tail(rotates))
<1>1. /\ pc = "collect" /\ out' = frames /\ current_seq' = current_seq + Len(frames)
      /\ pc' = IF frames = <<>> THEN "rotate" ELSE "write"
      /\ status' = [c \in Callers |-> IF c \in S THEN "err" ELSE status[c]]
      /\ UNCHANGED <<got, paths, queue, batch, last_seq, current_size, current_segment, file,
                     completed_segments, disk, synced, released, watermark, faults, crashes>>
  BY Zenon DEF TaskGather, Answer, diskVars
<1>2. \A c \in S : c \in Rotators /\ \E i \in DOMAIN batch : batch[i].from = c
  <2>1. /\ rotates \in Seq(Message)
        /\ \A k \in DOMAIN rotates : \E i \in DOMAIN batch :
             rotates[k] = batch[i] /\ batch[i].type = "rotate"
    BY OfTypeFacts, Zenon DEF BInv, TypeOK
  <2> SUFFICES ASSUME NEW c \in S PROVE c \in Rotators /\ \E i \in DOMAIN batch : batch[i].from = c
    BY Zenon
  <2> HIDE DEF rotates
  <2>2. rotates # <<>> /\ c \in From(Tail(rotates))
    BY Zenon
  <2>3. PICK k \in DOMAIN Tail(rotates) : c = Tail(rotates)[k].from
    BY <2>2, Zenon DEF From, Range
  <2>4. k + 1 \in DOMAIN rotates /\ Tail(rotates)[k] = rotates[k + 1]
    BY <2>1, <2>2, <2>3
  <2>5. PICK i \in DOMAIN batch : rotates[k + 1] = batch[i] /\ batch[i].type = "rotate"
    BY <2>1, <2>4, Zenon
  <2> QED BY <2>3, <2>4, <2>5, Zenon DEF BInv, CallInv, Sender
<1>3. /\ frames \in Seq(FrameType)
      /\ \A k \in DOMAIN frames : /\ frames[k].seq = current_seq + k /\ frames[k].ok
                                  /\ \E i \in DOMAIN batch : frames[k].from = batch[i].from
  BY FramesFacts, Zenon DEF BInv, TypeOK, CallInv
<1> HIDE DEF frames, S
<1> USE DEF BInv
<1>4. Len(frames) \in Nat /\ DOMAIN frames = 1 .. Len(frames)
      /\ \A k \in DOMAIN frames : frames[k] \in FrameType
  BY <1>3
<1>5. TypeOK'
  <2>1. status' \in [Callers -> {"idle", "sent", "ok", "err", "cut"}]
    BY <1>1, Zenon DEF TypeOK
  <2>2. current_seq' \in Nat
    BY <1>1, <1>4 DEF TypeOK
  <2> QED BY <1>1, <1>3, <2>1, <2>2, SMTT(30) DEF TypeOK
<1>6. CallInv'
  <2>1. /\ \A i \in DOMAIN queue : Sender(queue[i]) /\ status'[queue[i].from] = "sent"
        /\ \A i \in DOMAIN batch : Sender(batch[i]) /\ status'[batch[i].from] # "idle"
    BY <1>1, <1>2, Typed DEF CallInv
  <2>2. \A k \in DOMAIN frames : frames[k].from \in Clients /\ frames[k].from \notin S
    BY <1>2, <1>4, CallersAssumption, Zenon DEF FrameType
  <2>3. \A k \in DOMAIN frames : status'[frames[k].from] = "sent"
    BY <1>1, <1>3, <2>2 DEF CallInv, Callers
  <2>4. UNCHANGED <<queue, batch>> /\ out' = frames /\ pc' \in {"rotate", "write"} /\ pc' \notin {"collect", "recv", "down"}
        /\ (pc' = "rotate" <=> frames = <<>>)
    BY <1>1
  <2>5. pc' \in Writing \cup {"rotate"} /\ (pc' \in Writing <=> pc' = "write")
    BY <2>4, Zenon DEF Writing
  <2> QED BY <1>3, <2>1, <2>3, <2>4, <2>5, ZenonT(30) DEF CallInv
<1>7. NumberInv'
  BY <1>1, <1>3, <1>4 DEF NumberInv, TypeOK, Writing
<1>8. BoundInv' /\ LogIsOrdered'
  <2>1. UNCHANGED <<disk, crashes>>
    BY <1>1, Zenon
  <2> QED BY <2>1 DEF BoundInv, LogIsOrdered
<1>9. OrderInv'
  <2>1. current_seq = IF pc' = "write" THEN current_seq' - Len(out') ELSE current_seq'
    BY <1>1, <1>4 DEF TypeOK
  <2>2. pc \notin {"write", "down"} /\ pc' # "down"
    BY <1>1, Zenon
  <2> QED BY <1>1, <2>1, <2>2, Zenon DEF OrderInv
<1>10. ReplyIsPublished'
  BY <1>1, <1>2, CallersAssumption, Zenon DEF ReplyIsPublished, Callers
<1> QED BY <1>5, <1>6, <1>7, <1>8, <1>9, <1>10, Zenon

\* Frames of the batch are written behind what the open file holds.
LEMMA WriteB ==
  ASSUME BInv, pc = "write", pc' \in {"sync", "fail"},
         NEW fs \in Seq(FrameType), Len(fs) <= Len(out),
         \A i \in DOMAIN fs : fs[i].seq = out[i].seq, WriteTo(fs),
         faults' \in Seq(FaultKinds), Len(faults') <= MaxFaults,
         UNCHANGED <<callerVars, queue, batch, out, last_seq, writerVars, synced,
                     released, watermark, crashes>>
  PROVE  BInv'
<1> USE DEF BInv, callerVars, writerVars
<1>1. /\ DOMAIN disk' = DOMAIN disk
      /\ \A n \in DOMAIN disk : n # file => disk'[n] = disk[n]
      /\ file \in DOMAIN disk => disk'[file] = disk[file] \o fs
  BY Zenon DEF WriteTo
<1>2. /\ Len(fs) \in Nat /\ DOMAIN fs = 1 .. Len(fs) /\ current_seq \in Nat /\ file \in Nat
      /\ Len(out) \in Nat /\ DOMAIN out = 1 .. Len(out) /\ last_seq \in Nat
  BY DEF TypeOK
<1>3. /\ last_seq <= current_seq - Len(out) /\ current_seq - Len(out) \in Nat
      /\ \A i \in DOMAIN fs : fs[i].seq = current_seq - Len(out) + i
  <2>1. last_seq <= current_seq - Len(out) /\ \A i \in DOMAIN out : out[i].seq = current_seq - Len(out) + i
    BY Zenon DEF NumberInv, Writing
  <2> QED BY <1>2, <2>1
<1> DEFINE Old(n) == 1 .. Len(disk[n])
<1>4. \A n \in DOMAIN disk :
        /\ n \in Nat /\ disk[n] \in Seq(FrameType) /\ Len(disk[n]) \in Nat /\ DOMAIN disk[n] = Old(n)
        /\ \A i \in Old(n) : disk[n][i].seq \in Nat
  BY Typed, Zenon DEF TypeOK
<1>5. \A n \in DOMAIN disk :
        /\ disk'[n] \in Seq(FrameType) /\ Len(disk[n]) <= Len(disk'[n])
        /\ DOMAIN disk'[n] = 1 .. Len(disk'[n]) /\ Len(disk'[n]) \in Nat
        /\ \A i \in Old(n) : i \in DOMAIN disk'[n] /\ disk'[n][i] = disk[n][i]
        /\ \A i \in DOMAIN disk'[n] \ Old(n) : /\ n = file /\ i - Len(disk[n]) \in DOMAIN fs
                                               /\ disk'[n][i] = fs[i - Len(disk[n])]
  <2> SUFFICES ASSUME NEW n \in DOMAIN disk
               PROVE  /\ disk'[n] \in Seq(FrameType) /\ Len(disk[n]) <= Len(disk'[n])
                      /\ DOMAIN disk'[n] = 1 .. Len(disk'[n]) /\ Len(disk'[n]) \in Nat
                      /\ \A i \in Old(n) : i \in DOMAIN disk'[n] /\ disk'[n][i] = disk[n][i]
                      /\ \A i \in DOMAIN disk'[n] \ Old(n) :
                           /\ n = file /\ i - Len(disk[n]) \in DOMAIN fs
                           /\ disk'[n][i] = fs[i - Len(disk[n])]
    BY Zenon
  <2>1. CASE n # file
    BY <1>1, <1>4, <2>1
  <2>2. CASE n = file
    <3>1. /\ disk'[n] = disk[n] \o fs /\ disk[n] \in Seq(FrameType) /\ Len(disk[n]) \in Nat
      BY <1>1, <1>4, <2>2, Zenon
    <3>2. /\ disk[n] \o fs \in Seq(FrameType) /\ Len(disk[n] \o fs) = Len(disk[n]) + Len(fs)
          /\ \A i \in 1 .. Len(disk[n]) + Len(fs) :
               (disk[n] \o fs)[i] = IF i <= Len(disk[n]) THEN disk[n][i] ELSE fs[i - Len(disk[n])]
      BY <3>1
    <3> QED BY <1>2, <2>2, <3>1, <3>2
  <2> QED BY <2>1, <2>2, Zenon
<1>6. \A n \in DOMAIN disk : \A i \in DOMAIN disk'[n] \ Old(n) :
        /\ n = file /\ i \in Nat /\ i > Len(disk[n])
        /\ disk'[n][i].seq = current_seq - Len(out) + (i - Len(disk[n]))
        /\ disk'[n][i].seq > current_seq - Len(out) /\ disk'[n][i].seq <= current_seq
  <2> SUFFICES ASSUME NEW n \in DOMAIN disk, NEW i \in DOMAIN disk'[n] \ Old(n)
               PROVE  /\ n = file /\ i \in Nat /\ i > Len(disk[n])
                      /\ disk'[n][i].seq = current_seq - Len(out) + (i - Len(disk[n]))
                      /\ disk'[n][i].seq > current_seq - Len(out) /\ disk'[n][i].seq <= current_seq
    BY Zenon
  <2>1. i \in Nat /\ Len(disk[n]) \in Nat /\ i > Len(disk[n])
    BY <1>4, <1>5
  <2>2. /\ n = file /\ i - Len(disk[n]) \in 1 .. Len(fs)
        /\ disk'[n][i].seq = current_seq - Len(out) + (i - Len(disk[n]))
    BY <1>2, <1>3, <1>5, Zenon
  <2> QED BY <1>2, <1>3, <2>1, <2>2
<1>7. TypeOK'
  <2>1. \A n \in DOMAIN disk' : disk'[n] \in Seq(FrameType) /\ synced'[n] \in 0 .. Len(disk'[n])
    BY <1>1, <1>4, <1>5, SMTT(30) DEF TypeOK
  <2> QED BY <1>1, <2>1, Zenon DEF TypeOK
<1>8. CallInv' /\ NumberInv' /\ ReplyIsPublished'
  BY Zenon DEF CallInv, NumberInv, ReplyIsPublished, Sender, Writing
<1>9. BoundInv'
  <2>1. PICK b \in Nat : \A n \in DOMAIN disk : n <= b /\ \A i \in DOMAIN disk[n] : disk[n][i].seq <= b
    BY Zenon DEF BoundInv
  <2>2. \A n \in DOMAIN disk : n <= b + current_seq
    BY <1>2, <1>4, <2>1
  <2>3. \A n \in DOMAIN disk : \A i \in DOMAIN disk'[n] : disk'[n][i].seq <= b + current_seq
    <3> SUFFICES ASSUME NEW n \in DOMAIN disk, NEW i \in DOMAIN disk'[n]
                 PROVE  disk'[n][i].seq <= b + current_seq
      BY Zenon
    <3>1. CASE i \in Old(n)
      BY <1>2, <1>4, <1>5, <2>1, <3>1, SMTT(30)
    <3>2. CASE i \notin Old(n)
      BY <1>2, <1>3, <1>6, <2>1, <3>2
    <3> QED BY <3>1, <3>2, Zenon
  <2>4. b + current_seq \in Nat
    BY <1>2, <2>1
  <2> QED BY <1>1, <2>2, <2>3, <2>4, Zenon DEF BoundInv
<1>10. OrderInv'
  <2>1. crashes = 0 => \A n \in DOMAIN disk : \A i \in DOMAIN disk'[n] : disk'[n][i].seq <= current_seq
    <3> SUFFICES ASSUME crashes = 0, NEW n \in DOMAIN disk, NEW i \in DOMAIN disk'[n]
                 PROVE  disk'[n][i].seq <= current_seq
      BY Zenon
    <3>1. CASE i \in Old(n)
      <4>1. disk[n][i].seq <= current_seq - Len(out)
        BY <1>4, <3>1, Zenon DEF OrderInv
      <4> QED BY <1>2, <1>3, <1>4, <1>5, <3>1, <4>1
    <3>2. CASE i \notin Old(n)
      BY <1>6, <3>2, Zenon
    <3> QED BY <3>1, <3>2, Zenon
  <2> QED BY <1>1, <2>1, Zenon DEF OrderInv
<1>11. LogIsOrdered'
  <2> SUFFICES ASSUME crashes = 0, NEW m \in DOMAIN disk, NEW n \in DOMAIN disk,
                      NEW i \in DOMAIN disk'[m], NEW j \in DOMAIN disk'[n],
                      m < n \/ (m = n /\ i < j)
               PROVE  disk'[m][i].seq < disk'[n][j].seq
    BY <1>1, Zenon DEF LogIsOrdered
  <2>1. CASE i \in Old(m) /\ j \in Old(n)
    <3>1. disk[m][i].seq < disk[n][j].seq
      BY <1>4, <2>1, Zenon DEF LogIsOrdered
    <3> QED BY <1>5, <2>1, <3>1, Zenon
  <2>2. CASE i \in Old(m) /\ j \notin Old(n)
    <3>1. disk[m][i].seq <= current_seq - Len(out)
      BY <1>4, <2>2, Zenon DEF OrderInv
    <3>2. disk'[n][j].seq > current_seq - Len(out) /\ disk'[n][j].seq \in Nat
      BY <1>2, <1>3, <1>6, <2>2, SMTT(30)
    <3>3. disk'[m][i] = disk[m][i] /\ disk[m][i].seq \in Nat
      BY <1>4, <1>5, <2>2, Zenon
    <3> QED BY <1>3, <3>1, <3>2, <3>3
  <2>3. CASE i \notin Old(m)
    <3>1. m = file /\ i > Len(disk[m]) /\ i \in Nat
      BY <1>6, <2>3, Zenon
    <3>2. n <= file
      BY Zenon DEF OrderInv
    <3>3. m = n /\ i < j
      BY <1>2, <1>4, <3>1, <3>2
    <3>4. j \notin Old(n) /\ j \in Nat
      BY <1>4, <1>5, <3>1, <3>3
    <3>5. /\ disk'[m][i].seq = current_seq - Len(out) + (i - Len(disk[m]))
          /\ disk'[n][j].seq = current_seq - Len(out) + (j - Len(disk[m]))
      BY <1>6, <2>3, <3>3, <3>4, Zenon
    <3>6. Len(disk[m]) \in Nat
      BY <1>4, Zenon
    <3> QED BY <1>3, <3>1, <3>3, <3>4, <3>5, <3>6
  <2> QED BY <2>1, <2>2, <2>3, Zenon
<1> QED BY <1>7, <1>8, <1>9, <1>10, <1>11, Zenon

\* write_all, whole or cut.
LEMMA WritesB ==
  ASSUME BInv, TaskWrite \/ TaskWriteFail
  PROVE  BInv'
<1> USE DEF callerVars, writerVars
<1>1. out \in Seq(FrameType) /\ Len(out) \in Nat /\ DOMAIN out = 1 .. Len(out)
  BY DEF BInv, TypeOK
<1>2. CASE TaskWrite
  <2>1. Len(out) <= Len(out)
    BY <1>1
  <2>2. faults' \in Seq(FaultKinds) /\ Len(faults') <= MaxFaults
    BY <1>2, Zenon DEF TaskWrite, BInv, TypeOK
  <2> QED BY <1>1, <1>2, <2>1, <2>2, WriteB, Zenon DEF TaskWrite
<1>3. CASE TaskWriteFail
  <2>1. PICK k \in 0 .. Len(out) - 1 :
          \/ WriteTo(SubSeq(out, 1, k))
          \/ WriteTo(Append(SubSeq(out, 1, k), [out[k + 1] EXCEPT !.ok = FALSE]))
    BY <1>3, Zenon DEF TaskWriteFail
  <2> DEFINE s == SubSeq(out, 1, k)
             f == [out[k + 1] EXCEPT !.ok = FALSE]
  <2>2. /\ s \in Seq(FrameType) /\ Len(s) = k /\ \A i \in 1 .. k : s[i] = out[i]
        /\ k \in Nat /\ k + 1 <= Len(out) /\ k + 1 \in DOMAIN out
    BY <1>1
  <2>3. f \in FrameType /\ f.seq = out[k + 1].seq
    <3>1. out[k + 1] \in FrameType
      BY <1>1, <2>2
    <3> QED BY <3>1, Zenon DEF FrameType
  <2> HIDE DEF s, f
  <2>4. /\ Append(s, f) \in Seq(FrameType) /\ Len(Append(s, f)) = k + 1
        /\ \A i \in 1 .. k + 1 : Append(s, f)[i] = IF i = k + 1 THEN f ELSE s[i]
    BY <2>2, <2>3
  <2>5. \E fs \in Seq(FrameType) : Len(fs) <= Len(out) /\ (\A i \in DOMAIN fs : fs[i].seq = out[i].seq)
                                   /\ WriteTo(fs)
    <3>1. CASE WriteTo(SubSeq(out, 1, k))
      <4>1. Len(s) <= Len(out) /\ \A i \in DOMAIN s : s[i].seq = out[i].seq
        BY <1>1, <2>2
      <4> QED BY <2>2, <3>1, <4>1, Zenon DEF s
    <3>2. CASE WriteTo(Append(SubSeq(out, 1, k), [out[k + 1] EXCEPT !.ok = FALSE]))
      <4>1. /\ Len(Append(s, f)) <= Len(out)
            /\ \A i \in DOMAIN Append(s, f) : Append(s, f)[i].seq = out[i].seq
        BY <1>1, <2>2, <2>3, <2>4
      <4> QED BY <2>4, <3>2, <4>1, Zenon DEF s, f
    <3> QED BY <2>1, <3>1, <3>2, Zenon
  <2>6. /\ pc = "write" /\ pc' = "fail"
        /\ UNCHANGED <<callerVars, queue, batch, out, last_seq, writerVars, synced,
                       released, watermark, crashes>>
    BY <1>3, Zenon DEF TaskWriteFail
  <2>7. faults' \in Seq(FaultKinds) /\ Len(faults') <= MaxFaults
    <3>1. Fault("write") \/ Fault("torn")
      BY <1>3, Zenon DEF TaskWriteFail
    <3> QED BY <3>1, FaultTyped, Zenon DEF BInv
  <2> QED BY <2>5, <2>6, <2>7, WriteB, Zenon
<1> QED BY <1>2, <1>3, Zenon

\* A failed fsync.
LEMMA SyncFailB ==
  ASSUME BInv, TaskSyncFail
  PROVE  BInv'
<1> USE DEF BInv, TaskSyncFail, callerVars, writerVars, diskVars
<1>1. TypeOK'
  <2>1. faults' \in Seq(FaultKinds) /\ Len(faults') <= MaxFaults
    BY FaultTyped, Zenon
  <2> QED BY <2>1, Zenon DEF TypeOK
<1>2. CallInv' /\ NumberInv'
  BY Zenon DEF CallInv, NumberInv, Sender, Writing
<1>3. BoundInv' /\ OrderInv' /\ LogIsOrdered' /\ ReplyIsPublished'
  BY DEF BoundInv, OrderInv, LogIsOrdered, ReplyIsPublished
<1> QED BY <1>1, <1>2, <1>3, Zenon

\* fsync.
LEMMA SyncB ==
  ASSUME BInv, TaskSync
  PROVE  BInv'
<1> USE DEF BInv, TaskSync, callerVars
<1>1. TypeOK'
  <2>1. /\ DOMAIN synced' = DOMAIN disk
        /\ \A n \in DOMAIN disk : synced'[n] \in 0 .. Len(disk[n])
    <3>1. DOMAIN synced = DOMAIN disk /\ \A n \in DOMAIN disk : synced[n] \in 0 .. Len(disk[n]) /\ disk[n] \in Seq(FrameType)
      BY Zenon DEF TypeOK
    <3> QED BY <3>1
  <2>2. current_size' \in Nat
    BY DEF TypeOK
  <2> QED BY <2>1, <2>2, Zenon DEF TypeOK
<1>2. CallInv' /\ NumberInv'
  BY Zenon DEF CallInv, NumberInv, Sender, Writing
<1>3. BoundInv' /\ OrderInv' /\ LogIsOrdered' /\ ReplyIsPublished'
  BY DEF BoundInv, OrderInv, LogIsOrdered, ReplyIsPublished
<1> QED BY <1>1, <1>2, <1>3, Zenon

\* The error arm answers the batch.
LEMMA FailB ==
  ASSUME BInv, TaskFail
  PROVE  BInv'
<1> DEFINE S == {c \in From(batch) : status[c] = "sent"}
<1>1. /\ pc = "fail" /\ batch' = <<>> /\ out' = <<>> /\ pc' = "recv"
      /\ status' = [c \in Callers |-> IF c \in S THEN "err" ELSE status[c]]
      /\ UNCHANGED <<got, paths, queue, last_seq, writerVars, diskVars, released,
                     watermark, faults, crashes>>
  BY Zenon DEF TaskFail, Answer
<1>2. \A c \in S : \E i \in DOMAIN batch : batch[i].from = c
  BY Zenon DEF From, Range
<1> HIDE DEF S
<1> USE DEF BInv, writerVars, diskVars
<1>3. TypeOK'
  <2>1. status' \in [Callers -> {"idle", "sent", "ok", "err", "cut"}]
    BY <1>1, Zenon DEF TypeOK
  <2>2. batch' \in Seq(Message) /\ Len(batch') <= MaxBatch /\ out' \in Seq(FrameType)
    BY <1>1, BoundsAssumption
  <2> QED BY <1>1, <2>1, <2>2, Zenon DEF TypeOK
<1>4. CallInv'
  <2>1. \A i \in DOMAIN queue : Sender(queue[i]) /\ status'[queue[i].from] = "sent"
    BY <1>1, <1>2, Typed, Zenon DEF CallInv
  <2>2. UNCHANGED queue /\ DOMAIN batch' = {} /\ batch' = <<>> /\ out' = <<>>
    BY <1>1
  <2>3. pc' = "recv" /\ pc' \notin Writing
    BY <1>1, Zenon DEF Writing
  <2> QED BY <2>1, <2>2, <2>3, Zenon DEF CallInv
<1>5. NumberInv'
  <2>1. /\ last_seq <= current_seq /\ UNCHANGED <<last_seq, current_seq>>
        /\ pc' = "recv" /\ pc' \notin Writing /\ pc' # "reply"
    BY <1>1, Zenon DEF NumberInv, Writing
  <2>2. DOMAIN out' = {}
    BY <1>1
  <2> QED BY <2>1, <2>2, Zenon DEF NumberInv
<1>6. BoundInv' /\ OrderInv' /\ LogIsOrdered' /\ ReplyIsPublished'
  BY <1>1 DEF BoundInv, OrderInv, LogIsOrdered, ReplyIsPublished, Callers
<1> QED BY <1>3, <1>4, <1>5, <1>6, Zenon

\* The last number of the batch is published.
LEMMA PublishB ==
  ASSUME BInv, TaskPublish
  PROVE  BInv'
<1> USE DEF BInv, TaskPublish, callerVars, writerVars, diskVars
<1>1. last_seq' = current_seq /\ last_seq <= last_seq' /\ last_seq' \in Nat
  <2>1. /\ out \in Seq(FrameType) /\ out # <<>> /\ \A i \in DOMAIN out : out[i].seq = current_seq - Len(out) + i
        /\ last_seq \in Nat /\ current_seq \in Nat /\ last_seq <= current_seq
    BY Zenon DEF TypeOK, CallInv, NumberInv, Writing
  <2>2. Len(out) \in DOMAIN out /\ Len(out) \in Nat
    BY <2>1
  <2> QED BY <2>1, <2>2
<1>2. TypeOK'
  BY <1>1, Zenon DEF TypeOK
<1>3. CallInv'
  <2>1. UNCHANGED <<queue, batch, out, status>> /\ pc \in Writing /\ pc' \in Writing /\ pc' \notin {"collect", "recv", "down"}
    BY Zenon DEF Writing
  <2> HIDE DEF TaskPublish
  <2> QED BY <2>1 DEF CallInv, Sender
<1>4. NumberInv'
  <2>1. last_seq' <= current_seq /\ last_seq' = current_seq /\ pc' = "reply" /\ UNCHANGED <<current_seq, out>>
    BY <1>1
  <2> HIDE DEF TaskPublish
  <2> QED BY <2>1, Zenon DEF NumberInv
<1>5. BoundInv' /\ OrderInv' /\ LogIsOrdered'
  BY DEF BoundInv, OrderInv, LogIsOrdered
<1>6. ReplyIsPublished'
  <2>1. UNCHANGED <<crashes, status, got>> /\ last_seq \in Nat /\ \A c \in Clients : got[c] \in Nat
    BY Zenon DEF TypeOK
  <2> QED BY <1>1, <2>1 DEF ReplyIsPublished
<1> QED BY <1>2, <1>3, <1>4, <1>5, <1>6, Zenon

\* The appends are answered.
LEMMA ReplyB ==
  ASSUME BInv, TaskReply
  PROVE  BInv'
<1> DEFINE S == From(out)
<1>1. /\ pc = "reply" /\ pc' = "rotate"
      /\ status' = [c \in Callers |-> IF c \in S THEN "ok" ELSE status[c]]
      /\ got' = [c \in Clients |-> IF \E f \in Range(out) : f.from = c
                                   THEN (CHOOSE f \in Range(out) : f.from = c).seq ELSE got[c]]
      /\ UNCHANGED <<paths, queue, batch, out, last_seq, writerVars, diskVars,
                     released, watermark, faults, crashes>>
  BY Zenon DEF TaskReply, Answer
<1>2. /\ \A c \in S : \E f \in Range(out) : f.from = c
      /\ \A f \in Range(out) : f.from \in S /\ \E i \in DOMAIN out : f = out[i]
  BY Zenon DEF From, Range
<1> HIDE DEF S
<1> USE DEF BInv, writerVars, diskVars
<1>3. \A f \in Range(out) : f.seq \in Nat /\ f.seq <= last_seq
  <2>1. last_seq = current_seq /\ current_seq \in Nat /\ Len(out) \in Nat /\ DOMAIN out = 1 .. Len(out)
    BY <1>1 DEF NumberInv, TypeOK
  <2>2. \A i \in DOMAIN out : out[i].seq \in Nat /\ out[i].seq <= last_seq
    BY <2>1, Typed DEF NumberInv
  <2> QED BY <1>2, <2>2, Zenon
<1>4. \A c \in Clients : (\E f \in Range(out) : f.from = c) => got'[c] \in Nat /\ got'[c] <= last_seq
  <2> SUFFICES ASSUME NEW c \in Clients, \E f \in Range(out) : f.from = c
               PROVE  got'[c] \in Nat /\ got'[c] <= last_seq
    BY Zenon
  <2> DEFINE g == CHOOSE f \in Range(out) : f.from = c
  <2>1. got'[c] = g.seq
    BY <1>1, Zenon
  <2>2. g \in Range(out)
    BY Zenon
  <2> QED BY <1>3, <2>1, <2>2, Zenon
<1>5. \A c \in Clients : ~(\E f \in Range(out) : f.from = c) => got'[c] = got[c] /\ c \notin S
  BY <1>1, <1>2, Zenon
<1>6. TypeOK'
  <2>1. got' \in [Clients -> Nat]
    <3>1. got' = [c \in Clients |-> got'[c]] /\ \A c \in Clients : got'[c] \in Nat
      BY <1>1, <1>4, <1>5, Zenon DEF TypeOK
    <3> QED BY <3>1, Zenon
  <2> QED BY <1>1, <2>1, Zenon DEF TypeOK
<1>7. CallInv'
  <2>1. \A c \in S : \E i \in DOMAIN batch : batch[i].from = c
    <3>1. \A i \in DOMAIN out : \E j \in DOMAIN batch : batch[j].from = out[i].from
      BY <1>1, Zenon DEF CallInv, Writing
    <3> QED BY <1>2, <3>1
  <2>2. \A i \in DOMAIN queue : Sender(queue[i]) /\ status'[queue[i].from] = "sent"
    BY <1>1, <2>1, Typed, Zenon DEF CallInv
  <2>3. \A i \in DOMAIN batch : Sender(batch[i]) /\ status'[batch[i].from] # "idle"
    BY <1>1, Typed, Zenon DEF CallInv
  <2>4. pc' \notin Writing /\ pc' \in Writing \cup {"rotate"} /\ pc' \notin {"collect", "recv", "down"}
    BY <1>1 DEF Writing
  <2>5. UNCHANGED <<queue, batch, out>> /\ pc' # "collect" /\ pc' # "down"
    BY <1>1, <2>4
  <2> QED BY <2>2, <2>3, <2>4, <2>5, Zenon DEF CallInv
<1>8. NumberInv'
  BY <1>1, Zenon DEF NumberInv, Writing
<1>9. BoundInv' /\ OrderInv' /\ LogIsOrdered'
  BY <1>1 DEF BoundInv, OrderInv, LogIsOrdered
<1>10. ReplyIsPublished'
  BY <1>1, <1>4, <1>5, Zenon DEF ReplyIsPublished, Callers
<1> QED BY <1>6, <1>7, <1>8, <1>9, <1>10, Zenon

\* The writer stays as it is, rotates, or fails to rotate.
WriterStep ==
  \/ UNCHANGED <<writerVars, diskVars, faults>>
  \/ \E completed \in SUBSET Rotated : Rotate(completed)
  \/ RotateFail

\* A rotation, failed or not, loses no frame and adds none.
LEMMA WriterStepFacts ==
  ASSUME BInv, pc # "down", WriterStep
  PROVE  /\ current_seq' = current_seq /\ {current_size', current_segment', file'} \subseteq Nat
         /\ completed_segments' \subseteq [seg : Nat, max_seq : Nat \cup {U64MAX}]
         /\ faults' \in Seq(FaultKinds) /\ Len(faults') <= MaxFaults
         /\ DOMAIN disk' \subseteq Nat /\ DOMAIN synced' = DOMAIN disk' /\ DOMAIN disk \subseteq DOMAIN disk'
         /\ \A n \in DOMAIN disk' : disk'[n] \in Seq(FrameType) /\ synced'[n] \in 0 .. Len(disk'[n])
         /\ \A n \in DOMAIN disk : disk'[n] = disk[n] /\ synced'[n] = synced[n]
         /\ \A n \in DOMAIN disk' \ DOMAIN disk : disk'[n] = <<>> /\ n = current_segment + 1
         /\ file' <= current_segment' /\ \A n \in DOMAIN disk' : n <= file'
<1> USE DEF BInv, writerVars, diskVars
<1>1. Rotated \subseteq [seg : Nat, max_seq : Nat \cup {U64MAX}]
  BY DEF Rotated, TypeOK
<1>2. /\ file \in Nat /\ current_segment \in Nat /\ current_seq \in Nat /\ current_size \in Nat
      /\ file <= current_segment /\ \A n \in DOMAIN disk : n \in Nat /\ n <= file
      /\ DOMAIN synced = DOMAIN disk
  BY Zenon DEF TypeOK, OrderInv
<1>3. \A n \in DOMAIN disk : disk[n] \in Seq(FrameType) /\ synced[n] \in 0 .. Len(disk[n])
  BY Zenon DEF TypeOK
<1>4. CASE UNCHANGED <<writerVars, diskVars, faults>>
  BY <1>2, <1>3, <1>4, Zenon DEF TypeOK
<1>5. CASE RotateFail
  <2>1. Fault("rotate")
    BY <1>5, Zenon DEF RotateFail
  <2> QED BY <1>1, <1>2, <1>3, <1>5, <2>1, FaultTyped DEF RotateFail
<1>6. ASSUME NEW completed \in SUBSET Rotated, Rotate(completed)
      PROVE  /\ current_seq' = current_seq /\ {current_size', current_segment', file'} \subseteq Nat
             /\ completed_segments' \subseteq [seg : Nat, max_seq : Nat \cup {U64MAX}]
             /\ faults' \in Seq(FaultKinds) /\ Len(faults') <= MaxFaults
             /\ DOMAIN disk' \subseteq Nat /\ DOMAIN synced' = DOMAIN disk' /\ DOMAIN disk \subseteq DOMAIN disk'
             /\ \A n \in DOMAIN disk' : disk'[n] \in Seq(FrameType) /\ synced'[n] \in 0 .. Len(disk'[n])
             /\ \A n \in DOMAIN disk : disk'[n] = disk[n] /\ synced'[n] = synced[n]
             /\ \A n \in DOMAIN disk' \ DOMAIN disk : disk'[n] = <<>> /\ n = current_segment + 1
             /\ file' <= current_segment' /\ \A n \in DOMAIN disk' : n <= file'
  <2>1. /\ file' = current_segment + 1 /\ current_segment' = current_segment + 1 /\ current_size' = 0
        /\ completed_segments' = completed /\ current_seq' = current_seq /\ faults' = faults
        /\ DOMAIN disk' = DOMAIN disk \cup {current_segment + 1} /\ DOMAIN synced' = DOMAIN disk'
        /\ \A n \in DOMAIN disk' : /\ disk'[n] = IF n \in DOMAIN disk THEN disk[n] ELSE <<>>
                                   /\ synced'[n] = IF n \in DOMAIN disk THEN synced[n] ELSE 0
    BY <1>6, Zenon DEF Rotate
  <2>2. <<>> \in Seq(FrameType) /\ Len(<<>>) = 0
    OBVIOUS
  <2>3. \A n \in DOMAIN disk' : disk'[n] \in Seq(FrameType) /\ synced'[n] \in 0 .. Len(disk'[n])
    <3> SUFFICES ASSUME NEW n \in DOMAIN disk'
                 PROVE  disk'[n] \in Seq(FrameType) /\ synced'[n] \in 0 .. Len(disk'[n])
      BY Zenon
    <3>1. CASE n \in DOMAIN disk
      BY <1>3, <2>1, <3>1, Zenon
    <3>2. CASE n \notin DOMAIN disk
      <4>1. disk'[n] = <<>> /\ synced'[n] = 0
        BY <2>1, <3>2, Zenon
      <4> QED BY <2>2, <4>1
    <3> QED BY <3>1, <3>2, Zenon
  <2> QED BY <1>1, <1>2, <2>1, <2>3 DEF TypeOK
<1> QED BY <1>4, <1>5, <1>6, Zenon DEF WriterStep

\* A step in which the writer may rotate, the batch is at its end and nothing
\* else touches the disk.
LEMMA RotateB ==
  ASSUME BInv, pc \in {"rotate", "explicit"}, pc' \in {"drain", "recv"}, WriterStep,
         status' \in [Callers -> {"idle", "sent", "ok", "err", "cut"}],
         \A c \in Callers : status'[c] = status[c] \/
            (c \in Rotators /\ status'[c] # "idle" /\ \E i \in DOMAIN batch : batch[i].from = c),
         out' = <<>>, batch' = IF pc' = "recv" THEN <<>> ELSE batch,
         UNCHANGED <<got, paths, queue, last_seq, released, watermark, crashes>>
  PROVE  BInv'
<1> USE DEF BInv
<1>0. pc # "down"
  BY Zenon
<1>1. /\ current_seq' = current_seq /\ {current_size', current_segment', file'} \subseteq Nat
      /\ completed_segments' \subseteq [seg : Nat, max_seq : Nat \cup {U64MAX}]
      /\ faults' \in Seq(FaultKinds) /\ Len(faults') <= MaxFaults
      /\ DOMAIN disk' \subseteq Nat /\ DOMAIN synced' = DOMAIN disk' /\ DOMAIN disk \subseteq DOMAIN disk'
      /\ \A n \in DOMAIN disk' : disk'[n] \in Seq(FrameType) /\ synced'[n] \in 0 .. Len(disk'[n])
      /\ \A n \in DOMAIN disk : disk'[n] = disk[n] /\ synced'[n] = synced[n]
      /\ \A n \in DOMAIN disk' \ DOMAIN disk : disk'[n] = <<>> /\ n = current_segment + 1
      /\ file' <= current_segment' /\ \A n \in DOMAIN disk' : n <= file'
  BY <1>0, WriterStepFacts, Zenon
<1>2. \A n \in DOMAIN disk' : \A i \in DOMAIN disk'[n] :
        n \in DOMAIN disk /\ i \in DOMAIN disk[n] /\ disk'[n] = disk[n]
  BY <1>1
<1>3. TypeOK'
  <2>1. batch' \in Seq(Message) /\ Len(batch') <= MaxBatch
    BY BoundsAssumption DEF TypeOK
  <2>2. out' \in Seq(FrameType)
    OBVIOUS
  <2>3. /\ got' \in [Clients -> Nat] /\ paths' \in [Drainers -> SUBSET Nat]
        /\ queue' \in Seq(Message) /\ Len(queue') <= Capacity
        /\ released' \subseteq Clients /\ crashes' \in 0 .. MaxCrashes
    BY Zenon DEF TypeOK
  <2>4. pc' \in {"recv", "collect", "write", "sync", "fail", "publish", "reply",
                 "rotate", "drain", "explicit", "down"}
    OBVIOUS
  <2>5. {last_seq, current_seq, current_size, current_segment, file, watermark}' \subseteq Nat
    <3>1. last_seq \in Nat /\ current_seq \in Nat /\ watermark \in Nat
      BY Zenon DEF TypeOK
    <3>2. current_size' \in Nat /\ current_segment' \in Nat /\ file' \in Nat /\ current_seq' = current_seq
      BY <1>1, Zenon
    <3> QED BY <3>1, <3>2
  <2> QED BY <1>1, <2>1, <2>2, <2>3, <2>4, <2>5, Zenon DEF TypeOK
<1>4. CallInv'
  <2>1. \A i \in DOMAIN queue : Sender(queue[i]) /\ status'[queue[i].from] = "sent"
    BY Typed DEF CallInv
  <2>2. \A i \in DOMAIN batch : Sender(batch[i]) /\ status'[batch[i].from] # "idle"
    BY Typed, Zenon DEF CallInv
  <2>3. UNCHANGED queue /\ out' = <<>> /\ batch' = (IF pc' = "recv" THEN <<>> ELSE batch)
    OBVIOUS
  <2> QED BY <2>1, <2>2, <2>3 DEF CallInv, Sender, Writing
<1>5. NumberInv'
  <2>1. DOMAIN out' = {} /\ \A i \in DOMAIN batch' : i \in DOMAIN batch /\ batch'[i] = batch[i]
    OBVIOUS
  <2>2. pc' \notin Writing /\ pc' # "reply"
    BY DEF Writing
  <2>3. UNCHANGED <<current_seq, last_seq, queue>>
    BY <1>1, Zenon
  <2> QED BY <2>1, <2>2, <2>3, NumberKept, Zenon
<1>6. BoundInv'
  <2>1. PICK b \in Nat : \A n \in DOMAIN disk : n <= b /\ \A i \in DOMAIN disk[n] : disk[n][i].seq <= b
    BY Zenon DEF BoundInv
  <2>2. \A n \in DOMAIN disk' : n <= b + file' /\ \A i \in DOMAIN disk'[n] : disk'[n][i].seq <= b + file'
    <3>1. \A n \in DOMAIN disk' : n <= b + file'
      BY <1>1, <2>1
    <3>2. \A n \in DOMAIN disk' : \A i \in DOMAIN disk'[n] : disk'[n][i].seq <= b /\ disk'[n][i].seq \in Nat
      BY <1>2, <2>1, Typed, Zenon
    <3> QED BY <1>1, <2>1, <3>1, <3>2
  <2>3. b + file' \in Nat
    BY <1>1, <2>1
  <2> QED BY <2>2, <2>3, Zenon DEF BoundInv
<1>7. OrderInv'
  BY <1>1, <1>2, Zenon DEF OrderInv
<1>8. LogIsOrdered'
  BY <1>2, Zenon DEF LogIsOrdered
<1>9. ReplyIsPublished'
  BY CallersAssumption, Zenon DEF ReplyIsPublished, Callers
<1> QED BY <1>3, <1>4, <1>5, <1>6, <1>7, <1>8, <1>9, Zenon

\* The rotation of a full segment, and the one a caller asks for.
LEMMA RotatesB ==
  ASSUME BInv, TaskSizeRotate \/ TaskExplicit
  PROVE  BInv'
<1>1. CASE TaskSizeRotate
  <2>1. WriterStep
    BY <1>1, Zenon DEF TaskSizeRotate, WriterStep
  <2>2. /\ pc = "rotate" /\ pc' = "drain" /\ out' = <<>> /\ batch' = batch /\ status' = status
        /\ UNCHANGED <<got, paths, queue, last_seq, released, watermark, crashes>>
    BY <1>1, Zenon DEF TaskSizeRotate, callerVars
  <2>3. status' \in [Callers -> {"idle", "sent", "ok", "err", "cut"}]
    BY <2>2, Zenon DEF BInv, TypeOK
  <2> QED BY <2>1, <2>2, <2>3, RotateB, Zenon
<1>2. CASE TaskExplicit
  <2> DEFINE rotates == OfType(batch, "rotate")
  <2>1. /\ rotates \in Seq(Message)
        /\ \A k \in DOMAIN rotates : \E i \in DOMAIN batch :
             rotates[k] = batch[i] /\ batch[i].type = "rotate"
    BY OfTypeFacts, Zenon DEF BInv, TypeOK
  <2>2. /\ pc = "explicit" /\ pc' = "recv" /\ batch' = <<>>
        /\ UNCHANGED <<got, paths, queue, out, last_seq, released, watermark, crashes>>
        /\ \/ UNCHANGED <<status, writerVars, diskVars, faults>>
           \/ /\ rotates # <<>> /\ Rotate(Rotated \ Drainable(Rotated, U64MAX))
              /\ Answer({Head(rotates).from}, "ok")
           \/ rotates # <<>> /\ RotateFail /\ Answer({Head(rotates).from}, "err")
    BY <1>2, Zenon DEF TaskExplicit
  <2> HIDE DEF rotates
  <2>3. WriterStep
    BY <2>2, Zenon DEF WriterStep
  <2>4. rotates # <<>> =>
          /\ Head(rotates).from \in Rotators
          /\ \E i \in DOMAIN batch : batch[i].from = Head(rotates).from
    <3> SUFFICES ASSUME rotates # <<>>
                 PROVE  /\ Head(rotates).from \in Rotators
                        /\ \E i \in DOMAIN batch : batch[i].from = Head(rotates).from
      BY Zenon
    <3>1. Head(rotates) = rotates[1] /\ 1 \in DOMAIN rotates
      BY <2>1
    <3> QED BY <2>1, <3>1 DEF BInv, CallInv, Sender
  <2>5. /\ status' \in [Callers -> {"idle", "sent", "ok", "err", "cut"}]
        /\ \A c \in Callers : status'[c] = status[c] \/
             (c \in Rotators /\ status'[c] # "idle" /\ \E i \in DOMAIN batch : batch[i].from = c)
    <3>1. status \in [Callers -> {"idle", "sent", "ok", "err", "cut"}]
      BY Zenon DEF BInv, TypeOK
    <3>2. CASE UNCHANGED status
      BY <3>1, <3>2, Zenon
    <3>3. ASSUME NEW v \in {"ok", "err"}, rotates # <<>>, Answer({Head(rotates).from}, v)
          PROVE  /\ status' \in [Callers -> {"idle", "sent", "ok", "err", "cut"}]
                 /\ \A c \in Callers : status'[c] = status[c] \/
                      (c \in Rotators /\ status'[c] # "idle" /\ \E i \in DOMAIN batch : batch[i].from = c)
      <4> DEFINE h == Head(rotates).from
      <4>1. status' = [c \in Callers |-> IF c \in {h} THEN v ELSE status[c]]
        BY <3>3, Zenon DEF Answer
      <4>2. h \in Rotators /\ \E i \in DOMAIN batch : batch[i].from = h
        BY <2>4, <3>3, Zenon
      <4> HIDE DEF h
      <4> QED BY <3>1, <3>3, <4>1, <4>2
    <3> QED BY <2>2, <3>2, <3>3, Zenon
  <2>6. out' = <<>>
    BY <2>2, Zenon DEF BInv, CallInv, Writing
  <2> QED BY <2>2, <2>3, <2>5, <2>6, RotateB, Zenon
<1> QED BY <1>1, <1>2, Zenon

\* The drains of the batch are answered.
LEMMA DrainB ==
  ASSUME BInv, TaskDrain
  PROVE  BInv'
<1> DEFINE drains == Range(OfType(batch, "drain"))
           gone == IF drains = {} THEN {}
                   ELSE Drainable(completed_segments, Max({m.seq : m \in drains}))
           S == {m.from : m \in drains}
<1>1. /\ pc = "drain" /\ pc' = "explicit" /\ completed_segments' = completed_segments \ gone
      /\ paths' = [d \in Drainers |-> IF \E m \in drains : m.from = d
                                      THEN paths[d] \cup {c.seg : c \in gone} ELSE paths[d]]
      /\ status' = [c \in Callers |-> IF c \in S THEN "ok" ELSE status[c]]
      /\ UNCHANGED <<got, queue, batch, out, last_seq, current_seq, current_size,
                     current_segment, file, diskVars, released, watermark, faults, crashes>>
  BY Zenon DEF TaskDrain, Answer
<1>2. \A c \in S : c \in Drainers /\ \E i \in DOMAIN batch : batch[i].from = c
  <2>1. \A m \in drains : \E i \in DOMAIN batch : m = batch[i] /\ batch[i].type = "drain"
    BY OfTypeFacts DEF BInv, TypeOK, Range
  <2> QED BY <2>1 DEF BInv, CallInv, Sender
<1>3. gone \subseteq completed_segments
  BY Zenon DEF Drainable
<1> HIDE DEF drains, gone, S
<1> USE DEF BInv, diskVars
<1>4. TypeOK'
  <2>1. \A c \in gone : c.seg \in Nat
    BY <1>3, Zenon DEF TypeOK
  <2>2. paths' \in [Drainers -> SUBSET Nat]
    BY <1>1, <2>1 DEF TypeOK
  <2>3. status' \in [Callers -> {"idle", "sent", "ok", "err", "cut"}]
    BY <1>1, Zenon DEF TypeOK
  <2> QED BY <1>1, <2>2, <2>3, Zenon DEF TypeOK
<1>5. CallInv'
  <2>1. \A i \in DOMAIN queue : Sender(queue[i]) /\ status'[queue[i].from] = "sent"
    BY <1>1, <1>2, Typed, Zenon DEF CallInv
  <2>2. \A i \in DOMAIN batch : Sender(batch[i]) /\ status'[batch[i].from] # "idle"
    BY <1>1, Typed, Zenon DEF CallInv
  <2>3. UNCHANGED <<queue, batch, out>> /\ pc = "drain" /\ pc' = "explicit"
    BY <1>1, Zenon
  <2>4. pc \notin Writing /\ pc' \notin Writing \cup {"rotate", "recv", "down", "collect"}
    BY <2>3, Zenon DEF Writing
  <2> QED BY <2>1, <2>2, <2>3, <2>4, Zenon DEF CallInv
<1>6. NumberInv'
  BY <1>1, Zenon DEF NumberInv, Writing
<1>7. BoundInv' /\ OrderInv' /\ LogIsOrdered'
  BY DrainOrder, Zenon
<1>8. ReplyIsPublished'
  BY <1>1, <1>2, CallersAssumption, Zenon DEF ReplyIsPublished, Callers
<1> QED BY <1>4, <1>5, <1>6, <1>7, <1>8, Zenon

=============================================================================
