--------------------------- MODULE VirusScanProofs ---------------------------
(* Proofs about VirusScan for every set of bitstreams, items, consumer      *)
(* threads, scripts and faults.                                             *)
EXTENDS VirusScan, TLAPS

USE ScanAssumption

\* The wire of a session is empty but for the one answer awaited, and a scanner
\* between reading a file and recording its verdict has a current bitstream.
Wires ==
  \A s \in Scanners :
    /\ pc[s] \in {"idle", "next", "read", "decode"} => wire[s] = <<>>
    /\ (pc[s] = "post" /\ todo[s] # {}) => wire[s] = <<>>
    /\ pc[s] = "sent" => wire[s] # <<>>
    /\ pc[s] \in {"read", "sent", "decode", "post"} => cur[s] \in Bitstreams

TInv == TypeOK /\ Wires

LEMMA WireFacts ==
  ASSUME NEW a \in Answers
  PROVE  /\ Append(<<>>, a) = <<a>> /\ Head(<<a>>) = a /\ Tail(<<a>>) = <<>> /\ <<a>> # <<>>
  OBVIOUS

LEMMA ReplyType == ASSUME NEW x PROVE Reply(x) \in Answers
  BY DEF Reply, Answers

LEMMA JvmType == ASSUME NEW s \in Scanners PROVE Jvm(s) \in Jvms
  BY DEF Jvm, Jvms, Scanners

LEMMA InitTInv == Init => TInv
  <1>. SUFFICES ASSUME Init PROVE TInv
    OBVIOUS
  <1>1. TypeOK
    BY DEF Init, TypeOK, Nothing
  <1>2. Wires
    BY DEF Init, Wires
  <1>. QED
    BY <1>1, <1>2 DEF TInv

\* Opening a session.
LEMMA OpenTInv ==
  ASSUME TInv, NEW s \in Scanners, NEW bs \in SUBSET Bitstreams, NEW x \in Items,
         Open(s, bs, x), queue' \subseteq Items
  PROVE  TInv'
  <1>1. TypeOK'
    BY DEF TInv, TypeOK, Open
  <1>2. Wires'
    BY DEF TInv, TypeOK, Wires, Open
  <1>. QED
    BY <1>1, <1>2 DEF TInv

\* Reaching a verdict.
LEMMA JudgeTInv ==
  ASSUME TInv, NEW s \in Scanners, NEW v \in Results, Judge(s, v),
         cur[s] \in Bitstreams, v # "ERROR" => wire[s] = <<>>
  PROVE  TInv'
  <1>1. Left(s, v) \subseteq Bitstreams /\ (v = "ERROR" => Left(s, v) = {})
    BY DEF Left, TInv, TypeOK
  <1>2. TypeOK'
    BY <1>1 DEF TInv, TypeOK, Judge, store
  <1>3. Wires'
    BY <1>1 DEF TInv, TypeOK, Wires, Judge
  <1>. QED
    BY <1>2, <1>3 DEF TInv

\* The steps of scan.
LEMMA ScanTInv ==
  ASSUME TInv, NEW s \in Scanners, ScanStep(s)
  PROVE  TInv'
  <1>1. ASSUME NEW b \in Bitstreams, ReadChunk(s, b) PROVE TInv'
    <2>1. TypeOK'
      BY <1>1, JvmType DEF TInv, TypeOK, ReadChunk, store
    <2>2. Wires'
      BY <1>1 DEF TInv, TypeOK, Wires, ReadChunk
    <2>. QED
      BY <2>1, <2>2 DEF TInv
  <1>2. ASSUME NEW b \in Bitstreams, FileNotFound(s, b) PROVE TInv'
    <2>1. TypeOK'
      BY <1>2 DEF TInv, TypeOK, FileNotFound, store, Results
    <2>2. Wires'
      BY <1>2 DEF TInv, TypeOK, Wires, FileNotFound
    <2>. QED
      BY <2>1, <2>2 DEF TInv
  <1>3. CASE Send(s)
    <2>1. PICK a \in Answers : a = Reply(buffer[Jvm(s)])
      BY ReplyType
    <2>2. wire' = [wire EXCEPT ![s] = <<a>>]
      BY <1>3, <2>1, WireFacts DEF Send, TInv, Wires
    <2>3. TypeOK'
      <3>1. wire' \in [Scanners -> {<<>>} \cup {<<x>> : x \in Answers}]
        <4>1. <<a>> \in {<<x>> : x \in Answers}
          OBVIOUS
        <4>. QED
          BY <2>2, <4>1 DEF TInv, TypeOK
      <3>. QED
        BY <1>3, <3>1 DEF TInv, TypeOK, Send, store
    <2>4. Wires'
      BY <1>3, <2>2, WireFacts DEF TInv, TypeOK, Wires, Send
    <2>. QED
      BY <2>3, <2>4 DEF TInv
  <1>4. CASE Receive(s)
    <2>1. PICK a \in Answers : wire[s] = <<a>>
      BY <1>4 DEF Receive, TInv, TypeOK, Wires
    <2>2. /\ wire' = [wire EXCEPT ![s] = <<>>]
          /\ buffer' = [buffer EXCEPT ![Jvm(s)] = a]
      BY <1>4, <2>1, WireFacts DEF Receive
    <2>3. TypeOK'
      BY <1>4, <2>2, JvmType DEF TInv, TypeOK, Receive, store
    <2>4. Wires'
      BY <1>4, <2>2 DEF TInv, TypeOK, Wires, Receive
    <2>. QED
      BY <2>3, <2>4 DEF TInv
  <1>5. CASE NoAnswer(s)
    BY <1>5, JudgeTInv DEF NoAnswer, TInv, Wires, Results
  <1>6. CASE Decode(s)
    <2>1. PICK v \in {"VIRUS", "CLEAN"} : Judge(s, v)
      BY <1>6 DEF Decode
    <2>. QED
      BY <1>6, <2>1, JudgeTInv DEF Decode, TInv, Wires, Results
  <1>. QED
    BY <1>1, <1>2, <1>3, <1>4, <1>5, <1>6 DEF ScanStep

LEMMA HiddenType ==
  ASSUME TInv, NEW s \in Scanners, pc[s] = "post" PROVE Hidden(s) \subseteq Bitstreams
  BY DEF Hidden, TInv, Wires

\* Recording a verdict.
LEMMA PostTInv ==
  ASSUME TInv, NEW s \in Scanners, pc[s] = "post", AfterPost(s),
         Note(s) \/ UNCHANGED pend,
         accessible' \subseteq Bitstreams, hide' \in [Scanners -> SUBSET Bitstreams],
         UNCHANGED <<archived, result, queue, todo, cur, inWorkflow, buffer, wire, verdict>>
  PROVE  TInv'
  <1>1. cur[s] \in Bitstreams /\ verdict[s] \in Results \cup {None}
    BY DEF TInv, TypeOK, Wires
  <1>2. pend' \in [Scanners -> [Bitstreams -> Results \cup {None}]]
    <2>1. [pend[s] EXCEPT ![cur[s]] = verdict[s]] \in [Bitstreams -> Results \cup {None}]
      BY <1>1 DEF TInv, TypeOK
    <2>2. CASE Note(s)
      <3>1. pend' = [pend EXCEPT ![s] = [pend[s] EXCEPT ![cur[s]] = verdict[s]]]
        BY <2>2 DEF Note
      <3>. QED
        BY <2>1, <3>1 DEF TInv, TypeOK
    <2>. QED
      BY <2>2 DEF TInv, TypeOK
  <1>3. TypeOK'
    BY <1>2 DEF TInv, TypeOK, AfterPost
  <1>4. Wires'
    BY DEF TInv, TypeOK, Wires, AfterPost
  <1>. QED
    BY <1>3, <1>4 DEF TInv

LEMMA StoredType ==
  ASSUME TInv, NEW s \in Scanners PROVE Stored(s) \in [Bitstreams -> Results \cup {None}]
  BY DEF TInv, TypeOK, Stored

\* The scanners S end their transactions, or all they do.
LEMMA EndType ==
  ASSUME TInv, NEW S, EndTransaction(S)
  PROVE  /\ pend' \in [Scanners -> [Bitstreams -> Results \cup {None}]]
         /\ hide' \in [Scanners -> SUBSET Bitstreams]
  BY DEF TInv, TypeOK, EndTransaction, Nothing

LEMMA LeaveTInv ==
  ASSUME TInv, NEW S, Leave(S),
         archived' = archived, queue' \subseteq Items, accessible' \subseteq Bitstreams,
         result' \in [Bitstreams -> Results \cup {None}],
         buffer' \in [Jvms -> Bitstreams \cup Answers \cup {None}],
         pend' \in [Scanners -> [Bitstreams -> Results \cup {None}]],
         hide' \in [Scanners -> SUBSET Bitstreams]
  PROVE  TInv'
  <1>1. TypeOK'
    BY DEF TInv, TypeOK, Leave
  <1>2. Wires'
    BY DEF TInv, TypeOK, Wires, Leave
  <1>. QED
    BY <1>1, <1>2 DEF TInv

LEMMA NextTInv == TInv /\ [Next]_vars => TInv'
  <1>. SUFFICES ASSUME TInv, [Next]_vars PROVE TInv'
    OBVIOUS
  <1>. USE DEF Scanners
  <1>1. ASSUME NEW x \in Items, Install(x) PROVE TInv'
    <2>1. TypeOK'
      BY <1>1 DEF TInv, TypeOK, Install, scan, Contents
    <2>2. Wires'
      BY <1>1 DEF TInv, Wires, Install, scan
    <2>. QED
      BY <2>1, <2>2 DEF TInv
  <1>2. ASSUME NEW w \in Workers, NEW x \in Items, TakeItem(w, x) PROVE TInv'
    <2>1. Contents(x) \subseteq Bitstreams /\ queue' \subseteq Items
      BY <1>2 DEF Contents, TakeItem, TInv, TypeOK
    <2>. QED
      BY <1>2, <2>1, OpenTInv DEF TakeItem
  <1>3. ASSUME NEW w \in Workers, NEW x \in Items, ConnectFails(w, x) PROVE TInv'
    BY <1>3 DEF TInv, TypeOK, Wires, ConnectFails, scan
  <1>4. ASSUME NEW s \in Scanners, ScanStep(s) PROVE TInv'
    BY <1>4, ScanTInv
  <1>5. ASSUME NEW w \in Workers, PostConsumer(w) PROVE TInv'
    BY <1>5, PostTInv DEF PostConsumer, TInv, TypeOK
  <1>6. ASSUME NEW w \in Workers, PostConsumerFails(w) PROVE TInv'
    BY <1>6, PostTInv DEF PostConsumerFails, TInv, TypeOK, store
  <1>7. ASSUME NEW w \in Workers, FinishConsumer(w) PROVE TInv'
    <2>1. result' \in [Bitstreams -> Results \cup {None}]
      BY <1>7, StoredType DEF FinishConsumer, TInv, TypeOK
    <2>. QED
      BY <1>7, <2>1, LeaveTInv, EndType DEF FinishConsumer, Close, TInv, TypeOK
  <1>8. ASSUME NEW c \in Checkers, NEW b \in Bitstreams, TakeBitstream(c, b) PROVE TInv'
    BY <1>8, OpenTInv DEF TakeBitstream, TInv, TypeOK
  <1>9. ASSUME NEW c \in Checkers, PostChecker(c) PROVE TInv'
    <2>1. hide' \in [Scanners -> SUBSET Bitstreams]
      BY <1>9, HiddenType DEF PostChecker, TInv, TypeOK
    <2>. QED
      BY <1>9, <2>1, PostTInv DEF PostChecker, TInv, TypeOK, store
  <1>10. ASSUME NEW c \in Checkers, FinishChecker(c) PROVE TInv'
    BY <1>10, LeaveTInv DEF FinishChecker, Close, TInv, TypeOK
  <1>11. ASSUME NEW c \in Checkers, CommitChecker(c) PROVE TInv'
    <2>1. result' \in [Bitstreams -> Results \cup {None}]
      BY <1>11, StoredType DEF CommitChecker, TInv, TypeOK
    <2>2. accessible' \subseteq Bitstreams
      BY <1>11 DEF CommitChecker, TInv, TypeOK
    <2>3. TypeOK'
      BY <1>11, <2>1, <2>2, EndType DEF CommitChecker, TInv, TypeOK, scan
    <2>4. Wires'
      BY <1>11 DEF TInv, Wires, CommitChecker, scan
    <2>. QED
      BY <2>3, <2>4 DEF TInv
  <1>12. ASSUME NEW j \in Jvms, Crash(j) PROVE TInv'
    <2>1. buffer' \in [Jvms -> Bitstreams \cup Answers \cup {None}] /\ queue' \subseteq Items
      BY <1>12 DEF Crash, TInv, TypeOK
    <2>. QED
      BY <1>12, <2>1, LeaveTInv, EndType DEF Crash, TInv, TypeOK
  <1>13. CASE UNCHANGED vars
    BY <1>13 DEF TInv, TypeOK, Wires, vars, scanning, store, scan
  <1>. QED
    BY <1>1, <1>2, <1>3, <1>4, <1>5, <1>6, <1>7, <1>8, <1>9, <1>10, <1>11, <1>12, <1>13
       DEF Next, Step, Consumer, Script

\* Every reachable state has its types; in particular, no session ever has more
\* than one answer of clamd under way.
THEOREM ScanTypeCorrect == Spec => []TypeOK
  <1>1. Spec => []TInv
    BY InitTInv, NextTInv, PTL DEF Spec
  <1>2. TInv => TypeOK
    BY DEF TInv
  <1>. QED
    BY <1>1, <1>2, PTL

-----------------------------------------------------------------------------
(* Scans are atomic, while no two scanners of a JVM need the contents of    *)
(* its buffer at the same time.                                             *)

\* What s put into the buffer will still be read.
Holds(s) == pc[s] \in {"read", "decode"}

BufferAlone == \A s, t \in Scanners : Jvm(s) = Jvm(t) /\ Holds(s) /\ Holds(t) => s = t

\* What a scanner holds is about its current bitstream, from the contents in the
\* buffer to the verdict.
Honest(s) ==
  /\ pc[s] = "read" => buffer[Jvm(s)] = cur[s]
  /\ pc[s] = "sent" => wire[s] = <<Reply(cur[s])>>
  /\ pc[s] = "decode" => buffer[Jvm(s)] = Reply(cur[s])
  /\ pc[s] = "post" => verdict[s] \in Atomic!Verdicts(cur[s])

\* A session scans each bitstream once, and ends when nothing is left to scan.
Orderly(s) ==
  /\ pc[s] \in {"idle", "done"} => todo[s] = {}
  /\ pc[s] \in {"read", "sent", "decode", "post"} => cur[s] \notin todo[s]
  /\ pc[s] = "post" /\ Atomic!Ends(verdict[s]) => todo[s] = {}

SInv == /\ TInv
        /\ queue \subseteq archived
        /\ \A s \in Scanners : Honest(s) /\ Orderly(s)

LEMMA InitSInv == Init => SInv
  <1>. SUFFICES ASSUME Init PROVE SInv
    OBVIOUS
  <1>1. \A s \in Scanners : Honest(s) /\ Orderly(s)
    BY DEF Init, Honest, Orderly
  <1>. QED
    BY <1>1, InitTInv DEF Init, SInv

\* A scanner that stands still stays as it was, when others use the buffer only
\* while it does not need it.
LEMMA StandsStill ==
  ASSUME SInv, BufferAlone', NEW s \in Scanners, NEW t \in Scanners, t # s,
         pc'[t] = pc[t], todo'[t] = todo[t], cur'[t] = cur[t], wire'[t] = wire[t],
         verdict'[t] = verdict[t],
         \/ buffer' = buffer
         \/ Holds(s)' /\ \E v : buffer' = [buffer EXCEPT ![Jvm(s)] = v]
  PROVE  Honest(t)' /\ Orderly(t)'
  <1>1. Orderly(t)'
    BY DEF SInv, Orderly, Atomic!Ends
  <1>2. CASE Holds(t)
    <2>1. buffer'[Jvm(t)] = buffer[Jvm(t)]
      <3>1. CASE Holds(s)'
        <4>1. Holds(t)'
          BY <1>2 DEF Holds
        <4>2. Jvm(s) # Jvm(t)
          BY <3>1, <4>1 DEF BufferAlone, Jvm
        <4>. QED
          BY <4>2, JvmType DEF SInv, TInv, TypeOK
      <3>. QED
        BY <3>1
    <2>. QED
      BY <1>1, <2>1 DEF SInv, Honest
  <1>3. CASE ~Holds(t)
    BY <1>1, <1>3 DEF SInv, Honest, Holds
  <1>. QED
    BY <1>2, <1>3

LEMMA OpenSInv ==
  ASSUME SInv, BufferAlone', TInv', NEW s \in Scanners, NEW bs, NEW x, Open(s, bs, x),
         queue' \subseteq queue
  PROVE  SInv'
  <1>1. Honest(s)' /\ Orderly(s)'
    BY DEF SInv, TInv, TypeOK, Open, Honest, Orderly
  <1>2. ASSUME NEW t \in Scanners, t # s PROVE Honest(t)' /\ Orderly(t)'
    BY <1>2, StandsStill DEF SInv, TInv, TypeOK, Open
  <1>. QED
    BY <1>1, <1>2 DEF Open, SInv

LEMMA JudgeSInv ==
  ASSUME SInv, BufferAlone', TInv', NEW s \in Scanners, NEW v \in Atomic!Verdicts(cur[s]),
         pc[s] \in {"read", "sent", "decode"}, Judge(s, v)
  PROVE  SInv'
  <1>1. Honest(s)'
    BY DEF SInv, TInv, TypeOK, Judge, Honest
  <1>2. Orderly(s)'
    <2>1. /\ Left(s, v) \subseteq todo[s] /\ cur[s] \notin todo[s]
          /\ Atomic!Ends(v) => Left(s, v) = {}
      BY DEF Left, Atomic!Ends, SInv, Orderly
    <2>2. /\ pc'[s] = "post" /\ todo'[s] = Left(s, v)
          /\ cur'[s] = cur[s] /\ verdict'[s] = v
      BY DEF SInv, TInv, TypeOK, Judge
    <2>. QED
      BY <2>1, <2>2 DEF Orderly, Atomic!Ends
  <1>3. ASSUME NEW t \in Scanners, t # s PROVE Honest(t)' /\ Orderly(t)'
    BY <1>3, StandsStill DEF SInv, TInv, TypeOK, Judge
  <1>. QED
    BY <1>1, <1>2, <1>3 DEF Judge, SInv, store

LEMMA ScanSInv ==
  ASSUME SInv, BufferAlone', TInv', NEW s \in Scanners, ScanStep(s)
  PROVE  SInv'
  <1>1. ASSUME NEW b \in Bitstreams, ReadChunk(s, b) PROVE SInv'
    <2>1. Honest(s)' /\ Orderly(s)'
      BY <1>1, JvmType DEF SInv, TInv, TypeOK, ReadChunk, Honest, Orderly
    <2>2. Holds(s)' /\ buffer' = [buffer EXCEPT ![Jvm(s)] = b]
      BY <1>1 DEF Holds, SInv, TInv, TypeOK, ReadChunk
    <2>3. ASSUME NEW t \in Scanners, t # s PROVE Honest(t)' /\ Orderly(t)'
      BY <1>1, <2>2, <2>3, StandsStill DEF SInv, TInv, TypeOK, ReadChunk
    <2>. QED
      BY <1>1, <2>1, <2>3 DEF ReadChunk, SInv, store
  <1>2. ASSUME NEW b \in Bitstreams, FileNotFound(s, b) PROVE SInv'
    <2>1. Honest(s)' /\ Orderly(s)'
      BY <1>2 DEF SInv, TInv, TypeOK, FileNotFound, Honest, Orderly, Atomic!Verdicts, Atomic!Ends
    <2>2. ASSUME NEW t \in Scanners, t # s PROVE Honest(t)' /\ Orderly(t)'
      BY <1>2, <2>2, StandsStill DEF SInv, TInv, TypeOK, FileNotFound
    <2>. QED
      BY <1>2, <2>1, <2>2 DEF FileNotFound, SInv, store
  <1>3. CASE Send(s)
    <2>1. wire' = [wire EXCEPT ![s] = <<Reply(cur[s])>>]
      <3>1. wire[s] = <<>> /\ buffer[Jvm(s)] = cur[s]
        BY <1>3 DEF Send, SInv, TInv, Wires, Honest
      <3>. QED
        BY <1>3, <3>1, ReplyType, WireFacts DEF Send
    <2>2. Honest(s)' /\ Orderly(s)'
      BY <1>3, <2>1 DEF SInv, TInv, TypeOK, Send, Honest, Orderly
    <2>3. ASSUME NEW t \in Scanners, t # s PROVE Honest(t)' /\ Orderly(t)'
      BY <1>3, <2>1, <2>3, StandsStill DEF SInv, TInv, TypeOK, Send
    <2>. QED
      BY <1>3, <2>2, <2>3 DEF Send, SInv, store
  <1>4. CASE Receive(s)
    <2>1. buffer' = [buffer EXCEPT ![Jvm(s)] = Reply(cur[s])]
      BY <1>4, ReplyType, WireFacts DEF Receive, SInv, Honest
    <2>2. Honest(s)' /\ Orderly(s)'
      BY <1>4, <2>1, JvmType DEF SInv, TInv, TypeOK, Receive, Honest, Orderly
    <2>3. Holds(s)'
      BY <1>4 DEF Holds, SInv, TInv, TypeOK, Receive
    <2>4. ASSUME NEW t \in Scanners, t # s PROVE Honest(t)' /\ Orderly(t)'
      BY <1>4, <2>1, <2>3, <2>4, StandsStill DEF SInv, TInv, TypeOK, Receive
    <2>. QED
      BY <1>4, <2>2, <2>4 DEF Receive, SInv, store
  <1>5. CASE NoAnswer(s)
    BY <1>5, JudgeSInv DEF NoAnswer, Atomic!Verdicts
  <1>6. CASE Decode(s)
    <2>1. buffer[Jvm(s)] = Reply(cur[s])
      BY <1>6 DEF Decode, SInv, Honest
    <2>2. Reply(cur[s]) = "FOUND" <=> cur[s] \in Atomic!Sick
      BY DEF Reply, Atomic!Sick
    <2>3. PICK v \in Atomic!Verdicts(cur[s]) : Judge(s, v)
      BY <1>6, <2>1, <2>2 DEF Decode, Atomic!Verdicts
    <2>. QED
      BY <1>6, <2>3, JudgeSInv DEF Decode
  <1>. QED
    BY <1>1, <1>2, <1>3, <1>4, <1>5, <1>6 DEF ScanStep

LEMMA PostSInv ==
  ASSUME SInv, BufferAlone', TInv', NEW s \in Scanners, pc[s] = "post", AfterPost(s),
         UNCHANGED <<archived, queue, todo, cur, buffer, wire, verdict>>
  PROVE  SInv'
  <1>1. Honest(s)' /\ Orderly(s)'
    BY DEF SInv, TInv, TypeOK, AfterPost, Honest, Orderly
  <1>2. ASSUME NEW t \in Scanners, t # s PROVE Honest(t)' /\ Orderly(t)'
    BY <1>2, StandsStill DEF SInv, TInv, TypeOK, AfterPost
  <1>. QED
    BY <1>1, <1>2 DEF SInv

\* Scanners that leave have nothing left to be honest about.
LEMMA LeaveSInv ==
  ASSUME SInv, TInv', NEW S, Leave(S), queue' \subseteq queue, archived' = archived,
         \A t \in Scanners \ S : buffer'[Jvm(t)] = buffer[Jvm(t)]
  PROVE  SInv'
  <1>1. ASSUME NEW t \in Scanners PROVE Honest(t)' /\ Orderly(t)'
    BY DEF SInv, Leave, Honest, Orderly, Atomic!Ends
  <1>. QED
    BY <1>1 DEF SInv

LEMMA NextSInv == SInv /\ BufferAlone' /\ [Next]_vars => SInv'
  <1>. SUFFICES ASSUME SInv, BufferAlone', [Next]_vars PROVE SInv'
    OBVIOUS
  <1>. USE DEF Scanners
  <1>0. TInv'
    BY NextTInv DEF SInv
  \* Steps outside of any session.
  <1>e. ASSUME UNCHANGED scan, queue' \subseteq archived' PROVE SInv'
    <2>1. \A t \in Scanners : Honest(t)' /\ Orderly(t)'
      BY <1>e DEF scan, SInv, Honest, Orderly, Atomic!Ends
    <2>. QED
      BY <1>0, <1>e, <2>1 DEF SInv
  <1>1. ASSUME NEW x \in Items, Install(x) PROVE SInv'
    BY <1>e, <1>1 DEF Install, SInv
  <1>2. ASSUME NEW w \in Workers, NEW x \in Items, TakeItem(w, x) PROVE SInv'
    BY <1>0, <1>2, OpenSInv DEF TakeItem
  <1>3. ASSUME NEW w \in Workers, NEW x \in Items, ConnectFails(w, x) PROVE SInv'
    BY <1>e, <1>3 DEF ConnectFails, SInv
  <1>4. ASSUME NEW s \in Scanners, ScanStep(s) PROVE SInv'
    BY <1>0, <1>4, ScanSInv
  <1>5. ASSUME NEW w \in Workers, PostConsumer(w) PROVE SInv'
    BY <1>0, <1>5, PostSInv DEF PostConsumer
  <1>6. ASSUME NEW w \in Workers, PostConsumerFails(w) PROVE SInv'
    BY <1>0, <1>6, PostSInv DEF PostConsumerFails, store
  <1>7. ASSUME NEW w \in Workers, FinishConsumer(w) PROVE SInv'
    BY <1>0, <1>7, LeaveSInv DEF FinishConsumer, Close
  <1>8. ASSUME NEW c \in Checkers, NEW b \in Bitstreams, TakeBitstream(c, b) PROVE SInv'
    BY <1>0, <1>8, OpenSInv DEF TakeBitstream
  <1>9. ASSUME NEW c \in Checkers, PostChecker(c) PROVE SInv'
    BY <1>0, <1>9, PostSInv DEF PostChecker, store
  <1>10. ASSUME NEW c \in Checkers, FinishChecker(c) PROVE SInv'
    BY <1>0, <1>10, LeaveSInv DEF FinishChecker, Close
  <1>11. ASSUME NEW c \in Checkers, CommitChecker(c) PROVE SInv'
    BY <1>e, <1>11 DEF CommitChecker, SInv
  <1>12. ASSUME NEW j \in Jvms, Crash(j) PROVE SInv'
    <2>1. ASSUME NEW t \in Scanners, Jvm(t) # j PROVE buffer'[Jvm(t)] = buffer[Jvm(t)]
      BY <1>12, <2>1, JvmType DEF Crash, SInv, TInv, TypeOK
    <2>. QED
      BY <1>0, <1>12, <2>1, LeaveSInv DEF Crash
  <1>13. CASE UNCHANGED vars
    BY <1>e, <1>13 DEF vars, scanning, store, SInv
  <1>. QED
    BY <1>1, <1>2, <1>3, <1>4, <1>5, <1>6, <1>7, <1>8, <1>9, <1>10, <1>11, <1>12, <1>13
       DEF Next, Step, Consumer, Script

\* How a step of a session looks from outside.
LEMMA SameSession ==
  ASSUME NEW t \in Scanners, pc'[t] = pc[t], todo'[t] = todo[t], cur'[t] = cur[t],
         inWorkflow'[t] = inWorkflow[t]
  PROVE  Session(t)' = Session(t) /\ Unscanned(t)' = Unscanned(t)
  BY DEF Session, Unscanned

LEMMA OpenRefines ==
  ASSUME SInv, NEW s \in Scanners, NEW bs, NEW x, Open(s, bs, x)
  PROVE  Atomic!Begin(s, bs, x)
  <1>1. Session(s) = "none" /\ Unscanned(s)' = bs
        /\ Session(s)' = IF x \in archived THEN "archive" ELSE "workflow"
    BY DEF SInv, TInv, TypeOK, Open, Session, Unscanned
  <1>2. ASSUME NEW t \in Scanners, t # s
        PROVE  Session(t)' = Session(t) /\ Unscanned(t)' = Unscanned(t)
    BY <1>2, SameSession DEF SInv, TInv, TypeOK, Open
  <1>. QED
    BY <1>1, <1>2 DEF Atomic!Begin, Atomic!Scanners, Scanners, Open

\* Up to the verdict nothing is seen of a scan, but that it may be the last.
LEMMA ScanRefines ==
  ASSUME SInv, NEW s \in Scanners, ScanStep(s)
  PROVE  (\E b \in Bitstreams : Atomic!StopAfter(s, b)) \/ UNCHANGED Atomic!vars
  <1>1. UNCHANGED <<archived, accessible, result, pend, hide>>
    BY DEF ScanStep, ReadChunk, FileNotFound, Send, Receive, NoAnswer, Decode, Judge, store
  <1>2. ASSUME NEW t \in Scanners, t # s
        PROVE  Session(t)' = Session(t) /\ Unscanned(t)' = Unscanned(t)
    BY <1>2, SameSession DEF ScanStep, ReadChunk, FileNotFound, Send, Receive, NoAnswer, Decode,
       Judge, SInv, TInv, TypeOK
  <1>3. Session(s)' = Session(s)
    BY DEF ScanStep, ReadChunk, FileNotFound, Send, Receive, NoAnswer, Decode, Judge, Session,
       SInv, TInv, TypeOK
  <1>4. CASE Unscanned(s)' = Unscanned(s)
    BY <1>1, <1>2, <1>3, <1>4 DEF Atomic!vars, Atomic!Scanners, Scanners
  <1>5. ASSUME NEW b \in Bitstreams, ReadChunk(s, b) \/ FileNotFound(s, b)
        PROVE  Unscanned(s)' = Unscanned(s)
    <2>1. /\ pc[s] = "next" /\ b \in todo[s] /\ pc'[s] \in {"read", "post"}
          /\ todo'[s] = todo[s] \ {b} /\ cur'[s] = b
      BY <1>5 DEF ReadChunk, FileNotFound, SInv, TInv, TypeOK
    <2>. QED
      BY <2>1 DEF Unscanned
  <1>6. ASSUME Send(s) \/ Receive(s) PROVE Unscanned(s)' = Unscanned(s)
    BY <1>6 DEF Send, Receive, Unscanned, SInv, TInv, TypeOK
  <1>7. ASSUME NEW v, Judge(s, v), pc[s] \in {"read", "sent", "decode"}
        PROVE  Unscanned(s)' = Unscanned(s) \/ Atomic!StopAfter(s, cur[s])
    <2>1. /\ pc'[s] = "post" /\ cur'[s] = cur[s] /\ todo'[s] = Left(s, v)
          /\ Left(s, v) \in {todo[s], {}}
      BY <1>7 DEF Judge, Left, SInv, TInv, TypeOK
    <2>2. Unscanned(s) = todo[s] \cup {cur[s]} /\ Unscanned(s)' = Left(s, v) \cup {cur[s]}
      BY <1>7, <2>1 DEF Unscanned
    <2>3. CASE Left(s, v) = {}
      BY <1>1, <1>2, <1>3, <2>2, <2>3 DEF Atomic!StopAfter, Atomic!Scanners, Scanners
    <2>. QED
      BY <2>1, <2>2, <2>3
  <1>8. ASSUME pc[s] \in {"read", "sent", "decode"} PROVE cur[s] \in Bitstreams
    BY <1>8 DEF SInv, TInv, Wires
  <1>. QED
    BY <1>4, <1>5, <1>6, <1>7, <1>8 DEF ScanStep, NoAnswer, Decode

\* Recording the verdict is the scan.
LEMMA PostRefines ==
  ASSUME SInv, NEW s \in Scanners, pc[s] = "post", AfterPost(s),
         UNCHANGED <<archived, result, todo, cur, inWorkflow>>
  PROVE  /\ cur[s] \in Bitstreams /\ verdict[s] \in Atomic!Verdicts(cur[s])
         /\ Atomic!Scan(s, cur[s], verdict[s])
         /\ Hidden(s) = Atomic!Removed(s, cur[s], verdict[s])
         /\ Note(s) => pend' = Atomic!Noted(s, cur[s], verdict[s])
  <1>1. cur[s] \in Bitstreams /\ verdict[s] \in Atomic!Verdicts(cur[s])
    BY DEF SInv, TInv, Wires, Honest
  <1>2. /\ cur[s] \notin todo[s] /\ Unscanned(s) = todo[s] \cup {cur[s]}
        /\ Atomic!Ends(verdict[s]) => todo[s] = {}
    BY DEF SInv, Orderly, Unscanned
  <1>3. Session(s)' = Session(s) /\ Unscanned(s)' = todo[s]
    BY DEF SInv, TInv, TypeOK, AfterPost, Session, Unscanned
  <1>4. ASSUME NEW t \in Scanners, t # s
        PROVE  Session(t)' = Session(t) /\ Unscanned(t)' = Unscanned(t)
    BY <1>4, SameSession DEF SInv, TInv, TypeOK, AfterPost
  <1>5. Atomic!Scan(s, cur[s], verdict[s])
    <2>1. /\ cur[s] \in Unscanned(s) /\ Unscanned(s)' = Unscanned(s) \ {cur[s]}
          /\ Atomic!Ends(verdict[s]) => Unscanned(s) = {cur[s]}
      BY <1>2, <1>3
    <2>. QED
      BY <1>3, <1>4, <2>1 DEF Atomic!Scan, Atomic!Scanners, Scanners
  <1>6. Hidden(s) = Atomic!Removed(s, cur[s], verdict[s])
    BY DEF Hidden, Hides, Atomic!Removed, Session, Atomic!Scanners, Scanners
  <1>7. Note(s) => pend' = Atomic!Noted(s, cur[s], verdict[s])
    BY DEF Note, Atomic!Noted
  <1>. QED
    BY <1>1, <1>5, <1>6, <1>7

LEMMA LeaveRefines ==
  ASSUME SInv, NEW S, Leave(S), EndTransaction(S), archived' = archived
  PROVE  Atomic!Close(S)
  <1>1. ASSUME NEW t \in Scanners
        PROVE  /\ Session(t)' = IF t \in S THEN "none" ELSE Session(t)
               /\ Unscanned(t)' = IF t \in S THEN {} ELSE Unscanned(t)
    BY DEF Leave, Session, Unscanned, SInv, TInv, TypeOK
  <1>. QED
    BY <1>1 DEF Atomic!Close, EndTransaction, Atomic!Scanners, Scanners, Nothing, Atomic!Nothing

LEMMA NextRefines ==
  ASSUME SInv, Next
  PROVE  Atomic!Next \/ UNCHANGED Atomic!vars
  <1>. USE DEF Scanners, Atomic!Scanners
  \* Steps outside of any session.
  <1>e. ASSUME UNCHANGED scan
        PROVE  \A t \in Scanners : Session(t)' = Session(t) /\ Unscanned(t)' = Unscanned(t)
    BY <1>e, SameSession DEF scan
  <1>1. ASSUME NEW x \in Items, Install(x) PROVE Atomic!Next
    <2>1. Atomic!Install(x)
      BY <1>e, <1>1 DEF Install, Contents, Atomic!Install, Atomic!Contents
    <2>. QED
      BY <2>1 DEF Atomic!Next
  <1>2. ASSUME NEW w \in Workers, NEW x \in Items, TakeItem(w, x) PROVE Atomic!Next
    <2>1. x \in archived /\ Atomic!Begin(w, Atomic!Contents(x), x)
      BY <1>2, OpenRefines DEF TakeItem, SInv, Contents, Atomic!Contents
    <2>. QED
      BY <2>1 DEF Atomic!Next
  <1>3. ASSUME NEW w \in Workers, NEW x \in Items, ConnectFails(w, x)
        PROVE  UNCHANGED Atomic!vars
    BY <1>e, <1>3 DEF ConnectFails, Atomic!vars
  <1>4. ASSUME NEW s \in Scanners, ScanStep(s) PROVE Atomic!Next \/ UNCHANGED Atomic!vars
    BY <1>4, ScanRefines DEF Atomic!Next
  <1>5. ASSUME NEW w \in Workers, PostConsumer(w) PROVE Atomic!Next
    <2>1. cur[w] \in Bitstreams /\ verdict[w] \in Atomic!Verdicts(cur[w])
          /\ Atomic!ScanAndHide(w, cur[w], verdict[w])
      BY <1>5, PostRefines DEF PostConsumer, Atomic!ScanAndHide
    <2>. QED
      BY <2>1 DEF Atomic!Next
  <1>6. ASSUME NEW w \in Workers, PostConsumerFails(w) PROVE Atomic!Next
    <2>1. cur[w] \in Bitstreams /\ verdict[w] \in Atomic!Verdicts(cur[w])
          /\ Atomic!ScanAndHide(w, cur[w], verdict[w])
      BY <1>6, PostRefines DEF PostConsumerFails, store, Atomic!ScanAndHide
    <2>. QED
      BY <2>1 DEF Atomic!Next
  <1>7. ASSUME NEW w \in Workers, FinishConsumer(w) PROVE Atomic!Next
    <2>1. Atomic!Close({w}) /\ Session(w) # "none" /\ Unscanned(w) = {}
      BY <1>7, LeaveRefines DEF FinishConsumer, Close, SInv, Orderly, Session, Unscanned
    <2>2. Atomic!EndConsumer(w) \/ Atomic!Lose({w})
      BY <1>7, <2>1 DEF FinishConsumer, Stored, Atomic!Stored, Atomic!EndConsumer, Atomic!Lose
    <2>. QED
      BY <2>2 DEF Atomic!Next
  <1>8. ASSUME NEW c \in Checkers, NEW b \in Bitstreams, TakeBitstream(c, b) PROVE Atomic!Next
    <2>1. Atomic!Begin(c, {b}, ItemOf[b])
      BY <1>8, OpenRefines DEF TakeBitstream
    <2>. QED
      BY <2>1 DEF Atomic!Next
  <1>9. ASSUME NEW c \in Checkers, PostChecker(c) PROVE Atomic!Next
    <2>1. cur[c] \in Bitstreams /\ verdict[c] \in Atomic!Verdicts(cur[c])
          /\ Atomic!ScanOnly(c, cur[c], verdict[c])
      BY <1>9, PostRefines DEF PostChecker, store, Atomic!ScanOnly
    <2>. QED
      BY <2>1 DEF Atomic!Next
  <1>10. ASSUME NEW c \in Checkers, FinishChecker(c) PROVE Atomic!Next
    <2>1. Session(c)' = "none" /\ Unscanned(c)' = {} /\ Unscanned(c) = {}
      BY <1>10 DEF FinishChecker, Close, Leave, SInv, Orderly, Session, Unscanned
    <2>2. ASSUME NEW t \in Scanners, t # c
          PROVE  Session(t)' = Session(t) /\ Unscanned(t)' = Unscanned(t)
      BY <1>10, <2>2, SameSession DEF FinishChecker, Close, Leave, SInv, TInv, TypeOK
    <2>3. Atomic!EndScript(c)
      BY <1>10, <2>1, <2>2 DEF FinishChecker, Close, Atomic!EndScript
    <2>. QED
      BY <2>3 DEF Atomic!Next
  <1>11. ASSUME NEW c \in Checkers, CommitChecker(c) PROVE Atomic!Next
    <2>1. Session(c) = "none" /\ Unscanned(c) = {}
      BY <1>11 DEF CommitChecker, SInv, Orderly, Session, Unscanned
    <2>2. Atomic!Close({c})
      BY <1>e, <1>11, <2>1 DEF CommitChecker, EndTransaction, Atomic!Close, Nothing, Atomic!Nothing
    <2>3. Atomic!Commit(c) \/ Atomic!Lose({c})
      BY <1>11, <2>1, <2>2 DEF CommitChecker, Stored, Atomic!Stored, Atomic!Commit, Atomic!Lose
    <2>. QED
      BY <2>3 DEF Atomic!Next
  <1>12. ASSUME NEW j \in Jvms, Crash(j) PROVE Atomic!Next
    <2>1. {s \in Scanners : Jvm(s) = j} \in {Workers} \cup {{s} : s \in Scanners}
      <3>1. CASE j = "webapp"
        <4>1. {s \in Scanners : Jvm(s) = j} = Workers
          BY <3>1 DEF Jvm
        <4>. QED
          BY <4>1
      <3>2. CASE j \in Checkers
        <4>1. {s \in Scanners : Jvm(s) = j} = {j}
          BY <3>2 DEF Jvm
        <4>. QED
          BY <3>2, <4>1
      <3>. QED
        BY <3>1, <3>2 DEF Jvms
    <2>2. Atomic!Lose({s \in Scanners : Jvm(s) = j})
      BY <1>12, LeaveRefines DEF Crash, Atomic!Lose
    <2>. QED
      BY <2>1, <2>2 DEF Atomic!Next
  <1>. QED
    BY <1>1, <1>2, <1>3, <1>4, <1>5, <1>6, <1>7, <1>8, <1>9, <1>10, <1>11, <1>12
       DEF Next, Step, Consumer, Script

LEMMA StepRefines == SInv /\ [Next]_vars => [Atomic!Next]_Atomic!vars
  <1>. SUFFICES ASSUME SInv, [Next]_vars PROVE Atomic!Next \/ UNCHANGED Atomic!vars
    OBVIOUS
  <1>1. CASE UNCHANGED vars
    <2>1. \A t \in Scanners : Session(t)' = Session(t) /\ Unscanned(t)' = Unscanned(t)
      BY <1>1, SameSession DEF vars, scanning, scan
    <2>. QED
      BY <1>1, <2>1 DEF vars, scanning, store, Atomic!vars, Atomic!Scanners, Scanners
  <1>. QED
    BY <1>1, NextRefines

LEMMA InitRefines == Init => Atomic!Init
  <1>. SUFFICES ASSUME Init PROVE Atomic!Init
    OBVIOUS
  <1>1. \A t \in Scanners : Session(t) = "none" /\ Unscanned(t) = {}
    BY DEF Init, Session, Unscanned
  <1>. QED
    BY <1>1 DEF Init, Atomic!Init, Atomic!Scanners, Scanners, Nothing, Atomic!Nothing

\* VirusScan implements AtomicScans in every behaviour in which no two scanners of a
\* JVM need its buffer at the same time: for any bitstreams, threads and scripts,
\* wherever answers, files, commits, policy removals and JVMs are lost.
THEOREM ScansAtomic == Spec /\ []BufferAlone => ScansAreAtomic
  <1>1. Spec /\ []BufferAlone => []SInv
    BY InitSInv, NextSInv, PTL DEF Spec
  <1>. QED
    BY <1>1, InitRefines, StepRefines, PTL DEF Spec, ScansAreAtomic, Atomic!Spec

OneScannerPerJvm == \A s, t \in Scanners : Jvm(s) = Jvm(t) => s = t

\* In particular with a single consumer thread, beside any number of scripts.
COROLLARY ScansAtomicOnePerJvm == OneScannerPerJvm => (Spec => ScansAreAtomic)
  <1>. SUFFICES ASSUME OneScannerPerJvm PROVE Spec => ScansAreAtomic
    OBVIOUS
  <1>1. BufferAlone
    BY DEF OneScannerPerJvm, BufferAlone
  <1>. QED
    BY <1>1, ScansAtomic, PTL

-----------------------------------------------------------------------------
(* What follows from atomic scans alone, whatever happens inside of them.   *)

\* v is no verdict at all or one that clamd justifies.
Right(v, b) == v = None \/ v \in Atomic!Verdicts(b)

AInv ==
  /\ \A b \in Bitstreams : Right(result[b], b)
  /\ \A s \in Scanners, b \in Bitstreams : Right(pend[s][b], b)
  /\ \A s \in Scanners : hide[s] \subseteq Atomic!Sick
  /\ \A b \in Bitstreams : ItemOf[b] \in archived /\ b \notin accessible => b \in Atomic!Sick

LEMMA InitAInv == Init => AInv
  BY DEF Init, AInv, Right, Nothing

LEMMA RemovedSick ==
  ASSUME NEW s, NEW b \in Bitstreams, NEW v \in Atomic!Verdicts(b)
  PROVE  Atomic!Removed(s, b, v) \subseteq Atomic!Sick
  BY DEF Atomic!Removed, Atomic!Verdicts

LEMMA NotedRight ==
  ASSUME TypeOK, AInv, NEW s \in Scanners, NEW b \in Bitstreams, NEW v \in Atomic!Verdicts(b),
         NEW t \in Scanners, NEW c \in Bitstreams
  PROVE  Right(Atomic!Noted(s, b, v)[t][c], c)
  <1>1. Atomic!Noted(s, b, v)[t][c] = IF t = s /\ c = b THEN v ELSE pend[t][c]
    BY DEF Atomic!Noted, TypeOK
  <1>. QED
    BY <1>1 DEF AInv, Right

LEMMA StoredRight ==
  ASSUME AInv, NEW s \in Scanners, NEW b \in Bitstreams
  PROVE  Right(Atomic!Stored(s)[b], b)
  BY DEF AInv, Right, Atomic!Stored

LEMMA CloseAInv ==
  ASSUME AInv, NEW S, Atomic!Close(S), NEW t \in Scanners
  PROVE  hide'[t] \subseteq Atomic!Sick /\ \A b \in Bitstreams : Right(pend'[t][b], b)
  <1>1. /\ pend'[t] = IF t \in S THEN Nothing ELSE pend[t]
        /\ hide'[t] = IF t \in S THEN {} ELSE hide[t]
    BY DEF Atomic!Close, Atomic!Scanners, Scanners, Nothing, Atomic!Nothing
  <1>. QED
    BY <1>1 DEF AInv, Right, Nothing

LEMMA AtomicAInv ==
  ASSUME TypeOK, AInv, Atomic!Next
  PROVE  AInv'
  <1>. USE DEF Scanners, Atomic!Scanners
  <1>1. ASSUME NEW x \in Items, Atomic!Install(x) PROVE AInv'
    BY <1>1 DEF Atomic!Install, Atomic!Contents, AInv, Right
  <1>2. ASSUME UNCHANGED <<archived, accessible, result, pend, hide>> PROVE AInv'
    BY <1>2 DEF AInv, Right
  <1>3. ASSUME NEW w \in Workers, NEW b \in Bitstreams, NEW v \in Atomic!Verdicts(b),
               Atomic!ScanAndHide(w, b, v)
        PROVE  AInv'
    <2>1. /\ accessible \ accessible' \subseteq Atomic!Sick /\ pend' \in {pend, Atomic!Noted(w, b, v)}
          /\ UNCHANGED <<archived, result, hide>>
      BY <1>3, RemovedSick DEF Atomic!ScanAndHide, Atomic!Scan
    <2>2. \A t \in Scanners, c \in Bitstreams : Right(pend'[t][c], c)
      BY <2>1, NotedRight DEF AInv
    <2>. QED
      BY <2>1, <2>2 DEF AInv, Right
  <1>4. ASSUME NEW s \in Checkers, NEW b \in Bitstreams, NEW v \in Atomic!Verdicts(b),
               Atomic!ScanOnly(s, b, v)
        PROVE  AInv'
    <2>1. \A t \in Scanners, c \in Bitstreams : Right(pend'[t][c], c)
      BY <1>4, NotedRight DEF Atomic!ScanOnly
    <2>2. \A t \in Scanners : hide'[t] \subseteq Atomic!Sick
      BY <1>4, RemovedSick DEF Atomic!ScanOnly, TypeOK, AInv
    <2>. QED
      BY <1>4, <2>1, <2>2 DEF Atomic!ScanOnly, Atomic!Scan, AInv, Right
  <1>5. ASSUME NEW w \in Workers, Atomic!EndConsumer(w) PROVE AInv'
    <2>1. \A b \in Bitstreams : Right(result'[b], b)
      BY <1>5, StoredRight DEF Atomic!EndConsumer
    <2>. QED
      BY <1>5, <2>1, CloseAInv DEF Atomic!EndConsumer, Atomic!Close, AInv, Right
  <1>6. ASSUME NEW c \in Checkers, Atomic!Commit(c) PROVE AInv'
    <2>1. \A b \in Bitstreams : Right(result'[b], b)
      BY <1>6, StoredRight DEF Atomic!Commit
    <2>2. accessible \ accessible' \subseteq Atomic!Sick /\ archived' = archived
      BY <1>6 DEF Atomic!Commit, Atomic!Close, AInv
    <2>3. \A t \in Scanners :
            hide'[t] \subseteq Atomic!Sick /\ \A b \in Bitstreams : Right(pend'[t][b], b)
      BY <1>6, CloseAInv DEF Atomic!Commit
    <2>. QED
      BY <2>1, <2>2, <2>3 DEF AInv, Right
  <1>7. ASSUME NEW S, Atomic!Lose(S) PROVE AInv'
    BY <1>7, CloseAInv DEF Atomic!Lose, Atomic!Close, AInv, Right
  <1>. QED
    BY <1>1, <1>2, <1>3, <1>4, <1>5, <1>6, <1>7
       DEF Atomic!Next, Atomic!Begin, Atomic!StopAfter, Atomic!EndScript

LEMMA NextAInv == TypeOK /\ AInv /\ [Atomic!Next]_Atomic!vars => AInv'
  <1>. SUFFICES ASSUME TypeOK, AInv, [Atomic!Next]_Atomic!vars PROVE AInv'
    OBVIOUS
  <1>1. CASE UNCHANGED Atomic!vars
    BY <1>1 DEF Atomic!vars, AInv, Right
  <1>. QED
    BY <1>1, AtomicAInv

LEMMA ScansRight == Spec /\ []BufferAlone => []AInv
  <1>1. Spec /\ []BufferAlone => [][Atomic!Next]_Atomic!vars
    BY ScansAtomic, PTL DEF ScansAreAtomic, Atomic!Spec
  <1>. QED
    BY <1>1, InitAInv, NextAInv, ScanTypeCorrect, PTL DEF Spec

\* When no infected file is above clamd's size limit, every stored verdict is
\* clamd's verdict on that bitstream, whatever answers, commits and JVMs are lost.
THEOREM VerdictsAreSound ==
  Infected \cap Oversize = {} => (Spec /\ []BufferAlone => []VerdictSound)
  <1>. SUFFICES ASSUME Infected \cap Oversize = {} PROVE Spec /\ []BufferAlone => []VerdictSound
    OBVIOUS
  <1>1. AInv => VerdictSound
    BY DEF AInv, Right, VerdictSound, Atomic!Verdicts, Atomic!Sick, Results
  <1>. QED
    BY <1>1, ScansRight, PTL

\* No clean file of the archive loses its policies, large or not.
THEOREM CleanStaysReadable == Spec /\ []BufferAlone => []OnlyInfectedHidden
  <1>1. AInv => OnlyInfectedHidden
    BY DEF AInv, OnlyInfectedHidden, Atomic!Sick
  <1>. QED
    BY <1>1, ScansRight, PTL

-----------------------------------------------------------------------------
(* FlaggedIsHidden.  The pool only takes items that are archived, and stay   *)
(* so; a session of its threads therefore never passes for one of the        *)
(* workflow, nothing gives its bitstreams policies again, and a verdict that *)
(* waits for the consumer's commit is about a bitstream already hidden.      *)

Sure(w) ==
  /\ pc[w] # "idle" => ~inWorkflow[w] /\ \A b \in todo[w] : ItemOf[b] \in archived
  /\ pc[w] \in {"read", "sent", "decode", "post"} => ItemOf[cur[w]] \in archived
  /\ \A b \in Bitstreams :
       pend[w][b] = "VIRUS" => ItemOf[b] \in archived /\ b \notin accessible

Hiding ==
  /\ TInv
  /\ queue \subseteq archived
  /\ \A w \in Workers : Sure(w)

\* A worker is not concerned by what others do.
LEMMA SureFrame ==
  ASSUME NEW w \in Workers, Sure(w), archived' = archived, accessible' \subseteq accessible,
         pc'[w] = pc[w], todo'[w] = todo[w], cur'[w] = cur[w],
         inWorkflow'[w] = inWorkflow[w], pend'[w] = pend[w]
  PROVE  Sure(w)'
  BY DEF Sure

LEMMA LeaveSure ==
  ASSUME Hiding, NEW S, Leave(S), EndTransaction(S), archived' = archived,
         accessible' \subseteq accessible, NEW w \in Workers
  PROVE  Sure(w)'
  <1>1. CASE w \in S
    BY <1>1 DEF Leave, EndTransaction, Sure, Nothing, Scanners, Results
  <1>2. CASE w \notin S
    <2>1. /\ pc'[w] = pc[w] /\ todo'[w] = todo[w] /\ cur'[w] = cur[w]
          /\ inWorkflow'[w] = inWorkflow[w] /\ pend'[w] = pend[w]
      BY <1>2 DEF Leave, EndTransaction, Scanners, Hiding, TInv, TypeOK
    <2>. QED
      BY <2>1, SureFrame DEF Hiding
  <1>. QED
    BY <1>1, <1>2

\* The steps of scan change nothing else than the scanner's own session.
LEMMA ScanSure ==
  ASSUME Hiding, NEW s \in Scanners, ScanStep(s), NEW w \in Workers
  PROVE  Sure(w)'
  <1>1. archived' = archived /\ accessible' = accessible /\ pend' = pend
    BY DEF ScanStep, ReadChunk, FileNotFound, Send, Receive, NoAnswer, Decode, Judge, store
  <1>2. CASE w # s
    <2>1. /\ pc'[w] = pc[w] /\ todo'[w] = todo[w] /\ cur'[w] = cur[w]
          /\ inWorkflow'[w] = inWorkflow[w]
      BY <1>2 DEF ScanStep, ReadChunk, FileNotFound, Send, Receive, NoAnswer, Decode, Judge,
         Scanners, Hiding, TInv, TypeOK
    <2>. QED
      BY <1>1, <2>1, SureFrame DEF Hiding
  <1>3. CASE w = s
    <2>1. inWorkflow' = inWorkflow /\ pc[w] # "idle" /\ ~inWorkflow[w]
      BY <1>3 DEF ScanStep, ReadChunk, FileNotFound, Send, Receive, NoAnswer, Decode, Judge,
         Hiding, Sure
    <2>2. todo'[w] \subseteq todo[w] /\ ItemOf[cur'[w]] \in archived
      <3>1. ASSUME NEW b \in Bitstreams, ReadChunk(s, b) \/ FileNotFound(s, b)
            PROVE  todo'[w] \subseteq todo[w] /\ ItemOf[cur'[w]] \in archived
        <4>1. /\ pc[w] = "next" /\ b \in todo[w]
              /\ cur' = [cur EXCEPT ![s] = b] /\ todo' = [todo EXCEPT ![s] = todo[s] \ {b}]
          BY <1>3, <3>1 DEF ReadChunk, FileNotFound
        <4>2. cur'[w] = b /\ todo'[w] = todo[w] \ {b}
          BY <1>3, <4>1 DEF Hiding, TInv, TypeOK
        <4>. QED
          BY <4>1, <4>2 DEF Hiding, Sure
      <3>2. CASE Send(s) \/ Receive(s)
        BY <1>3, <3>2 DEF Send, Receive, Hiding, Sure
      <3>3. ASSUME NEW v, Judge(s, v), pc[s] \in {"read", "sent", "decode"}
            PROVE  todo'[w] \subseteq todo[w] /\ ItemOf[cur'[w]] \in archived
        <4>1. cur' = cur /\ todo' = [todo EXCEPT ![s] = Left(s, v)] /\ Left(s, v) \subseteq todo[s]
          BY <3>3 DEF Judge, Left
        <4>2. todo'[w] = Left(s, v)
          BY <1>3, <4>1 DEF Hiding, TInv, TypeOK
        <4>. QED
          BY <1>3, <3>3, <4>1, <4>2 DEF Hiding, Sure
      <3>. QED
        BY <3>1, <3>2, <3>3 DEF ScanStep, NoAnswer, Decode
    <2>. QED
      BY <1>1, <2>1, <2>2 DEF Hiding, Sure
  <1>. QED
    BY <1>2, <1>3

LEMMA NextHiding ==
  ASSUME "policies" \notin faults, Hiding, [Next]_vars
  PROVE  Hiding'
  <1>. USE DEF Scanners
  <1>0. TInv'
    BY NextTInv DEF Hiding
  <1>1. ASSUME NEW x \in Items, Install(x) PROVE Hiding'
    <2>1. /\ archived' = archived \cup {x} /\ x \notin archived
          /\ accessible' = accessible \cup Contents(x) /\ queue' \subseteq queue \cup {x}
          /\ UNCHANGED <<pc, todo, cur, inWorkflow, pend>>
      BY <1>1 DEF Install, scan
    <2>2. \A w \in Workers : Sure(w)'
      BY <2>1 DEF Hiding, Sure, Contents
    <2>. QED
      BY <1>0, <2>1, <2>2 DEF Hiding
  <1>2. ASSUME NEW w \in Workers, NEW x \in Items, TakeItem(w, x) PROVE Hiding'
    <2>1. /\ x \in archived /\ queue' \subseteq queue
          /\ UNCHANGED <<archived, accessible, pend>>
          /\ pc' = [pc EXCEPT ![w] = IF Contents(x) = {} THEN "done" ELSE "next"]
          /\ todo' = [todo EXCEPT ![w] = Contents(x)] /\ cur' = cur
          /\ inWorkflow' = [inWorkflow EXCEPT ![w] = FALSE]
      BY <1>2 DEF TakeItem, Open, Hiding
    <2>2. Sure(w)'
      BY <2>1 DEF Hiding, Sure, Contents, TInv, TypeOK
    <2>3. ASSUME NEW t \in Workers, t # w PROVE Sure(t)'
      BY <2>1, <2>3, SureFrame DEF Hiding, TInv, TypeOK
    <2>. QED
      BY <1>0, <2>1, <2>2, <2>3 DEF Hiding
  <1>3. ASSUME NEW w \in Workers, NEW x \in Items, ConnectFails(w, x) PROVE Hiding'
    BY <1>0, <1>3, SureFrame DEF ConnectFails, scan, Hiding
  <1>4. ASSUME NEW s \in Scanners, ScanStep(s) PROVE Hiding'
    <2>1. queue' = queue /\ archived' = archived
      BY <1>4 DEF ScanStep, ReadChunk, FileNotFound, Send, Receive, NoAnswer, Decode, Judge, store
    <2>. QED
      BY <1>0, <1>4, <2>1, ScanSure DEF Hiding
  <1>5. ASSUME NEW w \in Workers, PostConsumer(w) PROVE Hiding'
    <2>1. /\ pc[w] = "post" /\ pend' = [pend EXCEPT ![w][cur[w]] = verdict[w]]
          /\ accessible' = accessible \ Hidden(w)
          /\ pc' = [pc EXCEPT ![w] = IF todo[w] = {} THEN "done" ELSE "next"]
          /\ UNCHANGED <<archived, queue, todo, cur, inWorkflow>>
      BY <1>5 DEF PostConsumer, Note, AfterPost
    <2>2. cur[w] \in Bitstreams /\ ItemOf[cur[w]] \in archived /\ ~inWorkflow[w]
      BY <2>1 DEF Hiding, Sure, TInv, Wires
    <2>3. \A b \in Bitstreams : pend'[w][b] = IF b = cur[w] THEN verdict[w] ELSE pend[w][b]
      BY <2>1, <2>2 DEF Hiding, TInv, TypeOK
    <2>4. verdict[w] = "VIRUS" => Hidden(w) = {cur[w]}
      BY <2>2 DEF Hidden, Hides
    <2>5. Sure(w)'
      BY <2>1, <2>2, <2>3, <2>4 DEF Hiding, Sure, TInv, TypeOK
    <2>6. ASSUME NEW t \in Workers, t # w PROVE Sure(t)'
      BY <2>1, <2>6, SureFrame DEF Hiding, TInv, TypeOK
    <2>. QED
      BY <1>0, <2>1, <2>5, <2>6 DEF Hiding
  <1>6. ASSUME NEW w \in Workers, PostConsumerFails(w) PROVE FALSE
    BY <1>6 DEF PostConsumerFails
  <1>7. ASSUME NEW w \in Workers, FinishConsumer(w) PROVE Hiding'
    BY <1>0, <1>7, LeaveSure DEF FinishConsumer, Close, Hiding
  <1>8. ASSUME NEW c \in Checkers, NEW b \in Bitstreams, TakeBitstream(c, b) PROVE Hiding'
    <2>1. \A w \in Workers : w # c
      OBVIOUS
    <2>2. \A w \in Workers : Sure(w)'
      BY <1>8, <2>1, SureFrame DEF TakeBitstream, Open, Hiding, TInv, TypeOK
    <2>. QED
      BY <1>0, <1>8, <2>2 DEF TakeBitstream, Open, Hiding
  <1>9. ASSUME NEW c \in Checkers, PostChecker(c) PROVE Hiding'
    <2>1. \A w \in Workers : w # c
      OBVIOUS
    <2>2. \A w \in Workers : Sure(w)'
      BY <1>9, <2>1, SureFrame DEF PostChecker, Note, AfterPost, store, Hiding, TInv, TypeOK
    <2>. QED
      BY <1>0, <1>9, <2>2 DEF PostChecker, store, Hiding
  <1>10. ASSUME NEW c \in Checkers, FinishChecker(c) PROVE Hiding'
    <2>1. \A w \in Workers : w # c
      OBVIOUS
    <2>2. \A w \in Workers : Sure(w)'
      BY <1>10, <2>1, SureFrame DEF FinishChecker, Close, Leave, Hiding, TInv, TypeOK
    <2>. QED
      BY <1>0, <1>10, <2>2 DEF FinishChecker, Close, Hiding
  <1>11. ASSUME NEW c \in Checkers, CommitChecker(c) PROVE Hiding'
    <2>1. \A w \in Workers : w # c
      OBVIOUS
    <2>2. \A w \in Workers : Sure(w)'
      BY <1>11, <2>1, SureFrame DEF CommitChecker, EndTransaction, scan, Hiding, TInv, TypeOK
    <2>. QED
      BY <1>0, <1>11, <2>2 DEF CommitChecker, Hiding
  <1>12. ASSUME NEW j \in Jvms, Crash(j) PROVE Hiding'
    BY <1>0, <1>12, LeaveSure DEF Crash, Hiding
  <1>13. CASE UNCHANGED vars
    BY <1>0, <1>13, SureFrame DEF vars, scanning, store, scan, Hiding
  <1>. QED
    BY <1>1, <1>2, <1>3, <1>4, <1>5, <1>6, <1>7, <1>8, <1>9, <1>10, <1>11, <1>12, <1>13
       DEF Next, Step, Consumer, Script

\* When a consumer's transaction records VIRUS for a bitstream, that bitstream is
\* unreadable, whatever a script does to the same item and wherever commits, JVMs
\* and answers are lost; only a failing removal of the policies breaks it.
THEOREM FlagFollowsHiding == Spec => FlaggedIsHidden
  <1>. DEFINE HInv == "policies" \notin faults => Hiding
              FlagStep ==
                \A w \in Workers, b \in Bitstreams :
                  (pc[w] = "done" /\ pc'[w] = "idle" /\ "policies" \notin faults /\ Flags(b))
                     => b \notin accessible'
  <1>1. Init => HInv
    <2>. SUFFICES ASSUME Init PROVE Hiding
      OBVIOUS
    <2>1. \A w \in Workers : Sure(w)
      BY DEF Init, Sure, Nothing, Scanners, Results
    <2>. QED
      BY <2>1, InitTInv DEF Init, Hiding
  <1>2. [Next]_vars => faults' = faults
    BY DEF Next, vars
  <1>3. HInv /\ [Next]_vars => HInv'
    BY <1>2, NextHiding
  <1>4. HInv /\ [Next]_vars => [FlagStep]_result
    <2>. SUFFICES ASSUME HInv, [Next]_vars, result' # result, NEW w \in Workers, NEW b \in Bitstreams,
                         pc[w] = "done", pc'[w] = "idle", "policies" \notin faults, Flags(b)
                  PROVE  b \notin accessible'
      OBVIOUS
    <2>. USE DEF Scanners
    <2>1. PICK t \in Workers : FinishConsumer(t)
      <3>1. ASSUME NEW c \in Checkers, CommitChecker(c) PROVE FALSE
        BY <3>1 DEF CommitChecker, scan
      <3>. QED
        BY <3>1 DEF Next, Step, Consumer, Script, vars, scanning, store, Install, TakeItem, Open,
           ConnectFails, ScanStep, ReadChunk, FileNotFound, Send, Receive, NoAnswer, Decode, Judge,
           PostConsumer, PostConsumerFails, TakeBitstream, PostChecker, FinishChecker, Close, Crash
    <2>2. t = w
      BY <2>1 DEF FinishConsumer, Close, Leave
    <2>3. pend[w][b] = "VIRUS"
      BY <2>1, <2>2 DEF FinishConsumer, Stored, Flags
    <2>. QED
      BY <2>1, <2>3 DEF FinishConsumer, Hiding, Sure
  <1>. HIDE DEF HInv, FlagStep
  <1>5. Spec => [][FlagStep]_result
    BY <1>1, <1>3, <1>4, PTL DEF Spec
  <1>. QED
    BY <1>5 DEF FlagStep, FlaggedIsHidden
=============================================================================
