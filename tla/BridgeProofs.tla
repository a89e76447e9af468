---------------------------- MODULE BridgeProofs ----------------------------
(***************************************************************************)
(* The engine bridge for every set of calls and every buffer size.         *)
(*                                                                         *)
(* First: as long as no client goes away in mid-call, the multiplexed      *)
(* stream survives every deadline (BridgeSafe).  The argument is about who *)
(* holds the writer: a call that writes holds it alone and found the       *)
(* stream open, so a frame that is not whole is its own, or nobody writes  *)
(* again.                                                                  *)
(*                                                                         *)
(* Second: as long as no deadline runs out, with clients that go away or   *)
(* without, a broker that is gone left no VM (NoVmOutlivesBroker).  The    *)
(* parent lets go of the broker only once ShutdownAll was answered, and it *)
(* is answered after the dispatch jobs were drained and the table emptied. *)
(***************************************************************************)
EXTENDS Bridge, SequenceTheorems, TLAPS

\* What the tail of a sequence holds, and how long it is.
LEMMA TailElements ==
  ASSUME NEW S, NEW s \in Seq(S), s # << >>
  PROVE  /\ Tail(s) \in Seq(S) /\ Len(Tail(s)) = Len(s) - 1
         /\ \A i \in 1 .. Len(Tail(s)) : Tail(s)[i] = s[i + 1]
         /\ Head(s) = s[1] /\ 1 \in DOMAIN s
         /\ Len(s) \in Nat \ {0} /\ DOMAIN s = 1 .. Len(s)
         /\ \A i \in 1 .. Len(Tail(s)) : i + 1 \in 1 .. Len(s)
<1>1. /\ Tail(s) \in Seq(S) /\ Len(Tail(s)) = Len(s) - 1
      /\ Head(s) \in S
      /\ \A i \in 1 .. Len(Tail(s)) : Tail(s)[i] = s[i + 1]
  BY HeadTailProperties
<1>2. Len(s) \in Nat /\ DOMAIN s = 1 .. Len(s) BY LenProperties
<1>3. Len(s) # 0 BY EmptySeq
<1> QED BY <1>1, <1>2, <1>3

\* What a sequence with one more element at its end holds.
LEMMA AppendElements ==
  ASSUME NEW S, NEW s \in Seq(S), NEW e \in S
  PROVE  /\ Append(s, e) \in Seq(S) /\ Len(Append(s, e)) = Len(s) + 1
         /\ \A i \in 1 .. Len(s) : Append(s, e)[i] = s[i]
         /\ Append(s, e)[Len(s) + 1] = e
         /\ Len(s) \in Nat
BY AppendProperties, LenProperties


-----------------------------------------------------------------------------
(* The stream *)

\* A call that writes holds the writer lock, found the stream open, and its
\* parent runs.
WriterHolds ==
  \A c \in Calls : callAt[c] \in {"write", "writing"} => wrHolder = c /\ wrOpen

CallerRuns == \A c \in Calls : callAt[c] \in InCall => parent

\* A frame that is not whole is the last one, and its call is still writing it
\* unless nobody will write again.
TornIsLast ==
  \A i \in 1 .. Len(requests) :
    ~requests[i].whole =>
      i = Len(requests) /\ (~wrOpen \/ ~parent \/ callAt[requests[i].id] = "writing")

\* A oneshot that was sent to has no slot left, and a call not yet made has
\* neither.
MailIsOut == \A c \in Calls : mail[c] # NoCall => c \notin pending /\ callAt[c] # "new"

StreamInv ==
  BridgeTypeOK /\ WriterHolds /\ CallerRuns /\ TornIsLast /\ MailIsOut /\ SlotHasCaller

\* The initial states satisfy the invariant.
LEMMA StreamInit == BridgeInit => StreamInv
<1> SUFFICES ASSUME BridgeInit PROVE StreamInv OBVIOUS
<1>1. requests \in Seq(Frame) /\ replies \in Seq(Reply) /\ Len(requests) = 0
  BY DEF BridgeInit
<1>2. Len(requests) <= Capacity BY <1>1, BridgeConstants
<1>3. BridgeTypeOK
  BY <1>1, <1>2 DEF BridgeInit, BridgeTypeOK, InCall, Alive
<1>4. WriterHolds /\ CallerRuns /\ MailIsOut /\ SlotHasCaller
  BY DEF BridgeInit, WriterHolds, CallerRuns, MailIsOut, SlotHasCaller, InCall
<1>5. TornIsLast BY <1>1 DEF TornIsLast
<1> QED BY <1>3, <1>4, <1>5 DEF StreamInv

\* What ending the write of the last frame leaves.
LEMMA EndedFrame ==
  ASSUME NEW s \in Seq(Frame)
  PROVE  LET t == [s EXCEPT ![Len(s)].whole = TRUE] IN
         /\ t \in Seq(Frame) /\ Len(t) = Len(s)
         /\ \A i \in 1 .. Len(s) : t[i].id = s[i].id /\ t[i].whole = (s[i].whole \/ i = Len(s))
<1> DEFINE t == [s EXCEPT ![Len(s)].whole = TRUE]
<1>1. Len(s) \in Nat /\ DOMAIN s = 1 .. Len(s) /\ \A i \in 1 .. Len(s) : s[i] \in Frame
  BY LenProperties, ElementOfSeq
<1>2. t = [i \in 1 .. Len(s) |-> IF i = Len(s) THEN [s[i] EXCEPT !.whole = TRUE] ELSE s[i]]
  BY <1>1
<1>3. \A i \in 1 .. Len(s) : t[i] \in Frame /\ t[i].id = s[i].id /\ t[i].whole = (s[i].whole \/ i = Len(s))
  BY <1>1, <1>2 DEF Frame
<1>4. t \in [1 .. Len(s) -> Frame] BY <1>2, <1>3
<1>5. t \in Seq(Frame) /\ Len(t) = Len(s) BY <1>1, <1>4
<1> QED BY <1>3, <1>5

\* Every step keeps the types.
LEMMA TypeStep ==
  ASSUME BridgeTypeOK, [BridgeNext]_bridgeVars
  PROVE  BridgeTypeOK'
<1>1. ASSUME NEW c \in Calls, BeginCall(c) PROVE BridgeTypeOK'
  BY <1>1 DEF BeginCall, Goto, FailCall, callVars, brokerVars, BridgeTypeOK, InCall
<1>2. ASSUME NEW c \in Calls, Oversized(c) PROVE BridgeTypeOK'
  BY <1>2 DEF Oversized, Goto, FailCall, callVars, brokerVars, BridgeTypeOK, InCall
<1>3. ASSUME NEW c \in Calls, Lock(c) PROVE BridgeTypeOK'
  BY <1>3 DEF Lock, Goto, FailCall, callVars, brokerVars, BridgeTypeOK, InCall
<1>4. ASSUME NEW c \in Calls, WriteBegin(c) PROVE BridgeTypeOK'
  <2>1. [id |-> c, whole |-> FALSE] \in Frame BY DEF Frame
  <2>2. requests' \in Seq(Frame) /\ Len(requests') <= Capacity
    BY <2>1, <1>4, AppendElements, BridgeConstants DEF WriteBegin, BridgeTypeOK
  <2> QED BY <2>2, <1>4 DEF WriteBegin, Goto, brokerVars, BridgeTypeOK, InCall
<1>5. ASSUME NEW c \in Calls, WriteEnd(c) PROVE BridgeTypeOK'
  <2>1. requests' \in Seq(Frame) /\ Len(requests') = Len(requests)
    BY <1>5, EndedFrame DEF WriteEnd, BridgeTypeOK
  <2> QED BY <2>1, <1>5 DEF WriteEnd, Goto, brokerVars, BridgeTypeOK, InCall
<1>6. ASSUME NEW c \in Calls, WriteFails(c) PROVE BridgeTypeOK'
  BY <1>6 DEF WriteFails, Goto, FailCall, callVars, brokerVars, BridgeTypeOK, InCall
<1>7. ASSUME NEW c \in Calls, Receive(c) PROVE BridgeTypeOK'
  BY <1>7 DEF Receive, Goto, FailCall, callVars, brokerVars, BridgeTypeOK, InCall
<1>8. ASSUME NEW c \in Calls, Expire(c) PROVE BridgeTypeOK'
  BY <1>8 DEF Expire, Goto, FailCall, callVars, brokerVars, BridgeTypeOK, InCall
<1>9. ASSUME NEW c \in Calls, Cancel(c) PROVE BridgeTypeOK'
  BY <1>9 DEF Cancel, Goto, FailCall, callVars, brokerVars, BridgeTypeOK, InCall
<1>10. ASSUME NEW c \in Calls, JobLaunch(c) PROVE BridgeTypeOK'
  BY <1>10 DEF JobLaunch, Goto, FailCall, callVars, brokerVars, BridgeTypeOK, InCall
<1>11. ASSUME NEW c \in Calls, JobDone(c) PROVE BridgeTypeOK'
  BY <1>11 DEF JobDone, Goto, FailCall, callVars, brokerVars, BridgeTypeOK, InCall
<1>12. ASSUME NEW c \in Calls, NEW res \in {"ok", "err"}, JobReply(c, res) PROVE BridgeTypeOK'
  <2>1. replies' \in Seq(Reply)
    BY <1>12, AppendElements DEF JobReply, BridgeTypeOK, Reply
  <2> QED BY <2>1, <1>12 DEF JobReply, callVars, BridgeTypeOK
<1>13. CASE ReaderRead
  <2>1. replies' \in Seq(Reply) /\ Head(replies) \in Reply
    BY <1>13, HeadTailProperties DEF ReaderRead, BridgeTypeOK
  <2>2. mail' \in [Calls -> {NoCall, "ok", "err"}]
    BY <1>13, <2>1 DEF ReaderRead, BridgeTypeOK, Reply
  <2> QED BY <2>1, <2>2, <1>13 DEF ReaderRead, brokerVars, BridgeTypeOK
<1>14. CASE ReaderEof
  BY <1>14 DEF ReaderEof, Goto, FailCall, callVars, brokerVars, BridgeTypeOK, InCall
<1>15. CASE BrokerRead
  <2>1. requests' \in Seq(Frame) /\ Len(requests') <= Capacity /\ Head(requests) \in Frame
    BY <1>15, HeadTailProperties, LenProperties, BridgeConstants DEF BrokerRead, BridgeTypeOK
  <2> QED BY <2>1, <1>15 DEF BrokerRead, callVars, BridgeTypeOK, Frame, Alive
<1>16. CASE BrokerReject
  <2>1. requests' \in Seq(Frame) /\ Len(requests') <= Capacity /\ Head(requests) \in Frame
    BY <1>16, HeadTailProperties, LenProperties, BridgeConstants DEF BrokerReject, BridgeTypeOK
  <2>2. replies' \in Seq(Reply)
    BY <1>16, <2>1, AppendElements DEF BrokerReject, BridgeTypeOK, Frame, Reply
  <2> QED BY <2>1, <2>2, <1>16 DEF BrokerReject, callVars, brokerVars, BridgeTypeOK
<1>17. CASE BrokerGarbage
  <2>1. Len(requests) \in Nat /\ requests # << >>
    BY <1>17, LenProperties DEF BrokerGarbage, BridgeTypeOK
  <2>2. Tail(requests) \in Seq(Frame) /\ Len(Tail(requests)) = Len(requests) - 1
    BY <2>1, HeadTailProperties DEF BridgeTypeOK
  <2>3. Tail(requests) # << >> BY <2>1, <2>2, <1>17 DEF BrokerGarbage
  <2>4. Tail(Tail(requests)) \in Seq(Frame) /\ Len(Tail(Tail(requests))) = Len(requests) - 2
    BY <2>1, <2>2, <2>3, HeadTailProperties
  <2>5. requests' \in {requests, Tail(Tail(requests))} BY <1>17 DEF BrokerGarbage
  <2>6. requests \in Seq(Frame) /\ Len(requests) <= Capacity /\ Capacity \in Nat
    BY BridgeConstants DEF BridgeTypeOK
  <2>7. requests' \in Seq(Frame) /\ Len(requests') <= Capacity
    <3>1. CASE requests' = requests BY <3>1, <2>6
    <3>2. CASE requests' = Tail(Tail(requests))
      <4>1. Len(requests) - 2 <= Capacity BY <2>1, <2>6
      <4> QED BY <3>2, <2>4, <4>1
    <3> QED BY <2>5, <3>1, <3>2
  <2> QED BY <2>7, <1>17 DEF BrokerGarbage, callVars, BridgeTypeOK, Alive
<1>18. CASE BrokerEof
  BY <1>18 DEF BrokerEof, callVars, BridgeTypeOK, Alive
<1>19. CASE DrainEnd
  BY <1>19 DEF DrainEnd, callVars, BridgeTypeOK, Alive
<1>20. CASE ShutdownAll
  BY <1>20 DEF ShutdownAll, callVars, BridgeTypeOK, Alive
<1>21. CASE ShutdownReply
  <2>1. replies' \in Seq(Reply)
    BY <1>21, AppendElements, BridgeConstants DEF ShutdownReply, BridgeTypeOK, Reply
  <2> QED BY <2>1, <1>21 DEF ShutdownReply, callVars, BridgeTypeOK, Alive
<1>22. CASE BrokerExit
  BY <1>22 DEF BrokerExit, callVars, BridgeTypeOK, Alive
<1>23. CASE ParentExit
  BY <1>23 DEF ParentExit, BridgeTypeOK, InCall, Alive
<1>24. CASE UNCHANGED bridgeVars
  BY <1>24 DEF bridgeVars, BridgeTypeOK
<1> QED
  BY <1>1, <1>2, <1>3, <1>4, <1>5, <1>6, <1>7, <1>8, <1>9, <1>10, <1>11, <1>12, <1>13,
     <1>14, <1>15, <1>16, <1>17, <1>18, <1>19, <1>20, <1>21, <1>22, <1>23, <1>24
     DEF BridgeNext, CallStep, JobStep, ReaderStep, BrokerStep

\* Every step keeps the writer with the call that writes.
LEMMA WriterStep ==
  ASSUME BridgeTypeOK, WriterHolds, CallerRuns, [BridgeNext]_bridgeVars
  PROVE  WriterHolds' /\ CallerRuns'
<1>1. ASSUME NEW c \in Calls, BeginCall(c) PROVE WriterHolds' /\ CallerRuns'
  BY <1>1 DEF BeginCall, Goto, FailCall, callVars, brokerVars, WriterHolds, CallerRuns,
     BridgeTypeOK, InCall
<1>2. ASSUME NEW c \in Calls, Oversized(c) PROVE WriterHolds' /\ CallerRuns'
  BY <1>2 DEF Oversized, Goto, FailCall, callVars, brokerVars, WriterHolds, CallerRuns,
     BridgeTypeOK, InCall
<1>3. ASSUME NEW c \in Calls, Lock(c) PROVE WriterHolds' /\ CallerRuns'
  BY <1>3, BridgeConstants DEF Lock, Goto, FailCall, brokerVars, WriterHolds, CallerRuns,
     BridgeTypeOK,
       InCall
<1>4. ASSUME NEW c \in Calls, WriteBegin(c) PROVE WriterHolds' /\ CallerRuns'
  BY <1>4 DEF WriteBegin, Goto, FailCall, callVars, brokerVars, WriterHolds, CallerRuns,
     BridgeTypeOK, InCall
<1>5. ASSUME NEW c \in Calls, WriteEnd(c) PROVE WriterHolds' /\ CallerRuns'
  BY <1>5 DEF WriteEnd, Goto, FailCall, callVars, brokerVars, WriterHolds, CallerRuns,
     BridgeTypeOK, InCall
<1>6. ASSUME NEW c \in Calls, WriteFails(c) PROVE WriterHolds' /\ CallerRuns'
  BY <1>6 DEF WriteFails, Goto, FailCall, callVars, brokerVars, WriterHolds, CallerRuns,
     BridgeTypeOK, InCall
<1>7. ASSUME NEW c \in Calls, Receive(c) PROVE WriterHolds' /\ CallerRuns'
  BY <1>7 DEF Receive, Goto, FailCall, callVars, brokerVars, WriterHolds, CallerRuns,
     BridgeTypeOK, InCall
<1>8. ASSUME NEW c \in Calls, Expire(c) PROVE WriterHolds' /\ CallerRuns'
  BY <1>8 DEF Expire, Goto, FailCall, callVars, brokerVars, WriterHolds, CallerRuns, BridgeTypeOK,
     InCall
<1>9. ASSUME NEW c \in Calls, Cancel(c) PROVE WriterHolds' /\ CallerRuns'
  BY <1>9 DEF Cancel, Goto, FailCall, callVars, brokerVars, WriterHolds, CallerRuns, BridgeTypeOK,
     InCall
<1>10. ASSUME NEW c \in Calls, JobLaunch(c) PROVE WriterHolds' /\ CallerRuns'
  BY <1>10 DEF JobLaunch, Goto, FailCall, callVars, brokerVars, WriterHolds, CallerRuns,
     BridgeTypeOK, InCall
<1>11. ASSUME NEW c \in Calls, JobDone(c) PROVE WriterHolds' /\ CallerRuns'
  BY <1>11 DEF JobDone, Goto, FailCall, callVars, brokerVars, WriterHolds, CallerRuns,
     BridgeTypeOK, InCall
<1>12. ASSUME NEW c \in Calls, NEW res \in {"ok", "err"}, JobReply(c, res) PROVE WriterHolds' /\ CallerRuns'
  BY <1>12 DEF JobReply, Goto, FailCall, callVars, brokerVars, WriterHolds, CallerRuns,
     BridgeTypeOK, InCall
<1>13. CASE ReaderRead
  BY <1>13 DEF ReaderRead, Goto, FailCall, callVars, brokerVars, WriterHolds, CallerRuns,
     BridgeTypeOK, InCall
<1>14. CASE ReaderEof
  BY <1>14 DEF ReaderEof, Goto, FailCall, callVars, brokerVars, WriterHolds, CallerRuns,
     BridgeTypeOK, InCall
<1>15. CASE BrokerRead
  BY <1>15 DEF BrokerRead, Goto, FailCall, callVars, brokerVars, WriterHolds, CallerRuns,
     BridgeTypeOK, InCall
<1>16. CASE BrokerReject
  BY <1>16 DEF BrokerReject, Goto, FailCall, callVars, brokerVars, WriterHolds, CallerRuns,
     BridgeTypeOK, InCall
<1>17. CASE BrokerGarbage
  BY <1>17 DEF BrokerGarbage, Goto, FailCall, callVars, brokerVars, WriterHolds, CallerRuns,
     BridgeTypeOK, InCall
<1>18. CASE BrokerEof
  BY <1>18 DEF BrokerEof, Goto, FailCall, callVars, brokerVars, WriterHolds, CallerRuns,
     BridgeTypeOK, InCall
<1>19. CASE DrainEnd
  BY <1>19 DEF DrainEnd, Goto, FailCall, callVars, brokerVars, WriterHolds, CallerRuns,
     BridgeTypeOK, InCall
<1>20. CASE ShutdownAll
  BY <1>20 DEF ShutdownAll, Goto, FailCall, callVars, brokerVars, WriterHolds, CallerRuns,
     BridgeTypeOK, InCall
<1>21. CASE ShutdownReply
  BY <1>21 DEF ShutdownReply, Goto, FailCall, callVars, brokerVars, WriterHolds, CallerRuns,
     BridgeTypeOK, InCall
<1>22. CASE BrokerExit
  BY <1>22 DEF BrokerExit, Goto, FailCall, callVars, brokerVars, WriterHolds, CallerRuns,
     BridgeTypeOK, InCall
<1>23. CASE ParentExit
  BY <1>23 DEF ParentExit, Goto, FailCall, callVars, brokerVars, WriterHolds, CallerRuns,
     BridgeTypeOK, InCall
<1>24. CASE UNCHANGED bridgeVars
  BY <1>24 DEF bridgeVars, WriterHolds, CallerRuns
<1> QED
  BY <1>1, <1>2, <1>3, <1>4, <1>5, <1>6, <1>7, <1>8, <1>9, <1>10, <1>11, <1>12, <1>13,
     <1>14, <1>15, <1>16, <1>17, <1>18, <1>19, <1>20, <1>21, <1>22, <1>23, <1>24
     DEF BridgeNext, CallStep, JobStep, ReaderStep, BrokerStep

\* Without cancellation every step keeps the slots with their callers.
LEMMA SlotStep ==
  ASSUME Cancellable = FALSE, BridgeTypeOK, CallerRuns, MailIsOut, SlotHasCaller,
         [BridgeNext]_bridgeVars
  PROVE  MailIsOut' /\ SlotHasCaller'
<1>1. ASSUME NEW c \in Calls, BeginCall(c) PROVE MailIsOut' /\ SlotHasCaller'
  BY <1>1, BridgeConstants DEF BeginCall, Goto, FailCall, callVars, brokerVars, MailIsOut,
     SlotHasCaller, BridgeTypeOK, InCall
<1>2. ASSUME NEW c \in Calls, Oversized(c) PROVE MailIsOut' /\ SlotHasCaller'
  BY <1>2, BridgeConstants DEF Oversized, Goto, FailCall, callVars, brokerVars, MailIsOut,
     SlotHasCaller, BridgeTypeOK, InCall
<1>3. ASSUME NEW c \in Calls, Lock(c) PROVE MailIsOut' /\ SlotHasCaller'
  BY <1>3, BridgeConstants DEF Lock, Goto, FailCall, callVars, brokerVars, MailIsOut,
     SlotHasCaller, BridgeTypeOK, InCall
<1>4. ASSUME NEW c \in Calls, WriteBegin(c) PROVE MailIsOut' /\ SlotHasCaller'
  BY <1>4, BridgeConstants DEF WriteBegin, Goto, FailCall, callVars, brokerVars, MailIsOut,
     SlotHasCaller, BridgeTypeOK, InCall
<1>5. ASSUME NEW c \in Calls, WriteEnd(c) PROVE MailIsOut' /\ SlotHasCaller'
  BY <1>5, BridgeConstants DEF WriteEnd, Goto, FailCall, callVars, brokerVars, MailIsOut,
     SlotHasCaller, BridgeTypeOK, InCall
<1>6. ASSUME NEW c \in Calls, WriteFails(c) PROVE MailIsOut' /\ SlotHasCaller'
  BY <1>6, BridgeConstants DEF WriteFails, Goto, FailCall, callVars, brokerVars, MailIsOut,
     SlotHasCaller, BridgeTypeOK, InCall
<1>7. ASSUME NEW c \in Calls, Receive(c) PROVE MailIsOut' /\ SlotHasCaller'
  BY <1>7, BridgeConstants DEF Receive, Goto, FailCall, callVars, brokerVars, MailIsOut,
     SlotHasCaller, BridgeTypeOK, InCall
<1>8. ASSUME NEW c \in Calls, Expire(c) PROVE MailIsOut' /\ SlotHasCaller'
  BY <1>8, BridgeConstants DEF Expire, Goto, FailCall, callVars, brokerVars, MailIsOut,
     SlotHasCaller, BridgeTypeOK, InCall
<1>9. ASSUME NEW c \in Calls, Cancel(c) PROVE MailIsOut' /\ SlotHasCaller'
  BY <1>9 DEF Cancel
<1>10. ASSUME NEW c \in Calls, JobLaunch(c) PROVE MailIsOut' /\ SlotHasCaller'
  BY <1>10, BridgeConstants DEF JobLaunch, Goto, FailCall, callVars, brokerVars, MailIsOut,
     SlotHasCaller, BridgeTypeOK, InCall
<1>11. ASSUME NEW c \in Calls, JobDone(c) PROVE MailIsOut' /\ SlotHasCaller'
  BY <1>11, BridgeConstants DEF JobDone, Goto, FailCall, callVars, brokerVars, MailIsOut,
     SlotHasCaller, BridgeTypeOK, InCall
<1>12. ASSUME NEW c \in Calls, NEW res \in {"ok", "err"}, JobReply(c, res) PROVE MailIsOut' /\ SlotHasCaller'
  BY <1>12, BridgeConstants DEF JobReply, Goto, FailCall, callVars, brokerVars, MailIsOut,
     SlotHasCaller, BridgeTypeOK, InCall
<1>13. CASE ReaderRead
  <2>1. Head(replies) \in Reply
    BY <1>13, HeadTailProperties DEF ReaderRead, BridgeTypeOK
  <2> QED
    BY <2>1, <1>13 DEF ReaderRead, brokerVars, MailIsOut, SlotHasCaller, BridgeTypeOK, Reply,
       InCall
<1>14. CASE ReaderEof
  BY <1>14, BridgeConstants DEF ReaderEof, Goto, FailCall, callVars, brokerVars, MailIsOut,
     SlotHasCaller, BridgeTypeOK, InCall
<1>15. CASE BrokerRead
  BY <1>15, BridgeConstants DEF BrokerRead, Goto, FailCall, callVars, brokerVars, MailIsOut,
     SlotHasCaller, BridgeTypeOK, InCall
<1>16. CASE BrokerReject
  BY <1>16, BridgeConstants DEF BrokerReject, Goto, FailCall, callVars, brokerVars, MailIsOut,
     SlotHasCaller, BridgeTypeOK, InCall
<1>17. CASE BrokerGarbage
  BY <1>17, BridgeConstants DEF BrokerGarbage, Goto, FailCall, callVars, brokerVars, MailIsOut,
     SlotHasCaller, BridgeTypeOK, InCall
<1>18. CASE BrokerEof
  BY <1>18, BridgeConstants DEF BrokerEof, Goto, FailCall, callVars, brokerVars, MailIsOut,
     SlotHasCaller, BridgeTypeOK, InCall
<1>19. CASE DrainEnd
  BY <1>19, BridgeConstants DEF DrainEnd, Goto, FailCall, callVars, brokerVars, MailIsOut,
     SlotHasCaller, BridgeTypeOK, InCall
<1>20. CASE ShutdownAll
  BY <1>20, BridgeConstants DEF ShutdownAll, Goto, FailCall, callVars, brokerVars, MailIsOut,
     SlotHasCaller, BridgeTypeOK, InCall
<1>21. CASE ShutdownReply
  BY <1>21, BridgeConstants DEF ShutdownReply, Goto, FailCall, callVars, brokerVars, MailIsOut,
     SlotHasCaller, BridgeTypeOK, InCall
<1>22. CASE BrokerExit
  BY <1>22, BridgeConstants DEF BrokerExit, Goto, FailCall, callVars, brokerVars, MailIsOut,
     SlotHasCaller, BridgeTypeOK, InCall
<1>23. CASE ParentExit
  BY <1>23, BridgeConstants DEF ParentExit, Goto, FailCall, callVars, brokerVars, MailIsOut,
     SlotHasCaller, BridgeTypeOK, InCall
<1>24. CASE UNCHANGED bridgeVars
  BY <1>24 DEF bridgeVars, MailIsOut, SlotHasCaller
<1> QED
  BY <1>1, <1>2, <1>3, <1>4, <1>5, <1>6, <1>7, <1>8, <1>9, <1>10, <1>11, <1>12, <1>13,
     <1>14, <1>15, <1>16, <1>17, <1>18, <1>19, <1>20, <1>21, <1>22, <1>23, <1>24
     DEF BridgeNext, CallStep, JobStep, ReaderStep, BrokerStep

\* Every frame is of a call.
LEMMA FrameIds ==
  ASSUME BridgeTypeOK
  PROVE  \A i \in 1 .. Len(requests) : requests[i].id \in Calls
<1>1. \A i \in 1 .. Len(requests) : requests[i] \in Frame
  <2>1. requests \in Seq(Frame) BY DEF BridgeTypeOK
  <2> QED BY <2>1, ElementOfSeq
<1> QED BY <1>1 DEF Frame

\* Reading a frame leaves a torn one last.
LEMMA TornTail ==
  ASSUME BridgeTypeOK, TornIsLast, requests # << >>, requests' = Tail(requests),
         UNCHANGED <<callAt, wrOpen, parent>>
  PROVE  TornIsLast'
BY TailElements DEF BridgeTypeOK, TornIsLast

\* A step that leaves the frames alone, opens nothing and takes no call out of
\* its write leaves a torn frame last.
LEMMA TornStays ==
  ASSUME BridgeTypeOK, TornIsLast, UNCHANGED requests, wrOpen' => wrOpen, parent' => parent,
         \A c \in Calls : callAt[c] = "writing" => ~wrOpen' \/ ~parent' \/ callAt'[c] = "writing"
  PROVE  TornIsLast'
<1>1. \A i \in 1 .. Len(requests) : requests[i].id \in Calls BY FrameIds
<1> QED BY <1>1 DEF TornIsLast

\* Without cancellation nothing is written behind a torn frame.
LEMMA TornStep ==
  ASSUME Cancellable = FALSE, BridgeTypeOK, WriterHolds, CallerRuns, TornIsLast,
         [BridgeNext]_bridgeVars
  PROVE  TornIsLast'
<1>1. ASSUME NEW c \in Calls, BeginCall(c) PROVE TornIsLast'
  BY <1>1, TornStays DEF BeginCall, Goto, FailCall, callVars, brokerVars, BridgeTypeOK
<1>2. ASSUME NEW c \in Calls, Oversized(c) PROVE TornIsLast'
  BY <1>2, TornStays DEF Oversized, Goto, FailCall, callVars, brokerVars, BridgeTypeOK
<1>3. ASSUME NEW c \in Calls, Lock(c) PROVE TornIsLast'
  BY <1>3, TornStays DEF Lock, Goto, FailCall, callVars, brokerVars, BridgeTypeOK
<1>4. ASSUME NEW c \in Calls, WriteBegin(c) PROVE TornIsLast'
  <2>1. [id |-> c, whole |-> FALSE] \in Frame BY DEF Frame
  <2>2. /\ Len(requests') = Len(requests) + 1 /\ Len(requests) \in Nat
        /\ \A i \in 1 .. Len(requests) : requests'[i] = requests[i]
        /\ requests'[Len(requests) + 1] = [id |-> c, whole |-> FALSE]
    BY <2>1, <1>4, AppendElements DEF WriteBegin, BridgeTypeOK
  <2>3. \A i \in 1 .. Len(requests) : requests[i].id \in Calls BY FrameIds
  <2>4. \A i \in 1 .. Len(requests) : requests[i].whole
    BY <2>3, <1>4 DEF WriteBegin, TornIsLast, WriterHolds, CallerRuns, InCall
  <2>5. callAt'[c] = "writing" BY <1>4 DEF WriteBegin, Goto, BridgeTypeOK
  <2> QED BY <2>2, <2>4, <2>5 DEF TornIsLast
<1>5. ASSUME NEW c \in Calls, WriteEnd(c) PROVE TornIsLast'
  <2>1. /\ Len(requests') = Len(requests)
        /\ \A i \in 1 .. Len(requests) : requests'[i].whole = (requests[i].whole \/ i = Len(requests))
    BY <1>5, EndedFrame DEF WriteEnd, BridgeTypeOK
  <2> QED BY <2>1 DEF TornIsLast
<1>6. ASSUME NEW c \in Calls, WriteFails(c) PROVE TornIsLast'
  BY <1>6, TornStays DEF WriteFails, Goto, FailCall, callVars, brokerVars, BridgeTypeOK
<1>7. ASSUME NEW c \in Calls, Receive(c) PROVE TornIsLast'
  BY <1>7, TornStays DEF Receive, Goto, FailCall, callVars, brokerVars, BridgeTypeOK
<1>8. ASSUME NEW c \in Calls, Expire(c) PROVE TornIsLast'
  BY <1>8, TornStays DEF Expire, Goto, FailCall, callVars, brokerVars, BridgeTypeOK
<1>9. ASSUME NEW c \in Calls, Cancel(c) PROVE TornIsLast'
  BY <1>9 DEF Cancel
<1>10. ASSUME NEW c \in Calls, JobLaunch(c) PROVE TornIsLast'
  BY <1>10, TornStays DEF JobLaunch, Goto, FailCall, callVars, brokerVars, BridgeTypeOK
<1>11. ASSUME NEW c \in Calls, JobDone(c) PROVE TornIsLast'
  BY <1>11, TornStays DEF JobDone, Goto, FailCall, callVars, brokerVars, BridgeTypeOK
<1>12. ASSUME NEW c \in Calls, NEW res \in {"ok", "err"}, JobReply(c, res) PROVE TornIsLast'
  BY <1>12, TornStays DEF JobReply, Goto, FailCall, callVars, brokerVars, BridgeTypeOK
<1>13. CASE ReaderRead
  BY <1>13, TornStays DEF ReaderRead, Goto, FailCall, callVars, brokerVars, BridgeTypeOK
<1>14. CASE ReaderEof
  BY <1>14, TornStays DEF ReaderEof, Goto, FailCall, callVars, brokerVars, BridgeTypeOK
<1>15. CASE BrokerRead
  <2>1. requests' = Tail(requests) /\ requests # << >> BY <1>15 DEF BrokerRead
  <2>2. UNCHANGED <<callAt, wrOpen, parent>> BY <1>15 DEF BrokerRead, callVars
  <2> QED BY <2>1, <2>2, TornTail
<1>16. CASE BrokerReject
  <2>1. requests' = Tail(requests) /\ requests # << >> BY <1>16 DEF BrokerReject
  <2>2. UNCHANGED <<callAt, wrOpen, parent>> BY <1>16 DEF BrokerReject, callVars
  <2> QED BY <2>1, <2>2, TornTail
<1>17. CASE BrokerGarbage
  <2>1. Len(requests) \in Nat /\ Head(requests) = requests[1]
    BY LenProperties, <1>17 DEF BrokerGarbage, BridgeTypeOK
  <2> QED BY <2>1, <1>17 DEF BrokerGarbage, TornIsLast
<1>18. CASE BrokerEof
  BY <1>18, TornStays DEF BrokerEof, Goto, FailCall, callVars, brokerVars, BridgeTypeOK
<1>19. CASE DrainEnd
  BY <1>19, TornStays DEF DrainEnd, Goto, FailCall, callVars, brokerVars, BridgeTypeOK
<1>20. CASE ShutdownAll
  BY <1>20, TornStays DEF ShutdownAll, Goto, FailCall, callVars, brokerVars, BridgeTypeOK
<1>21. CASE ShutdownReply
  BY <1>21, TornStays DEF ShutdownReply, Goto, FailCall, callVars, brokerVars, BridgeTypeOK
<1>22. CASE BrokerExit
  BY <1>22, TornStays DEF BrokerExit, Goto, FailCall, callVars, brokerVars, BridgeTypeOK
<1>23. CASE ParentExit
  BY <1>23, TornStays DEF ParentExit, Goto, FailCall, callVars, brokerVars, BridgeTypeOK
<1>24. CASE UNCHANGED bridgeVars
  BY <1>24, TornStays DEF bridgeVars
<1> QED
  BY <1>1, <1>2, <1>3, <1>4, <1>5, <1>6, <1>7, <1>8, <1>9, <1>10, <1>11, <1>12, <1>13,
     <1>14, <1>15, <1>16, <1>17, <1>18, <1>19, <1>20, <1>21, <1>22, <1>23, <1>24
     DEF BridgeNext, CallStep, JobStep, ReaderStep, BrokerStep

\* A torn frame is the last.
LEMMA StreamInvImplies == StreamInv => BridgeSafe
BY DEF StreamInv, BridgeSafe, TornIsLast, NothingAfterTornFrame

\* While no client goes away in mid-call, no deadline, wherever it strikes, lets
\* anything be written behind a torn frame or leaves a slot in the multiplex
\* table without its caller.
THEOREM StreamSurvivesDeadlines ==
  ASSUME Cancellable = FALSE
  PROVE  BridgeSpec => []BridgeSafe
<1>1. StreamInv /\ [BridgeNext]_bridgeVars => StreamInv'
  BY TypeStep, WriterStep, SlotStep, TornStep DEF StreamInv
<1> QED BY <1>1, StreamInit, StreamInvImplies, PTL DEF BridgeSpec

-----------------------------------------------------------------------------
(* The end of the broker *)

AllDown == \A c \in Creates : vm[c] \in {"none", "down"}

ShutdownReplied == \E i \in 1 .. Len(replies) : replies[i].id = Shutdown

\* The parent's ShutdownAll has its answer, or the answer is on its way.
Answered ==
  callAt[Shutdown] \in {"ok", "err"} \/ mail[Shutdown] # NoCall \/ ShutdownReplied

\* A VM that runs and is not in the table yet has its dispatch job; none is left
\* once the drain is over; ShutdownAll itself is no job.
JobsDrained ==
  /\ ~late
  /\ job[Shutdown] = "none"
  /\ \A c \in Creates : vm[c] = "launched" => job[c] = "run"
  /\ broker \in {"shutdown", "answer", "closing"} =>
       \A c \in Calls : job[c] \notin {"run", "reply"}

\* A broker that runs has its request stream; once it answered ShutdownAll it is
\* about to exit, and has no VM; nor has it any when it is gone.
EndsEmpty ==
  /\ broker \in Alive => wrOpen
  /\ Answered /\ broker \in Alive => broker = "closing" /\ AllDown
  /\ broker \in {"answer", "exited", "killed"} => AllDown

StopInv == BridgeTypeOK /\ JobsDrained /\ EndsEmpty

\* The initial states satisfy the invariant.
LEMMA StopInit == BridgeInit => StopInv
<1> SUFFICES ASSUME BridgeInit PROVE StopInv OBVIOUS
<1>1. BridgeTypeOK BY StreamInit DEF StreamInv
<1>2. JobsDrained BY BridgeConstants DEF BridgeInit, JobsDrained
<1>3. Len(replies) = 0 BY DEF BridgeInit
<1>4. ~Answered BY <1>3, BridgeConstants DEF BridgeInit, Answered, ShutdownReplied
<1>5. EndsEmpty BY <1>4 DEF EndsEmpty, BridgeInit
<1> QED BY <1>1, <1>2, <1>5 DEF StopInv

\* While no deadline runs out, every step keeps the jobs behind the VMs, and the
\* drain waits for all of them.
LEMMA JobsStep ==
  ASSUME Deadlines = {}, BridgeTypeOK, JobsDrained, [BridgeNext]_bridgeVars
  PROVE  JobsDrained'
<1>1. ASSUME NEW c \in Calls, BeginCall(c) PROVE JobsDrained'
  BY <1>1 DEF BeginCall, brokerVars, JobsDrained
<1>2. ASSUME NEW c \in Calls, Oversized(c) PROVE JobsDrained'
  BY <1>2 DEF Oversized, brokerVars, JobsDrained
<1>3. ASSUME NEW c \in Calls, Lock(c) PROVE JobsDrained'
  BY <1>3 DEF Lock, brokerVars, JobsDrained
<1>4. ASSUME NEW c \in Calls, WriteBegin(c) PROVE JobsDrained'
  BY <1>4 DEF WriteBegin, brokerVars, JobsDrained
<1>5. ASSUME NEW c \in Calls, WriteEnd(c) PROVE JobsDrained'
  BY <1>5 DEF WriteEnd, brokerVars, JobsDrained
<1>6. ASSUME NEW c \in Calls, WriteFails(c) PROVE JobsDrained'
  BY <1>6 DEF WriteFails, brokerVars, JobsDrained
<1>7. ASSUME NEW c \in Calls, Receive(c) PROVE JobsDrained'
  BY <1>7 DEF Receive, brokerVars, JobsDrained
<1>8. ASSUME NEW c \in Calls, Expire(c) PROVE JobsDrained'
  BY <1>8 DEF Expire, brokerVars, JobsDrained
<1>9. ASSUME NEW c \in Calls, Cancel(c) PROVE JobsDrained'
  BY <1>9 DEF Cancel, brokerVars, JobsDrained
<1>10. ASSUME NEW c \in Calls, JobLaunch(c) PROVE JobsDrained'
  BY <1>10, BridgeConstants DEF JobLaunch, callVars, JobsDrained, BridgeTypeOK, Alive
<1>11. ASSUME NEW c \in Calls, JobDone(c) PROVE JobsDrained'
  BY <1>11, BridgeConstants DEF JobDone, callVars, JobsDrained, BridgeTypeOK, Alive
<1>12. ASSUME NEW c \in Calls, NEW res \in {"ok", "err"}, JobReply(c, res) PROVE JobsDrained'
  BY <1>12, BridgeConstants DEF JobReply, callVars, JobsDrained, BridgeTypeOK, Alive
<1>13. CASE ReaderRead
  BY <1>13 DEF ReaderRead, brokerVars, JobsDrained
<1>14. CASE ReaderEof
  BY <1>14 DEF ReaderEof, brokerVars, JobsDrained
<1>15. CASE BrokerRead
  <2>1. Head(requests) \in Frame
    BY <1>15, HeadTailProperties DEF BrokerRead, BridgeTypeOK
  <2> QED BY <1>15, <2>1, BridgeConstants DEF BrokerRead, JobsDrained, BridgeTypeOK, Frame
<1>16. CASE BrokerReject
  BY <1>16 DEF BrokerReject, brokerVars, JobsDrained
<1>17. CASE BrokerGarbage
  BY <1>17, BridgeConstants DEF BrokerGarbage, callVars, JobsDrained, BridgeTypeOK, Alive
<1>18. CASE BrokerEof
  BY <1>18, BridgeConstants DEF BrokerEof, callVars, JobsDrained, BridgeTypeOK, Alive
<1>19. CASE DrainEnd
  BY <1>19, BridgeConstants DEF DrainEnd, callVars, JobsDrained, BridgeTypeOK, Alive
<1>20. CASE ShutdownAll
  BY <1>20, BridgeConstants DEF ShutdownAll, callVars, JobsDrained, BridgeTypeOK, Alive
<1>21. CASE ShutdownReply
  BY <1>21, BridgeConstants DEF ShutdownReply, callVars, JobsDrained, BridgeTypeOK, Alive
<1>22. CASE BrokerExit
  BY <1>22, BridgeConstants DEF BrokerExit, callVars, JobsDrained, BridgeTypeOK, Alive
<1>23. CASE ParentExit
  BY <1>23 DEF ParentExit, JobsDrained, Alive
<1>24. CASE UNCHANGED bridgeVars
  BY <1>24 DEF bridgeVars, JobsDrained
<1> QED
  BY <1>1, <1>2, <1>3, <1>4, <1>5, <1>6, <1>7, <1>8, <1>9, <1>10, <1>11, <1>12, <1>13,
     <1>14, <1>15, <1>16, <1>17, <1>18, <1>19, <1>20, <1>21, <1>22, <1>23, <1>24
     DEF BridgeNext, CallStep, JobStep, ReaderStep, BrokerStep

\* Reading a reply finds no answer to ShutdownAll that was not there.
LEMMA RepliedTail ==
  ASSUME BridgeTypeOK, replies # << >>
  PROVE  /\ ShutdownReplied \/ Head(replies).id # Shutdown
         /\ (\E i \in 1 .. Len(Tail(replies)) : Tail(replies)[i].id = Shutdown) => ShutdownReplied
BY TailElements DEF BridgeTypeOK, ShutdownReplied

\* A reply to another call is no answer to ShutdownAll.
LEMMA RepliedAppend ==
  ASSUME BridgeTypeOK, NEW r \in Reply, r.id # Shutdown, replies' = Append(replies, r),
         ShutdownReplied'
  PROVE  ShutdownReplied
BY AppendElements DEF BridgeTypeOK, ShutdownReplied

\* While no deadline runs out, ShutdownAll gets its answer from the broker that
\* carried it out, or from the end of its stream.
LEMMA AnswerStep ==
  ASSUME Deadlines = {}, BridgeTypeOK, JobsDrained, EndsEmpty, [BridgeNext]_bridgeVars, Answered'
  PROVE  Answered \/ broker \notin Alive \/ ShutdownReply
<1>1. ASSUME NEW c \in Calls, BeginCall(c) PROVE Answered \/ broker \notin Alive \/ ShutdownReply
  BY <1>1, BridgeConstants DEF BeginCall, Goto, FailCall, callVars, brokerVars, Answered,
     ShutdownReplied, BridgeTypeOK,
       EndsEmpty
<1>2. ASSUME NEW c \in Calls, Oversized(c) PROVE Answered \/ broker \notin Alive \/ ShutdownReply
  BY <1>2, BridgeConstants DEF Oversized, Goto, FailCall, callVars, brokerVars, Answered,
     ShutdownReplied, BridgeTypeOK,
       EndsEmpty
<1>3. ASSUME NEW c \in Calls, Lock(c) PROVE Answered \/ broker \notin Alive \/ ShutdownReply
  BY <1>3, BridgeConstants DEF Lock, Goto, FailCall, callVars, brokerVars, Answered,
     ShutdownReplied, BridgeTypeOK,
       EndsEmpty
<1>4. ASSUME NEW c \in Calls, WriteBegin(c) PROVE Answered \/ broker \notin Alive \/ ShutdownReply
  BY <1>4, BridgeConstants DEF WriteBegin, Goto, FailCall, callVars, brokerVars, Answered,
     ShutdownReplied, BridgeTypeOK,
       EndsEmpty
<1>5. ASSUME NEW c \in Calls, WriteEnd(c) PROVE Answered \/ broker \notin Alive \/ ShutdownReply
  BY <1>5, BridgeConstants DEF WriteEnd, Goto, FailCall, callVars, brokerVars, Answered,
     ShutdownReplied, BridgeTypeOK,
       EndsEmpty
<1>6. ASSUME NEW c \in Calls, WriteFails(c) PROVE Answered \/ broker \notin Alive \/ ShutdownReply
  BY <1>6, BridgeConstants DEF WriteFails, Goto, FailCall, callVars, brokerVars, Answered,
     ShutdownReplied, BridgeTypeOK,
       EndsEmpty
<1>7. ASSUME NEW c \in Calls, Receive(c) PROVE Answered \/ broker \notin Alive \/ ShutdownReply
  BY <1>7, BridgeConstants DEF Receive, Goto, brokerVars, Answered, ShutdownReplied, BridgeTypeOK
<1>8. ASSUME NEW c \in Calls, Expire(c) PROVE Answered \/ broker \notin Alive \/ ShutdownReply
  BY <1>8, BridgeConstants DEF Expire, Goto, FailCall, callVars, brokerVars, Answered,
     ShutdownReplied, BridgeTypeOK,
       EndsEmpty
<1>9. ASSUME NEW c \in Calls, Cancel(c) PROVE Answered \/ broker \notin Alive \/ ShutdownReply
  BY <1>9, BridgeConstants DEF Cancel, Goto, FailCall, callVars, brokerVars, Answered,
     ShutdownReplied, BridgeTypeOK,
       EndsEmpty
<1>10. ASSUME NEW c \in Calls, JobLaunch(c) PROVE Answered \/ broker \notin Alive \/ ShutdownReply
  BY <1>10, BridgeConstants DEF JobLaunch, Goto, FailCall, callVars, brokerVars, Answered,
     ShutdownReplied, BridgeTypeOK,
       EndsEmpty
<1>11. ASSUME NEW c \in Calls, JobDone(c) PROVE Answered \/ broker \notin Alive \/ ShutdownReply
  BY <1>11, BridgeConstants DEF JobDone, Goto, FailCall, callVars, brokerVars, Answered,
     ShutdownReplied, BridgeTypeOK,
       EndsEmpty
<1>12. ASSUME NEW c \in Calls, NEW res \in {"ok", "err"}, JobReply(c, res) PROVE Answered \/ broker \notin Alive \/ ShutdownReply
  <2>1. ShutdownReplied' => ShutdownReplied
    BY <1>12, RepliedAppend DEF JobReply, JobsDrained, Reply
  <2> QED BY <1>12, <2>1 DEF JobReply, callVars, Answered
<1>13. CASE ReaderRead
  <2>1. Head(replies) \in Reply
    BY <1>13, HeadTailProperties DEF ReaderRead, BridgeTypeOK
  <2>2. ShutdownReplied' => ShutdownReplied
    BY <1>13, RepliedTail DEF ReaderRead, ShutdownReplied
  <2>3. ~(mail'[Shutdown] = mail[Shutdown]) => Head(replies).id = Shutdown
    BY <1>13, <2>1 DEF ReaderRead, BridgeTypeOK, Reply
  <2> QED BY <1>13, <2>2, <2>3, RepliedTail DEF ReaderRead, Answered
<1>14. CASE ReaderEof
  BY <1>14, BridgeConstants DEF ReaderEof, Goto, FailCall, callVars, brokerVars, Answered,
     ShutdownReplied, BridgeTypeOK,
       EndsEmpty
<1>15. CASE BrokerRead
  BY <1>15, BridgeConstants DEF BrokerRead, Goto, FailCall, callVars, brokerVars, Answered,
     ShutdownReplied, BridgeTypeOK,
       EndsEmpty
<1>16. CASE BrokerReject
  <2>1. Head(requests) \in Frame BY <1>16, HeadTailProperties DEF BrokerReject, BridgeTypeOK
  <2>2. ShutdownReplied' => ShutdownReplied
    BY <1>16, <2>1, RepliedAppend DEF BrokerReject, Frame, Reply
  <2> QED BY <1>16, <2>2 DEF BrokerReject, callVars, Answered
<1>17. CASE BrokerGarbage
  BY <1>17, BridgeConstants DEF BrokerGarbage, Goto, FailCall, callVars, brokerVars, Answered,
     ShutdownReplied, BridgeTypeOK,
       EndsEmpty
<1>18. CASE BrokerEof
  BY <1>18, BridgeConstants DEF BrokerEof, Goto, FailCall, callVars, brokerVars, Answered,
     ShutdownReplied, BridgeTypeOK,
       EndsEmpty
<1>19. CASE DrainEnd
  BY <1>19, BridgeConstants DEF DrainEnd, Goto, FailCall, callVars, brokerVars, Answered,
     ShutdownReplied, BridgeTypeOK,
       EndsEmpty
<1>20. CASE ShutdownAll
  BY <1>20, BridgeConstants DEF ShutdownAll, Goto, FailCall, callVars, brokerVars, Answered,
     ShutdownReplied, BridgeTypeOK,
       EndsEmpty
<1>21. CASE ShutdownReply
  BY <1>21
<1>22. CASE BrokerExit
  BY <1>22, BridgeConstants DEF BrokerExit, Goto, FailCall, callVars, brokerVars, Answered,
     ShutdownReplied, BridgeTypeOK,
       EndsEmpty
<1>23. CASE ParentExit
  BY <1>23, BridgeConstants DEF ParentExit, Goto, FailCall, callVars, brokerVars, Answered,
     ShutdownReplied, BridgeTypeOK,
       EndsEmpty
<1>24. CASE UNCHANGED bridgeVars
  BY <1>24 DEF bridgeVars, Answered, ShutdownReplied
<1> QED
  BY <1>1, <1>2, <1>3, <1>4, <1>5, <1>6, <1>7, <1>8, <1>9, <1>10, <1>11, <1>12, <1>13,
     <1>14, <1>15, <1>16, <1>17, <1>18, <1>19, <1>20, <1>21, <1>22, <1>23, <1>24
     DEF BridgeNext, CallStep, JobStep, ReaderStep, BrokerStep

\* While no deadline runs out, every step keeps a broker that answered
\* ShutdownAll, or is gone, without a VM.
LEMMA EndStep ==
  ASSUME Deadlines = {}, BridgeTypeOK, JobsDrained, EndsEmpty, [BridgeNext]_bridgeVars
  PROVE  EndsEmpty'
<1>0. Answered' => Answered \/ broker \notin Alive \/ (broker = "answer" /\ broker' = "closing")
  BY AnswerStep DEF ShutdownReply
<1>1. ASSUME NEW c \in Calls, BeginCall(c) PROVE EndsEmpty'
  BY <1>1, <1>0 DEF BeginCall, brokerVars, EndsEmpty, AllDown, Alive
<1>2. ASSUME NEW c \in Calls, Oversized(c) PROVE EndsEmpty'
  BY <1>2, <1>0 DEF Oversized, brokerVars, EndsEmpty, AllDown, Alive
<1>3. ASSUME NEW c \in Calls, Lock(c) PROVE EndsEmpty'
  BY <1>3, <1>0 DEF Lock, brokerVars, EndsEmpty, AllDown, Alive
<1>4. ASSUME NEW c \in Calls, WriteBegin(c) PROVE EndsEmpty'
  BY <1>4, <1>0 DEF WriteBegin, brokerVars, EndsEmpty, AllDown, Alive
<1>5. ASSUME NEW c \in Calls, WriteEnd(c) PROVE EndsEmpty'
  BY <1>5, <1>0 DEF WriteEnd, brokerVars, EndsEmpty, AllDown, Alive
<1>6. ASSUME NEW c \in Calls, WriteFails(c) PROVE EndsEmpty'
  BY <1>6, <1>0 DEF WriteFails, brokerVars, EndsEmpty, AllDown, Alive
<1>7. ASSUME NEW c \in Calls, Receive(c) PROVE EndsEmpty'
  BY <1>7, <1>0 DEF Receive, brokerVars, EndsEmpty, AllDown, Alive
<1>8. ASSUME NEW c \in Calls, Expire(c) PROVE EndsEmpty'
  BY <1>8, <1>0 DEF Expire, brokerVars, EndsEmpty, AllDown, Alive
<1>9. ASSUME NEW c \in Calls, Cancel(c) PROVE EndsEmpty'
  BY <1>9, <1>0 DEF Cancel, brokerVars, EndsEmpty, AllDown, Alive
<1>10. ASSUME NEW c \in Calls, JobLaunch(c) PROVE EndsEmpty'
  BY <1>10, <1>0 DEF JobLaunch, callVars, brokerVars, EndsEmpty, AllDown, JobsDrained,
     BridgeTypeOK, Alive
<1>11. ASSUME NEW c \in Calls, JobDone(c) PROVE EndsEmpty'
  BY <1>11, <1>0 DEF JobDone, callVars, brokerVars, EndsEmpty, AllDown, JobsDrained, BridgeTypeOK,
     Alive
<1>12. ASSUME NEW c \in Calls, NEW res \in {"ok", "err"}, JobReply(c, res) PROVE EndsEmpty'
  BY <1>12, <1>0 DEF JobReply, callVars, brokerVars, EndsEmpty, AllDown, JobsDrained,
     BridgeTypeOK, Alive
<1>13. CASE ReaderRead
  BY <1>13, <1>0 DEF ReaderRead, brokerVars, EndsEmpty, AllDown, Alive
<1>14. CASE ReaderEof
  BY <1>14, <1>0 DEF ReaderEof, brokerVars, EndsEmpty, AllDown, Alive
<1>15. CASE BrokerRead
  BY <1>15, <1>0 DEF BrokerRead, callVars, EndsEmpty, AllDown, Alive
<1>16. CASE BrokerReject
  BY <1>16, <1>0 DEF BrokerReject, brokerVars, EndsEmpty, AllDown, Alive
<1>17. CASE BrokerGarbage
  BY <1>17, <1>0 DEF BrokerGarbage, callVars, EndsEmpty, AllDown, Alive
<1>18. CASE BrokerEof
  BY <1>18, <1>0 DEF BrokerEof, callVars, EndsEmpty, AllDown, Alive
<1>19. CASE DrainEnd
  BY <1>19, <1>0 DEF DrainEnd, callVars, EndsEmpty, AllDown, Alive
<1>20. CASE ShutdownAll
  <2>1. \A c \in Creates : vm'[c] \in {"none", "down"}
    BY <1>20, BridgeConstants DEF ShutdownAll, JobsDrained, BridgeTypeOK
  <2> QED BY <1>20, <1>0, <2>1 DEF ShutdownAll, EndsEmpty, AllDown, Alive
<1>21. CASE ShutdownReply
  BY <1>21, <1>0 DEF ShutdownReply, callVars, brokerVars, EndsEmpty, AllDown, JobsDrained,
     BridgeTypeOK, Alive
<1>22. CASE BrokerExit
  BY <1>22, <1>0 DEF BrokerExit, callVars, brokerVars, EndsEmpty, AllDown, JobsDrained,
     BridgeTypeOK, Alive
<1>23. CASE ParentExit
  <2>1. Answered BY <1>23 DEF ParentExit, Answered
  <2> QED BY <1>23, <2>1 DEF ParentExit, EndsEmpty, AllDown, Alive, BridgeTypeOK
<1>24. CASE UNCHANGED bridgeVars
  BY <1>24, <1>0 DEF bridgeVars, EndsEmpty, AllDown
<1> QED
  BY <1>1, <1>2, <1>3, <1>4, <1>5, <1>6, <1>7, <1>8, <1>9, <1>10, <1>11, <1>12, <1>13,
     <1>14, <1>15, <1>16, <1>17, <1>18, <1>19, <1>20, <1>21, <1>22, <1>23, <1>24
     DEF BridgeNext, CallStep, JobStep, ReaderStep, BrokerStep

\* While no deadline runs out, a broker that is gone, however clients went away
\* in the meantime and in whichever way the parent let it go, left no VM.
THEOREM StopLeavesNoVm ==
  ASSUME Deadlines = {}
  PROVE  BridgeSpec => []NoVmOutlivesBroker
<1>1. StopInv /\ [BridgeNext]_bridgeVars => StopInv'
  BY TypeStep, JobsStep, EndStep DEF StopInv
<1>2. StopInv => NoVmOutlivesBroker
  BY DEF StopInv, EndsEmpty, AllDown, NoVmOutlivesBroker
<1> QED BY <1>1, <1>2, StopInit, PTL DEF BridgeSpec

=============================================================================
