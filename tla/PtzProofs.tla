----------------------------- MODULE PtzProofs -----------------------------
(***************************************************************************)
(* Ptz, for any number of requests and whatever becomes of them.           *)
(*                                                                         *)
(* The browser's half: the last command sent is a stop. StopSentLast is    *)
(* not inductive: when nothing is held it takes the flag to know that a    *)
(* stop went out, and the flag is what release, hardStop and the cleanup   *)
(* go by.                                                                  *)
(*                                                                         *)
(* The server's half: type correctness, and that nothing that failed while *)
(* it waited is published. It takes the listeners to be exactly once those *)
(* of requests that still wait, so that removing one leaves none of its    *)
(* request behind.                                                         *)
(*                                                                         *)
(* The camera's: it is not left moving if requests do not overtake each    *)
(* other. It takes both halves, and the line in which requests travel.     *)
(***************************************************************************)
EXTENDS Ptz, SequenceTheorems, TLAPS

Request == [command : {"move", "stop"},
            at : {"sent", "waiting", "publishing", "ok", "failed"}]

RequestsType == requests \in Seq(Request)

(* The flag is cleared only together with a stop, or stays as it was when  *)
(* the cleanup has sent one; and it is not set while nothing is held.      *)
FlagTells   == (~moving \/ ~mounted) /\ requests # <<>> =>
                 Last = "stop" \/ "unload" \in excuses
FlagNeeded  == mounted /\ moving => held # {} \/ "keyUp" \in excuses

IInv == RequestsType /\ FlagTells /\ FlagNeeded

(* A command that is sent becomes the last one.                            *)
LEMMA SendAppends ==
  ASSUME RequestsType, NEW c \in {"move", "stop"}, Send(c)
  PROVE  /\ RequestsType' /\ requests' # <<>> /\ Last' = c
         /\ Len(requests') = Len(requests) + 1
         /\ \A r \in Sent : requests'[r] = requests[r]
<1> DEFINE e == [command |-> c, at |-> "sent"]
<1>1. e \in Request
  BY DEF Request
<1>2. requests' = Append(requests, e)
  BY DEF Send
<1> HIDE DEF e
<1>3. /\ requests' \in Seq(Request) /\ Len(requests') = Len(requests) + 1
      /\ requests'[Len(requests) + 1] = e
      /\ \A r \in Sent : requests'[r] = requests[r]
  BY <1>1, <1>2 DEF RequestsType, Sent
<1>4. Len(requests) \in Nat
  BY DEF RequestsType
<1>5. requests' # <<>>
  BY <1>3, <1>4
<1> QED
  BY <1>3, <1>5 DEF RequestsType, Last, e

(* What happens to a request after it was sent changes no command.         *)
LEMMA CommandsStay ==
  ASSUME RequestsType, RequestsType', Len(requests') = Len(requests),
         \A r \in Sent : requests'[r].command = requests[r].command
  PROVE  /\ requests' # <<>> => requests # <<>>
         /\ requests # <<>> => Last' = Last
<1>1. Len(requests) \in Nat /\ (requests # <<>> => Len(requests) \in Sent)
  BY DEF RequestsType, Sent
<1> QED
  BY <1>1 DEF RequestsType, Last

LEMMA InitInvariant == Init => IInv
  BY DEF Init, IInv, RequestsType, FlagTells, FlagNeeded

LEMMA ButtonsKeep ==
  ASSUME IInv,
         \/ \E i \in Inputs : Start(i) \/ Release(i)
         \/ PointerPasses \/ HardStop \/ Unmount \/ Unload \/ LoseKeyUp
  PROVE  IInv'
<1> USE DEF IInv
<1>1. ASSUME NEW i \in Inputs, Start(i) PROVE IInv'
  <2>1. RequestsType' /\ requests' # <<>> /\ Last' = "move"
    BY <1>1, SendAppends DEF Start
  <2> QED
    BY <1>1, <2>1 DEF Start, FlagTells, FlagNeeded
<1>2. ASSUME NEW i \in Inputs, Release(i) PROVE IInv'
  <2>1. moving => RequestsType' /\ Last' = "stop"
    BY <1>2, SendAppends DEF Release, StopIfMoving
  <2>2. ~moving => requests' = requests
    BY <1>2 DEF Release, StopIfMoving
  <2> QED
    BY <1>2, <2>1, <2>2 DEF Release, StopIfMoving, RequestsType, FlagTells, FlagNeeded, Last
<1>3. CASE PointerPasses
  <2>1. RequestsType' /\ Last' = "stop"
    BY <1>3, SendAppends DEF PointerPasses, StopIfMoving
  <2> QED
    BY <1>3, <2>1 DEF PointerPasses, StopIfMoving, FlagTells, FlagNeeded
<1>4. CASE HardStop
  <2>1. RequestsType' /\ Last' = "stop"
    BY <1>4, SendAppends DEF HardStop
  <2> QED
    BY <1>4, <2>1 DEF HardStop, FlagTells, FlagNeeded
<1>5. CASE Unmount
  <2>1. moving => RequestsType' /\ Last' = "stop"
    BY <1>5, SendAppends DEF Unmount
  <2>2. ~moving => requests' = requests
    BY <1>5 DEF Unmount
  <2> QED
    BY <1>5, <2>1, <2>2 DEF Unmount, RequestsType, FlagTells, FlagNeeded, Last
<1>6. CASE Unload
  BY <1>6 DEF Unload, RequestsType, FlagTells, FlagNeeded, Last
<1>7. CASE LoseKeyUp
  BY <1>7 DEF LoseKeyUp, RequestsType, FlagTells, FlagNeeded, Last
<1> QED
  BY <1>1, <1>2, <1>3, <1>4, <1>5, <1>6, <1>7

LEMMA RequestsKeep ==
  ASSUME IInv, \/ \E r \in Sent : RequestStep(r)
               \/ BrokerUp \/ BrokerDown \/ CameraTakes
  PROVE  IInv'
<1>1. RequestsType /\ Len(requests) \in Nat /\ \A r \in Sent : requests[r] \in Request
  BY DEF IInv, RequestsType, Sent
<1>2. UNCHANGED ui /\ excuses \subseteq excuses'
  BY DEF RequestStep, Arrive, Refuse, Published, TimeOut, TimeOutPublishing, Lose, BrokerUp,
         BrokerDown, CameraTakes
<1>3. /\ RequestsType' /\ Len(requests') = Len(requests)
      /\ \A r \in Sent : requests'[r].command = requests[r].command
  <2>1. ASSUME NEW r \in Sent, NEW at \in {"sent", "waiting", "publishing", "ok", "failed"},
               Advance(r, at)
        PROVE  <1>3!:
    <3>1. [requests[r] EXCEPT !.at = at] \in Request
          /\ [requests[r] EXCEPT !.at = at].command = requests[r].command
      BY <1>1 DEF Request
    <3> QED
      BY <1>1, <2>1, <3>1 DEF Advance, RequestsType, Sent
  <2>2. ASSUME NEW r \in Sent, RequestStep(r) PROVE <1>3!:
    BY <2>1, <2>2 DEF RequestStep, Arrive, Refuse, Published, TimeOut, TimeOutPublishing
  <2>3. CASE BrokerUp
    <3>1. \A r \in Sent : /\ [requests[r] EXCEPT !.at = "publishing"] \in Request
                          /\ [requests[r] EXCEPT !.at = "publishing"].command = requests[r].command
      BY <1>1 DEF Request
    <3>2. /\ \A r \in Sent : requests'[r] \in Request /\ requests'[r].command = requests[r].command
          /\ requests' = [r \in Sent |-> requests'[r]]
      BY <1>1, <2>3, <3>1 DEF BrokerUp
    <3> QED
      BY <1>1, <3>2 DEF RequestsType, Sent
  <2>4. CASE UNCHANGED requests
    BY <1>1, <2>4 DEF RequestsType
  <2> QED
    BY <2>2, <2>3, <2>4 DEF BrokerDown, CameraTakes
<1>4. (requests' # <<>> => requests # <<>>) /\ (requests # <<>> => Last' = Last)
  BY <1>1, <1>3, CommandsStay
<1> QED
  BY <1>2, <1>3, <1>4 DEF IInv, FlagTells, FlagNeeded, ui

LEMMA StepKeeps == IInv /\ [Next]_vars => IInv'
<1> SUFFICES ASSUME IInv, [Next]_vars PROVE IInv'
  OBVIOUS
<1>1. CASE UNCHANGED vars
  BY <1>1 DEF IInv, RequestsType, FlagTells, FlagNeeded, Last, vars, ui, server
<1> QED
  BY <1>1, ButtonsKeep, RequestsKeep DEF Next

(* Unless the page is unloaded or a key event is lost, the last command    *)
(* PtzControls sends before everything is let go of, or before it is       *)
(* unmounted, is a stop, however many inputs and requests there are and    *)
(* whatever becomes of the requests.                                       *)
THEOREM StopIsSentLast == Spec => []StopSentLast
<1>1. IInv => StopSentLast
  BY DEF IInv, FlagTells, FlagNeeded, StopSentLast
<1> QED
  BY InitInvariant, StepKeeps, <1>1, PTL DEF Spec
-----------------------------------------------------------------------------
(* The server's half.                                                      *)

(* Between a move and the stop that follows it there is room for the stop. *)
Bounded == /\ Len(requests) <= MaxSends
           /\ mounted /\ moving => Len(requests) < MaxSends

Flags == /\ mounted \in BOOLEAN /\ moving \in BOOLEAN /\ connected \in BOOLEAN
         /\ turning \in BOOLEAN
Sets  == held \subseteq Inputs /\ excuses \subseteq Excuses

(* Whoever listens for the connection waits, and listens once.             *)
Listeners ==
  /\ waiting \in Seq(Nat)
  /\ \A i \in 1..Len(waiting) : waiting[i] \in Sent /\ At(waiting[i]) = "waiting"
  /\ \A i, j \in 1..Len(waiting) : waiting[i] = waiting[j] => i = j

Topic == topic \in Seq(Nat) /\ \A i \in 1..Len(topic) : topic[i] \in Sent

SInv == RequestsType /\ Bounded /\ Flags /\ Sets /\ Listeners /\ Topic

LEMMA InitServer == Init => SInv
<1> SUFFICES ASSUME Init PROVE SInv
  OBVIOUS
<1>1. requests = <<>> /\ waiting = <<>> /\ topic = <<>>
  BY DEF Init
<1>2. RequestsType /\ Len(requests) = 0
  BY <1>1 DEF RequestsType
<1>3. Bounded
  BY <1>2, MaxSendsAssumption DEF Init, Bounded
<1>4. Flags
  BY DEF Init, Flags
<1>5. Sets
  BY DEF Init, Sets
<1>6. Listeners
  <2>1. waiting \in Seq(Nat) /\ Len(waiting) = 0
    BY <1>1
  <2> QED
    BY <2>1 DEF Listeners
<1>7. Topic
  <2>1. topic \in Seq(Nat) /\ Len(topic) = 0
    BY <1>1
  <2> QED
    BY <2>1 DEF Topic
<1> QED
  BY <1>2, <1>3, <1>4, <1>5, <1>6, <1>7 DEF SInv

(* A sequence of numbers is one over the set its elements are of.          *)
LEMMA SeqNarrows ==
  ASSUME NEW s \in Seq(Nat), NEW S, \A i \in 1..Len(s) : s[i] \in S
  PROVE  s \in Seq(S)
<1>1. Len(s) \in Nat /\ s = [i \in 1..Len(s) |-> s[i]]
  OBVIOUS
<1> QED
  BY <1>1, IsASeq

LEMMA SInvTypes == SInv => TypeOK
<1> SUFFICES ASSUME SInv PROVE TypeOK
  OBVIOUS
<1>1. waiting \in Seq(Sent) /\ topic \in Seq(Sent)
  BY SeqNarrows DEF SInv, Listeners, Topic
<1>2. requests \in Seq(Request) /\ Len(requests) <= MaxSends
  BY DEF SInv, RequestsType, Bounded
<1>3. held \subseteq Inputs /\ excuses \subseteq Excuses
  BY DEF SInv, Sets
<1>4. mounted \in BOOLEAN /\ moving \in BOOLEAN /\ connected \in BOOLEAN /\ turning \in BOOLEAN
  BY DEF SInv, Flags
<1> QED
  BY <1>1, <1>2, <1>3, <1>4, Zenon DEF TypeOK, Request

(* A step that moves no request out of "waiting" and touches no queue.     *)
LEMMA QueuesKept ==
  ASSUME RequestsType, RequestsType', Listeners, Topic, waiting' = waiting, topic' = topic,
         Len(requests) <= Len(requests'),
         \A r \in Sent : At(r) = "waiting" => requests'[r].at = "waiting"
  PROVE  Listeners' /\ Topic'
<1>1. Sent \subseteq Sent'
  BY DEF RequestsType, Sent
<1>2. Listeners'
  BY <1>1 DEF Listeners, At
<1>3. Topic'
  BY <1>1 DEF Topic
<1> QED
  BY <1>2, <1>3

(* The buttons: a request is sent, or none is.                             *)
LEMMA ButtonsServer ==
  ASSUME SInv,
         \/ \E i \in Inputs : Start(i) \/ Release(i)
         \/ PointerPasses \/ HardStop \/ Unmount \/ Unload \/ LoseKeyUp
  PROVE  SInv'
<1>1. UNCHANGED <<server, turning>>
  BY DEF Start, Release, PointerPasses, HardStop, Unmount, Unload, LoseKeyUp
<1>2. requests' = requests \/ \E c \in {"move", "stop"} : Send(c)
  BY DEF Start, Release, PointerPasses, HardStop, Unmount, Unload, LoseKeyUp, StopIfMoving
<1>3. /\ RequestsType' /\ Len(requests) <= Len(requests')
      /\ \A r \in Sent : requests'[r] = requests[r]
  <2>1. CASE requests' = requests
    BY <2>1 DEF SInv, RequestsType
  <2>2. ASSUME NEW c \in {"move", "stop"}, Send(c) PROVE <1>3!:
    <3>1. RequestsType' /\ Len(requests') = Len(requests) + 1
          /\ \A r \in Sent : requests'[r] = requests[r]
      BY <2>2, SendAppends DEF SInv
    <3> QED
      BY <3>1 DEF SInv, RequestsType
  <2> QED
    BY <1>2, <2>1, <2>2
<1>4. Listeners' /\ Topic'
  BY <1>1, <1>3, QueuesKept DEF SInv, server, At
<1>5. Bounded'
  <2>1. Len(requests) \in Nat /\ Bounded
    BY DEF SInv, RequestsType
  <2>2. \A c \in {"move", "stop"} : Send(c) => Len(requests') = Len(requests) + 1
    BY SendAppends DEF SInv
  <2>3. ASSUME NEW i \in Inputs, Start(i) PROVE Bounded'
    BY <2>1, <2>2, <2>3, MaxSendsAssumption DEF Start, Room, Bounded
  <2>4. ASSUME NEW i \in Inputs, Release(i) PROVE Bounded'
    BY <2>1, <2>2, <2>4, MaxSendsAssumption DEF Release, StopIfMoving, Bounded
  <2>5. CASE PointerPasses
    BY <2>1, <2>2, <2>5, MaxSendsAssumption DEF PointerPasses, StopIfMoving, Bounded
  <2>6. CASE HardStop
    BY <2>1, <2>2, <2>6, MaxSendsAssumption DEF HardStop, Room, Bounded
  <2>7. CASE Unmount
    BY <2>1, <2>2, <2>7, MaxSendsAssumption DEF Unmount, Bounded
  <2>8. CASE Unload \/ LoseKeyUp
    BY <2>1, <2>8 DEF Unload, LoseKeyUp, Bounded
  <2> QED
    BY <2>3, <2>4, <2>5, <2>6, <2>7, <2>8
<1>6. Flags'
  <2>1. connected' = connected /\ turning' = turning
    BY <1>1 DEF server
  <2>2. mounted' \in {mounted, FALSE} /\ moving' \in {moving, TRUE, FALSE}
    BY DEF Start, Release, PointerPasses, HardStop, Unmount, Unload, LoseKeyUp, StopIfMoving
  <2> QED
    BY <2>1, <2>2 DEF SInv, Flags
<1>7. Sets'
  BY DEF SInv, Sets, Excuses, Start, Release, PointerPasses, HardStop, Unmount, Unload, LoseKeyUp
<1> QED
  BY <1>3, <1>4, <1>5, <1>6, <1>7 DEF SInv

LEMMA Advances ==
  ASSUME SInv, NEW r \in Sent, NEW at \in {"sent", "waiting", "publishing", "ok", "failed"},
         Advance(r, at)
  PROVE  /\ RequestsType' /\ Len(requests') = Len(requests) /\ Sent' = Sent
         /\ requests'[r].at = at
         /\ \A q \in Sent \ {r} : requests'[q] = requests[q]
<1>1. requests \in Seq(Request) /\ requests[r] \in Request
  BY DEF SInv, RequestsType, Sent
<1>2. /\ [requests[r] EXCEPT !.at = at] \in Request
      /\ [requests[r] EXCEPT !.at = at].at = at
  BY <1>1 DEF Request
<1> QED
  BY <1>1, <1>2 DEF Advance, RequestsType, Sent

(* Steps of the server and the camera, which send nothing.                 *)
LEMMA RestKept ==
  ASSUME SInv, RequestsType', Len(requests') = Len(requests), UNCHANGED ui,
         excuses' \subseteq excuses \cup {"lostStop"},
         connected' \in BOOLEAN, turning' \in BOOLEAN, Listeners', Topic'
  PROVE  SInv'
<1>1. Bounded'
  BY DEF SInv, Bounded, ui
<1>2. Flags'
  BY DEF SInv, Flags, ui
<1>3. Sets'
  BY DEF SInv, Sets, Excuses, ui
<1> QED
  BY <1>1, <1>2, <1>3 DEF SInv

LEMMA RequestServer ==
  ASSUME SInv, NEW r \in Sent, RequestStep(r)
  PROVE  SInv'
<1>1. /\ UNCHANGED <<ui, connected, turning>>
      /\ excuses' \subseteq excuses \cup {"lostStop"}
  BY DEF RequestStep, Arrive, Refuse, Published, TimeOut, TimeOutPublishing, Lose, server
<1>2. connected' \in BOOLEAN /\ turning' \in BOOLEAN
  BY <1>1 DEF SInv, Flags
<1>3. PICK at \in {"sent", "waiting", "publishing", "ok", "failed"} : Advance(r, at)
  BY DEF RequestStep, Arrive, Refuse, Published, TimeOut, TimeOutPublishing
<1>4. /\ RequestsType' /\ Len(requests') = Len(requests) /\ Sent' = Sent
      /\ requests'[r].at = at /\ \A q \in Sent \ {r} : requests'[q] = requests[q]
  BY <1>3, Advances
<1>5. Listeners /\ Topic /\ RequestsType /\ Len(requests) \in Nat
  BY DEF SInv, RequestsType
<1>6. Listeners' /\ Topic'
  <2>1. CASE At(r) # "waiting" /\ UNCHANGED <<waiting, topic>>
    BY <1>4, <1>5, <2>1, QueuesKept DEF At
  <2>2. CASE Arrive(r) /\ connected
    <3>1. At(r) = "sent" /\ waiting' = waiting /\ topic' = Append(topic, r)
      BY <2>2 DEF Arrive
    <3>2. Listeners'
      BY <1>4, <1>5, <3>1 DEF Listeners, At
    <3>3. Topic'
      BY <1>4, <1>5, <3>1 DEF Topic, Sent
    <3> QED
      BY <3>2, <3>3
  <2>3. CASE Arrive(r) /\ ~connected
    <3>1. /\ At(r) = "sent" /\ topic' = topic /\ waiting' = Append(waiting, r)
          /\ Advance(r, "waiting")
      BY <2>3 DEF Arrive
    <3>2. requests'[r].at = "waiting"
      BY <3>1, Advances
    <3>3. /\ waiting' \in Seq(Nat) /\ Len(waiting') = Len(waiting) + 1
          /\ waiting'[Len(waiting) + 1] = r
          /\ \A i \in 1..Len(waiting) : waiting'[i] = waiting[i]
      BY <1>5, <3>1 DEF Listeners, Sent
    <3>4. Len(waiting) \in Nat /\ \A i \in 1..Len(waiting) : waiting[i] \in Sent \ {r}
      BY <1>5, <3>1 DEF Listeners
    <3>9. \A i \in 1..Len(waiting') : i \in 1..Len(waiting) \/ i = Len(waiting) + 1
      BY <3>3, <3>4
    <3>10. \A i \in 1..Len(waiting) : requests'[waiting[i]].at = "waiting"
      BY <1>4, <1>5, <3>4 DEF Listeners, At
    <3>5. \A i \in 1..Len(waiting') :
            waiting'[i] \in Sent /\ requests'[waiting'[i]].at = "waiting"
      BY <3>2, <3>3, <3>4, <3>9, <3>10
    <3>6. \A i, j \in 1..Len(waiting') : waiting'[i] = waiting'[j] => i = j
      <4>1. \A i, j \in 1..Len(waiting) : waiting[i] = waiting[j] => i = j
        BY <1>5 DEF Listeners
      <4> QED
        BY <3>3, <3>4, <3>9, <4>1
    <3>7. Listeners'
      BY <1>4, <3>3, <3>5, <3>6 DEF Listeners, At
    <3>8. Topic'
      BY <1>4, <1>5, <3>1 DEF Topic
    <3> QED
      BY <3>7, <3>8
  <2>4. CASE TimeOut(r)
    <3>1. PICK k \in 1..Len(waiting) :
            /\ waiting[k] = r
            /\ waiting' = [j \in 1 .. Len(waiting) - 1 |->
                            IF j < k THEN waiting[j] ELSE waiting[j + 1]]
      BY <1>5, <2>4 DEF TimeOut, Listeners
    <3>2. topic' = topic
      BY <2>4 DEF TimeOut
    <3> DEFINE from(j) == IF j < k THEN j ELSE j + 1
    <3>3. Len(waiting) \in Nat /\ Len(waiting) >= 1
      BY <1>5, <3>1 DEF Listeners
    <3>4. /\ waiting' \in Seq(Nat) /\ Len(waiting') = Len(waiting) - 1
          /\ \A j \in 1..Len(waiting') : waiting'[j] = waiting[from(j)]
      <4>0. Len(waiting) - 1 \in Nat
        BY <3>3
      <4>1. PICK n \in Nat : n = Len(waiting) - 1
        BY <4>0
      <4>2. \A j \in 1..n : from(j) \in 1..Len(waiting)
        BY <3>1, <3>3, <4>1
      <4>3. waiting' = [j \in 1..n |-> waiting[from(j)]]
        BY <3>1, <4>1
      <4>4. \A i \in 1..Len(waiting) : waiting[i] \in Nat
        BY <1>5 DEF Listeners
      <4> HIDE DEF from
      <4>5. \A j \in 1..n : waiting[from(j)] \in Nat
        BY <4>2, <4>4
      <4>6. waiting' \in Seq(Nat) /\ Len(waiting') = n
        BY <4>1, <4>3, <4>5
      <4> QED
        BY <4>1, <4>3, <4>6
    <3>5. \A j \in 1..Len(waiting') : from(j) \in 1..Len(waiting) /\ from(j) # k
      BY <3>1, <3>3, <3>4
    <3>6. \A i, j \in 1..Len(waiting') : from(i) = from(j) => i = j
      BY <3>1, <3>3, <3>4
    <3> HIDE DEF from
    <3>7. \A j \in 1..Len(waiting') : waiting'[j] \in Sent \ {r}
      BY <1>5, <3>1, <3>4, <3>5 DEF Listeners
    <3>8. \A j \in 1..Len(waiting') : requests'[waiting'[j]].at = "waiting"
      <4> SUFFICES ASSUME NEW j \in 1..Len(waiting') PROVE requests'[waiting'[j]].at = "waiting"
        OBVIOUS
      <4>1. requests'[waiting'[j]] = requests[waiting'[j]]
        BY <1>4, <3>7
      <4>2. requests[waiting[from(j)]].at = "waiting"
        BY <1>5, <3>5 DEF Listeners, At
      <4> QED
        BY <3>4, <4>1, <4>2
    <3>9. \A i, j \in 1..Len(waiting') : waiting'[i] = waiting'[j] => i = j
      BY <1>5, <3>4, <3>5, <3>6 DEF Listeners
    <3>10. Listeners'
      BY <1>4, <3>4, <3>7, <3>8, <3>9 DEF Listeners, At
    <3>11. Topic'
      BY <1>4, <1>5, <3>2 DEF Topic
    <3> QED
      BY <3>10, <3>11
  <2> QED
    BY <2>1, <2>2, <2>3, <2>4 DEF RequestStep, Arrive, Refuse, Published, TimeOutPublishing, server
<1> QED
  BY <1>1, <1>2, <1>4, <1>6, RestKept

LEMMA BrokerServer ==
  ASSUME SInv, BrokerUp \/ BrokerDown \/ CameraTakes
  PROVE  SInv'
<1>1. Listeners /\ Topic /\ RequestsType /\ Flags /\ Len(requests) \in Nat
      /\ \A r \in Sent : requests[r] \in Request
  BY DEF SInv, RequestsType, Sent
<1>2. Len(topic) \in Nat /\ Len(waiting) \in Nat
  BY <1>1 DEF Topic, Listeners
<1>3. CASE BrokerUp
  <2>1. /\ UNCHANGED <<ui, turning, excuses>> /\ connected' = TRUE
        /\ topic' = topic \o waiting /\ waiting' = <<>>
        /\ requests' = [r \in Sent |-> requests'[r]]
        /\ \A r \in Sent : requests'[r] \in {requests[r], [requests[r] EXCEPT !.at = "publishing"]}
    BY <1>3 DEF BrokerUp
  <2>2. \A r \in Sent : requests'[r] \in Request
    <3>1. \A r \in Sent : [requests[r] EXCEPT !.at = "publishing"] \in Request
      BY <1>1 DEF Request
    <3> QED
      BY <1>1, <2>1, <3>1
  <2>3. RequestsType' /\ Len(requests') = Len(requests)
    <3>1. Len(requests) \in Nat /\ requests' = [r \in 1..Len(requests) |-> requests'[r]]
          /\ \A r \in 1..Len(requests) : requests'[r] \in Request
      BY <1>1, <2>1, <2>2 DEF Sent
    <3>2. requests' \in Seq(Request)
      BY <3>1, IsASeq
    <3>3. DOMAIN requests' = 1..Len(requests)
      BY <3>1
    <3>4. Len(requests') = Len(requests)
      BY <3>1, <3>2, <3>3
    <3> QED
      BY <3>2, <3>4 DEF RequestsType
  <2>4. Listeners'
    BY <2>1 DEF Listeners
  <2>5. /\ topic' \in Seq(Nat) /\ Len(topic') = Len(topic) + Len(waiting)
        /\ \A i \in 1..Len(topic') :
             topic'[i] = IF i <= Len(topic) THEN topic[i] ELSE waiting[i - Len(topic)]
    BY <1>1, <2>1 DEF Topic, Listeners
  <2>6. \A i \in 1..Len(topic') : topic'[i] \in Sent
    <3> SUFFICES ASSUME NEW i \in 1..Len(topic') PROVE topic'[i] \in Sent
      OBVIOUS
    <3>1. CASE i <= Len(topic)
      <4>1. i \in 1..Len(topic) /\ topic'[i] = topic[i]
        BY <1>2, <2>5, <3>1
      <4> QED
        BY <1>1, <4>1 DEF Topic
    <3>2. CASE i > Len(topic)
      <4>1. i - Len(topic) \in 1..Len(waiting) /\ topic'[i] = waiting[i - Len(topic)]
        BY <1>2, <2>5, <3>2
      <4> QED
        BY <1>1, <4>1 DEF Listeners
    <3> QED
      BY <1>2, <2>5, <3>1, <3>2
  <2>7. Topic'
    BY <2>3, <2>5, <2>6 DEF Topic, Sent
  <2> QED
    BY <1>1, <2>1, <2>3, <2>4, <2>7, RestKept DEF Flags
<1>4. CASE BrokerDown
  <2>1. /\ UNCHANGED <<ui, requests, waiting, turning>> /\ connected' = FALSE
        /\ excuses' \subseteq excuses \cup {"lostStop"}
        /\ \E n \in 0..Len(topic) : topic' = SubSeq(topic, 1, n)
    BY <1>4 DEF BrokerDown, Lose
  <2>2. PICK n \in 0..Len(topic) : topic' = SubSeq(topic, 1, n)
    BY <2>1
  <2>3. /\ topic' \in Seq(Nat) /\ Len(topic') = n
        /\ \A i \in 1..Len(topic') : topic'[i] = topic[i]
    BY <1>1, <1>2, <2>2 DEF Topic
  <2>4. Listeners' /\ RequestsType' /\ Len(requests') = Len(requests)
    BY <1>1, <2>1 DEF Listeners, RequestsType, Sent, At
  <2>5. Topic'
    <3>1. \A i \in 1..Len(topic') : i \in 1..Len(topic)
      BY <1>2, <2>3
    <3> QED
      BY <1>1, <2>1, <2>3, <3>1 DEF Topic, Sent
  <2> QED
    BY <1>1, <2>1, <2>4, <2>5, RestKept DEF Flags
<1>5. CASE CameraTakes
  <2>1. /\ UNCHANGED <<ui, requests, connected, waiting, excuses>> /\ turning' \in BOOLEAN
        /\ topic # <<>> /\ topic' = Tail(topic)
    BY <1>5 DEF CameraTakes
  <2>2. /\ topic' \in Seq(Nat)
        /\ \A i \in 1..Len(topic') : i + 1 \in 1..Len(topic) /\ topic'[i] = topic[i + 1]
    BY <1>1, <1>2, <2>1 DEF Topic
  <2>3. Listeners' /\ RequestsType' /\ Len(requests') = Len(requests)
    BY <1>1, <2>1 DEF Listeners, RequestsType, Sent, At
  <2>4. Topic'
    BY <1>1, <2>1, <2>2 DEF Topic, Sent
  <2> QED
    BY <1>1, <2>1, <2>3, <2>4, RestKept DEF Flags
<1> QED
  BY <1>3, <1>4, <1>5

LEMMA StepServer == SInv /\ [Next]_vars => SInv'
<1> SUFFICES ASSUME SInv, [Next]_vars PROVE SInv'
  OBVIOUS
<1>1. CASE UNCHANGED vars
  <2>1. /\ UNCHANGED <<mounted, held, moving, requests, connected, waiting, topic, turning, excuses>>
    BY <1>1 DEF vars, ui, server
  <2> QED
    BY <2>1 DEF SInv, RequestsType, Bounded, Flags, Sets, Listeners, Topic, Sent, At
<1> QED
  BY <1>1, ButtonsServer, RequestServer, BrokerServer DEF Next

(* Type correctness: the queues name requests that were sent, and there    *)
(* are never more of those than the bound.                                 *)
THEOREM PtzTypes == Spec => []TypeOK
  BY InitServer, StepServer, SInvTypes, PTL DEF Spec

(* A command whose request timed out while it waited for the broker is     *)
(* never published, however many requests wait and whichever of them times *)
(* out: no move reaches the camera when the broker comes back.             *)
THEOREM NothingIsPublishedLate == Spec => NothingPublishedLate
<1> DEFINE Fresh == \A i \in DOMAIN topic' :
                      i > Len(topic) => At(topic'[i]) \in {"sent", "waiting"}
<1>1. SInv /\ [Next]_vars => [Fresh]_vars
  <2> SUFFICES ASSUME SInv, Next PROVE Fresh
    OBVIOUS
  <2>1. Listeners /\ Topic /\ Len(topic) \in Nat /\ Len(waiting) \in Nat
    BY DEF SInv, Listeners, Topic
  <2>2. CASE topic' = topic
    BY <2>1, <2>2 DEF Topic
  <2>3. ASSUME NEW r \in Sent, Arrive(r), topic' = Append(topic, r) PROVE Fresh
    <3>1. At(r) = "sent" /\ DOMAIN topic' = 1 .. Len(topic) + 1 /\ topic'[Len(topic) + 1] = r
      BY <2>1, <2>3 DEF Arrive, Topic, Sent
    <3>2. \A i \in DOMAIN topic' : i > Len(topic) => i = Len(topic) + 1
      BY <2>1, <3>1
    <3> QED
      BY <3>1, <3>2
  <2>4. CASE BrokerUp
    <3>1. /\ DOMAIN topic' = 1 .. Len(topic) + Len(waiting)
          /\ \A i \in DOMAIN topic' : i > Len(topic) => topic'[i] = waiting[i - Len(topic)]
      BY <2>1, <2>4 DEF BrokerUp, Topic, Listeners
    <3>2. \A i \in DOMAIN topic' : i > Len(topic) => i - Len(topic) \in 1..Len(waiting)
      BY <2>1, <3>1
    <3> QED
      BY <2>1, <3>1, <3>2 DEF Listeners
  <2>5. CASE BrokerDown
    <3>1. PICK n \in 0..Len(topic) : topic' = SubSeq(topic, 1, n)
      BY <2>5 DEF BrokerDown
    <3>2. DOMAIN topic' = 1..n
      BY <2>1, <3>1 DEF Topic
    <3> QED
      BY <2>1, <3>2
  <2>6. CASE CameraTakes
    <3>1. topic # <<>> /\ topic' = Tail(topic)
      BY <2>6 DEF CameraTakes
    <3>2. DOMAIN topic' = 1 .. Len(topic) - 1
      BY <2>1, <3>1 DEF Topic
    <3> QED
      BY <2>1, <3>2
  <2>7. topic' = topic \/ BrokerUp \/ BrokerDown \/ CameraTakes
        \/ \E r \in Sent : Arrive(r) /\ topic' = Append(topic, r)
    BY DEF Next, Start, Release, PointerPasses, HardStop, Unmount, Unload, LoseKeyUp, RequestStep,
           Arrive, Refuse, Published, TimeOut, TimeOutPublishing, server
  <2> HIDE DEF Fresh
  <2> QED
    BY <2>2, <2>3, <2>4, <2>5, <2>6, <2>7
<1>2. Spec => []SInv
  BY InitServer, StepServer, PTL DEF Spec
<1> QED
  BY <1>1, <1>2, PTL DEF Spec, NothingPublishedLate

-----------------------------------------------------------------------------
(* The camera's part: it is not left moving. Requests that are not         *)
(* reordered stay in line on their way, through the guard, the listeners   *)
(* and the topic. So there is always a last request that was taken: nothing *)
(* before it is under way any more, every stop after it still is unless    *)
(* one was lost, and the camera moves only if that request is a move.      *)

Waits(q)   == \E i \in 1..Len(waiting) : waiting[i] = q
OnTopic(q) == \E i \in 1..Len(topic) : topic[i] = q
Pending(q) == At(q) = "sent" \/ Waits(q) \/ OnTopic(q)

Sorted(s) == \A i, j \in 1..Len(s) : i < j => s[i] < s[j]

InLine ==
  /\ ~Reorders /\ (connected => waiting = <<>>)
  /\ Sorted(topic) /\ Sorted(waiting)
  /\ \A i \in 1..Len(topic), j \in 1..Len(waiting) : topic[i] < waiting[j]
  /\ \A q \in Sent : At(q) = "sent" => /\ \A i \in 1..Len(topic) : topic[i] < q
                                       /\ \A i \in 1..Len(waiting) : waiting[i] < q

Taken(m) ==
  /\ \A q \in Sent : Pending(q) => q > m
  /\ \A q \in Sent : q > m /\ requests[q].command = "stop" => Pending(q)
  /\ turning => m \in Sent /\ requests[m].command = "move"

StopsCount == excuses = {} => \E m \in 0..Len(requests) : Taken(m)

CInv == IInv /\ SInv /\ InLine /\ StopsCount

LEMMA InitCamera == Init /\ ~Reorders => CInv
<1> SUFFICES ASSUME Init, ~Reorders PROVE InLine /\ StopsCount
  BY InitInvariant, InitServer DEF CInv
<1>1. Len(requests) = 0 /\ Len(topic) = 0 /\ Len(waiting) = 0 /\ ~turning /\ waiting = <<>>
  BY DEF Init
<1>2. InLine
  BY <1>1 DEF InLine, Sorted, Sent
<1>3. Taken(0)
  BY <1>1 DEF Taken, Sent
<1> QED
  BY <1>1, <1>2, <1>3 DEF StopsCount

(* A step that neither sends nor takes, and loses no stop unless it says   *)
(* so.                                                                     *)
LEMMA TakenKept ==
  ASSUME StopsCount, Sent' = Sent, Len(requests') = Len(requests), turning' = turning,
         excuses' = {} => excuses = {},
         \A q \in Sent : /\ requests'[q].command = requests[q].command
                         /\ Pending(q)' => Pending(q)
                         /\ excuses' = {} /\ requests[q].command = "stop" /\ Pending(q) => Pending(q)'
  PROVE  StopsCount'
<1> SUFFICES ASSUME excuses' = {} PROVE \E m \in 0..Len(requests') : Taken(m)'
  BY DEF StopsCount
<1>1. PICK m \in 0..Len(requests) : Taken(m)
  BY DEF StopsCount
<1>2. Taken(m)'
  <2>1. \A q \in Sent' : Pending(q)' => q > m
    BY <1>1 DEF Taken
  <2>2. \A q \in Sent' : q > m /\ requests'[q].command = "stop" => Pending(q)'
    BY <1>1 DEF Taken
  <2>3. turning' => m \in Sent' /\ requests'[m].command = "move"
    BY <1>1 DEF Taken
  <2> QED
    BY <2>1, <2>2, <2>3 DEF Taken
<1> QED
  BY <1>2

LEMMA ButtonsCamera ==
  ASSUME CInv, IInv', SInv',
         \/ \E i \in Inputs : Start(i) \/ Release(i)
         \/ PointerPasses \/ HardStop \/ Unmount \/ Unload \/ LoseKeyUp
  PROVE  CInv'
<1>1. UNCHANGED <<connected, waiting, topic, turning>> /\ excuses \subseteq excuses'
  BY DEF Start, Release, PointerPasses, HardStop, Unmount, Unload, LoseKeyUp, server
<1>2. requests' = requests \/ \E c \in {"move", "stop"} : Send(c)
  BY DEF Start, Release, PointerPasses, HardStop, Unmount, Unload, LoseKeyUp, StopIfMoving
<1>3. InLine /\ StopsCount /\ RequestsType /\ Listeners /\ Topic /\ Len(requests) \in Nat
  BY DEF CInv, SInv, RequestsType
<1>4. CASE requests' = requests
  <2>1. InLine'
    BY <1>1, <1>3, <1>4 DEF InLine, Sorted, Sent, At
  <2>2. Sent' = Sent /\ \A q \in Sent : Pending(q)' <=> Pending(q)
    BY <1>1, <1>4 DEF Sent, Pending, Waits, OnTopic, At
  <2>3. StopsCount'
    BY <1>1, <1>3, <1>4, <2>2, TakenKept
  <2> QED
    BY <2>1, <2>3 DEF CInv
<1>5. ASSUME NEW c \in {"move", "stop"}, Send(c) PROVE CInv'
  <2>0. PICK n \in Nat : n = Len(requests) + 1
    BY <1>3
  <2>1. /\ Len(requests') = n /\ requests'[n].at = "sent"
        /\ \A r \in Sent : requests'[r] = requests[r]
    <3>1. requests' = Append(requests, [command |-> c, at |-> "sent"])
      BY <1>5 DEF Send
    <3>2. requests \in Seq(Request)
      BY <1>3 DEF RequestsType
    <3> QED
      BY <2>0, <3>1, <3>2 DEF Sent
  <2>2. n \in Nat /\ Sent' = Sent \cup {n} /\ \A q \in Sent : q < n
    BY <1>3, <2>0, <2>1 DEF Sent
  <2>3. /\ \A i \in 1..Len(topic) : topic[i] \in Sent
        /\ \A i \in 1..Len(waiting) : waiting[i] \in Sent
    BY <1>3 DEF Topic, Listeners
  <2>4. InLine'
    <3>1. ASSUME NEW q \in Sent', requests'[q].at = "sent"
          PROVE  /\ \A i \in 1..Len(topic) : topic[i] < q
                 /\ \A i \in 1..Len(waiting) : waiting[i] < q
      <4>1. CASE q \in Sent
        BY <1>3, <2>1, <3>1, <4>1 DEF InLine, At
      <4>2. CASE q = n
        BY <2>2, <2>3, <4>2
      <4> QED
        BY <2>2, <4>1, <4>2
    <3> QED
      BY <1>1, <1>3, <3>1 DEF InLine, Sorted, At
  <2>5. \A q \in Sent : Pending(q)' <=> Pending(q)
    BY <1>1, <2>1 DEF Pending, Waits, OnTopic, At
  <2>6. Pending(n)'
    BY <2>1, <2>2 DEF Pending, At
  <2>7. ASSUME excuses' = {} PROVE \E m \in 0..Len(requests') : Taken(m)'
    <3>1. PICK m \in 0..Len(requests) : Taken(m)
      BY <1>1, <1>3, <2>7 DEF StopsCount
    <3>2. m \in 0..n /\ m < n
      BY <1>3, <2>0
    <3>3. \A q \in Sent' : Pending(q)' => q > m
      BY <2>2, <2>5, <3>1, <3>2 DEF Taken
    <3>4. \A q \in Sent' : q > m /\ requests'[q].command = "stop" => Pending(q)'
      BY <2>1, <2>2, <2>5, <2>6, <3>1 DEF Taken
    <3>5. turning' => m \in Sent' /\ requests'[m].command = "move"
      BY <1>1, <2>1, <2>2, <3>1 DEF Taken
    <3>6. Taken(m)'
      BY <3>3, <3>4, <3>5 DEF Taken
    <3> QED
      BY <2>1, <3>2, <3>6
  <2> QED
    BY <2>4, <2>7 DEF CInv, StopsCount
<1> QED
  BY <1>2, <1>4, <1>5

(* A request's own steps: what each does to the line.                      *)
LEMMA RequestCamera ==
  ASSUME CInv, IInv', SInv', NEW r \in Sent, RequestStep(r)
  PROVE  CInv'
<1>1. InLine /\ StopsCount /\ RequestsType /\ Listeners /\ Topic
      /\ Len(topic) \in Nat /\ Len(waiting) \in Nat /\ SInv
  <2>1. InLine /\ StopsCount /\ SInv
    BY DEF CInv
  <2>2. RequestsType /\ Listeners /\ Topic
    BY DEF CInv, SInv
  <2>3. Len(topic) \in Nat /\ Len(waiting) \in Nat
    BY <2>2 DEF Topic, Listeners
  <2> QED
    BY <2>1, <2>2, <2>3
<1>2. PICK at \in {"sent", "waiting", "publishing", "ok", "failed"} : Advance(r, at) /\ at # "sent"
  BY DEF RequestStep, Arrive, Refuse, Published, TimeOut, TimeOutPublishing
<1>3. /\ Len(requests') = Len(requests) /\ Sent' = Sent
      /\ requests'[r].at = at /\ \A q \in Sent \ {r} : requests'[q] = requests[q]
  BY <1>1, <1>2, Advances
<1>4. \A q \in Sent : requests'[q].command = requests[q].command
  <2>1. requests[r] \in Request /\ requests \in Seq(Request)
    BY <1>1 DEF RequestsType, Sent
  <2>2. requests'[r] = [requests[r] EXCEPT !.at = at]
    BY <1>2, <2>1 DEF Advance, Sent
  <2>3. requests'[r].command = requests[r].command
    BY <2>1, <2>2 DEF Request
  <2> QED
    BY <1>3, <2>3
<1>5. /\ turning' = turning /\ connected' = connected /\ excuses \subseteq excuses'
      /\ (Refuse(r) \/ TimeOut(r)) /\ requests[r].command = "stop" => excuses' # {}
  BY DEF RequestStep, Arrive, Refuse, Published, TimeOut, TimeOutPublishing, Lose, server
<1>6. \A q \in Sent : (At(q) = "sent")' <=> At(q) = "sent" /\ q # r
  BY <1>2, <1>3 DEF At
<1>7. /\ \A i \in 1..Len(topic) : topic[i] \in Nat
      /\ \A i \in 1..Len(waiting) : waiting[i] \in Nat
  BY <1>1 DEF Topic, Listeners
<1>8. CASE UNCHANGED <<waiting, topic>> /\ (At(r) = "sent" => Refuse(r))
  <2>1. InLine'
    BY <1>1, <1>3, <1>5, <1>6, <1>8 DEF InLine, Sorted
  <2>2. \A q \in Sent : Pending(q)' <=> Pending(q) /\ (At(q) = "sent" => q # r \/ Waits(q) \/ OnTopic(q))
    BY <1>6, <1>8 DEF Pending, Waits, OnTopic
  <2>3. StopsCount'
    BY <1>1, <1>3, <1>4, <1>5, <1>8, <2>2, TakenKept
  <2> QED
    BY <2>1, <2>3 DEF CInv
<1>9. CASE Arrive(r)
  <2>1. /\ At(r) = "sent" /\ \A q \in 1 .. r - 1 : At(q) # "sent"
        /\ \/ connected /\ topic' = Append(topic, r) /\ waiting' = waiting
           \/ ~connected /\ waiting' = Append(waiting, r) /\ topic' = topic
    BY <1>1, <1>9 DEF Arrive, InLine
  <2>2. /\ r \in Nat
        /\ \A q \in Sent : (At(q) = "sent")' => r < q
        /\ \A i \in 1..Len(topic) : topic[i] < r
        /\ \A i \in 1..Len(waiting) : waiting[i] < r
    <3>1. \A q \in Sent : q < r => q \in 1 .. r - 1
      BY <1>1 DEF Sent
    <3>2. \A q \in Sent : (At(q) = "sent")' => ~(q < r) /\ q # r
      BY <1>6, <2>1, <3>1
    <3> QED
      BY <1>1, <2>1, <3>2 DEF Sent, InLine
  <2>3. CASE connected /\ topic' = Append(topic, r) /\ waiting' = waiting
    <3>1. /\ Len(topic') = Len(topic) + 1 /\ topic'[Len(topic) + 1] = r
          /\ \A i \in 1..Len(topic) : topic'[i] = topic[i]
      BY <1>1, <2>2, <2>3 DEF Topic
    <3>2. /\ \A i \in 1..Len(topic') : i \in 1..Len(topic) \/ i = Len(topic) + 1
          /\ Len(topic) + 1 \in 1..Len(topic') /\ 1..Len(topic) \subseteq 1..Len(topic')
      BY <1>1, <3>1
    <3>3. waiting = <<>> /\ Len(waiting) = 0 /\ Sorted(topic)
      BY <1>1, <2>3 DEF InLine
    <3>4. Sorted(topic)'
      BY <1>1, <2>2, <3>1, <3>2, <3>3 DEF Sorted
    <3>5. \A q \in Sent : (At(q) = "sent")' => \A i \in 1..Len(topic') : topic'[i] < q
      BY <1>1, <1>6, <2>2, <3>1, <3>2 DEF InLine
    <3>6. InLine'
      BY <1>1, <1>3, <1>5, <2>3, <3>3, <3>4, <3>5 DEF InLine, Sorted
    <3>7. \A q \in Sent : OnTopic(q)' <=> OnTopic(q) \/ q = r
      BY <3>1, <3>2 DEF OnTopic
    <3>8. \A q \in Sent : Pending(q)' <=> Pending(q)
      BY <1>6, <2>1, <2>3, <3>7 DEF Pending, Waits
    <3>9. StopsCount'
      BY <1>1, <1>3, <1>4, <1>5, <3>8, TakenKept
    <3> QED
      BY <3>6, <3>9 DEF CInv
  <2>4. CASE ~connected /\ waiting' = Append(waiting, r) /\ topic' = topic
    <3>1. /\ Len(waiting') = Len(waiting) + 1 /\ waiting'[Len(waiting) + 1] = r
          /\ \A i \in 1..Len(waiting) : waiting'[i] = waiting[i]
      BY <1>1, <2>2, <2>4 DEF Listeners
    <3>2. /\ \A i \in 1..Len(waiting') : i \in 1..Len(waiting) \/ i = Len(waiting) + 1
          /\ Len(waiting) + 1 \in 1..Len(waiting') /\ 1..Len(waiting) \subseteq 1..Len(waiting')
      BY <1>1, <3>1
    <3>3. Sorted(waiting)
      BY <1>1 DEF InLine
    <3>4. Sorted(waiting)'
      BY <1>1, <2>2, <3>1, <3>2, <3>3 DEF Sorted
    <3>5. \A q \in Sent : (At(q) = "sent")' => \A i \in 1..Len(waiting') : waiting'[i] < q
      BY <1>1, <1>6, <2>2, <3>1, <3>2 DEF InLine
    <3>6. \A i \in 1..Len(topic), j \in 1..Len(waiting') : topic[i] < waiting'[j]
      BY <1>1, <2>2, <3>1, <3>2 DEF InLine
    <3>7. InLine'
      BY <1>1, <1>3, <1>5, <1>6, <2>4, <3>4, <3>5, <3>6 DEF InLine, Sorted
    <3>8. \A q \in Sent : Waits(q)' <=> Waits(q) \/ q = r
      BY <3>1, <3>2 DEF Waits
    <3>9. \A q \in Sent : Pending(q)' <=> Pending(q)
      BY <1>6, <2>1, <2>4, <3>8 DEF Pending, OnTopic
    <3>10. StopsCount'
      BY <1>1, <1>3, <1>4, <1>5, <3>9, TakenKept
    <3> QED
      BY <3>7, <3>10 DEF CInv
  <2> QED
    BY <2>1, <2>3, <2>4
<1>10. CASE TimeOut(r)
  <2>1. PICK k \in 1..Len(waiting) :
          /\ waiting[k] = r
          /\ waiting' = [j \in 1 .. Len(waiting) - 1 |->
                          IF j < k THEN waiting[j] ELSE waiting[j + 1]]
    BY <1>1, <1>10 DEF TimeOut, Listeners
  <2>2. topic' = topic /\ At(r) = "waiting"
    BY <1>10 DEF TimeOut
  <2> DEFINE from(j) == IF j < k THEN j ELSE j + 1
             to(i)   == IF i < k THEN i ELSE i - 1
  <2>3. /\ Len(waiting') = Len(waiting) - 1
        /\ \A j \in 1..Len(waiting') : waiting'[j] = waiting[from(j)]
    <3>1. waiting \in Seq(Nat) /\ Len(waiting) - 1 \in Nat
      BY <1>1, <2>1 DEF Listeners
    <3> QED
      BY <2>1, <3>1
  <2>4. \A j \in 1..Len(waiting') : from(j) \in 1..Len(waiting) /\ from(j) # k
    BY <1>1, <2>1, <2>3
  <2>5. \A i, j \in 1..Len(waiting') : i < j => from(i) < from(j)
    BY <1>1, <2>1, <2>3
  <2>6. \A i \in 1..Len(waiting) : i # k => to(i) \in 1..Len(waiting') /\ from(to(i)) = i
    BY <1>1, <2>1, <2>3
  <2> HIDE DEF from, to
  <2>7. Sorted(waiting)'
    BY <1>1, <2>3, <2>4, <2>5 DEF InLine, Sorted
  <2>8. \A i \in 1..Len(topic), j \in 1..Len(waiting') : topic[i] < waiting'[j]
    BY <1>1, <2>3, <2>4 DEF InLine
  <2>9. \A q \in Sent : At(q) = "sent" => \A i \in 1..Len(waiting') : waiting'[i] < q
    BY <1>1, <2>3, <2>4 DEF InLine
  <2>10. connected => FALSE
    BY <1>1, <2>1 DEF InLine
  <2>11. InLine'
    BY <1>1, <1>3, <1>5, <1>6, <2>2, <2>7, <2>8, <2>9, <2>10 DEF InLine, Sorted
  <2>12. \A q \in Sent : Waits(q)' => Waits(q)
    BY <2>3, <2>4 DEF Waits
  <2>13. \A q \in Sent : Waits(q) /\ q # r => Waits(q)'
    <3> SUFFICES ASSUME NEW q \in Sent, Waits(q), q # r PROVE Waits(q)'
      OBVIOUS
    <3>1. PICK i \in 1..Len(waiting) : waiting[i] = q
      BY DEF Waits
    <3>2. to(i) \in 1..Len(waiting') /\ waiting'[to(i)] = q
      BY <2>1, <2>3, <2>6, <3>1
    <3> QED
      BY <3>2 DEF Waits
  <2>14. \A q \in Sent : /\ Pending(q)' => Pending(q)
                         /\ q # r /\ Pending(q) => Pending(q)'
    BY <1>6, <2>2, <2>12, <2>13 DEF Pending, OnTopic
  <2>15. StopsCount'
    BY <1>1, <1>3, <1>4, <1>5, <1>10, <2>14, TakenKept
  <2> QED
    BY <2>11, <2>15 DEF CInv
<1> QED
  BY <1>8, <1>9, <1>10 DEF RequestStep, Refuse, Published, TimeOutPublishing, server

LEMMA BrokerCamera ==
  ASSUME CInv, IInv', SInv', BrokerUp \/ BrokerDown \/ CameraTakes
  PROVE  CInv'
<1>1. InLine /\ StopsCount /\ RequestsType /\ Listeners /\ Topic
      /\ Len(topic) \in Nat /\ Len(waiting) \in Nat /\ Len(requests) \in Nat
  <2>1. InLine /\ StopsCount
    BY DEF CInv
  <2>2. RequestsType /\ Listeners /\ Topic
    BY DEF CInv, SInv
  <2>3. Len(topic) \in Nat /\ Len(waiting) \in Nat /\ Len(requests) \in Nat
    BY <2>2 DEF Topic, Listeners, RequestsType
  <2> QED
    BY <2>1, <2>2, <2>3
<1>2. CASE BrokerUp
  <2>1. /\ UNCHANGED <<turning, excuses>> /\ topic' = topic \o waiting /\ waiting' = <<>>
    BY <1>2 DEF BrokerUp
  <2>2. /\ DOMAIN requests' = Sent
        /\ \A q \in Sent : /\ requests'[q].command = requests[q].command
                           /\ (At(q) = "sent")' <=> At(q) = "sent" /\ ~Waits(q)
    <3>1. /\ DOMAIN requests' = Sent
          /\ \A q \in Sent : requests'[q] = IF Waits(q) THEN [requests[q] EXCEPT !.at = "publishing"]
                                            ELSE requests[q]
      BY <1>2 DEF BrokerUp, Waits
    <3>2. \A q \in Sent : /\ [requests[q] EXCEPT !.at = "publishing"].command = requests[q].command
                          /\ [requests[q] EXCEPT !.at = "publishing"].at = "publishing"
      BY <1>1 DEF RequestsType, Request, Sent
    <3> QED
      BY <3>1, <3>2 DEF At
  <2>3. Len(requests') = Len(requests) /\ Sent' = Sent
    <3>1. requests' \in Seq(Request)
      BY DEF IInv, RequestsType
    <3>2. DOMAIN requests' = 1..Len(requests) /\ DOMAIN requests' = 1..Len(requests')
          /\ Len(requests') \in Nat
      BY <2>2, <3>1 DEF Sent
    <3>3. Len(requests') = Len(requests)
      BY <1>1, <3>2
    <3> QED
      BY <3>3 DEF Sent
  <2>4. /\ Len(topic') = Len(topic) + Len(waiting) /\ Len(waiting') = 0
        /\ \A i \in 1..Len(topic) : i \in 1..Len(topic') /\ topic'[i] = topic[i]
        /\ \A i \in 1..Len(waiting) : /\ Len(topic) + i \in 1..Len(topic')
                                      /\ topic'[Len(topic) + i] = waiting[i]
    BY <1>1, <2>1 DEF Topic, Listeners
  <2>5. \A i \in 1..Len(topic') : \/ i \in 1..Len(topic)
                                  \/ i - Len(topic) \in 1..Len(waiting) /\ ~(i \in 1..Len(topic))
    BY <1>1, <2>4
  <2>6. \A i \in 1..Len(topic') : i \notin 1..Len(topic) => topic'[i] = waiting[i - Len(topic)]
    BY <1>1, <2>4, <2>5
  <2>7. Sorted(topic)'
    <3> SUFFICES ASSUME NEW i \in 1..Len(topic'), NEW j \in 1..Len(topic'), i < j
                 PROVE  topic'[i] < topic'[j]
      BY DEF Sorted
    <3>1. CASE j \in 1..Len(topic)
      <4>1. i \in 1..Len(topic)
        BY <3>1
      <4> QED
        BY <1>1, <2>4, <3>1, <4>1 DEF InLine, Sorted
    <3>2. CASE i \in 1..Len(topic) /\ j \notin 1..Len(topic)
      <4>1. j - Len(topic) \in 1..Len(waiting) /\ topic'[j] = waiting[j - Len(topic)]
        BY <2>5, <2>6, <3>2
      <4> QED
        BY <1>1, <2>4, <3>2, <4>1 DEF InLine
    <3>3. CASE i \notin 1..Len(topic) /\ j \notin 1..Len(topic)
      <4>1. /\ j - Len(topic) \in 1..Len(waiting) /\ topic'[j] = waiting[j - Len(topic)]
            /\ i - Len(topic) \in 1..Len(waiting) /\ topic'[i] = waiting[i - Len(topic)]
        BY <2>5, <2>6, <3>3
      <4>2. i - Len(topic) < j - Len(topic)
        BY <1>1
      <4> QED
        BY <1>1, <4>1, <4>2 DEF InLine, Sorted
    <3> QED
      BY <3>1, <3>2, <3>3
  <2>8. \A q \in Sent : At(q) = "sent" => \A i \in 1..Len(topic') : topic'[i] < q
    BY <1>1, <2>4, <2>5, <2>6 DEF InLine
  <2>9. InLine'
    <3>1. Sorted(waiting)'
      BY <2>4 DEF Sorted
    <3>2. \A q \in Sent' : (At(q) = "sent")' => \A i \in 1..Len(topic') : topic'[i] < q
      BY <2>2, <2>3, <2>8
    <3> QED
      BY <1>1, <2>1, <2>4, <2>7, <3>1, <3>2 DEF InLine
  <2>10. \A q \in Sent : OnTopic(q)' <=> OnTopic(q) \/ Waits(q)
    <3>1. \A q \in Sent : OnTopic(q)' => OnTopic(q) \/ Waits(q)
      BY <2>4, <2>5, <2>6 DEF OnTopic, Waits
    <3>2. \A q \in Sent : OnTopic(q) \/ Waits(q) => OnTopic(q)'
      BY <2>4 DEF OnTopic, Waits
    <3> QED
      BY <3>1, <3>2
  <2>11. \A q \in Sent : ~Waits(q)'
    BY <2>4 DEF Waits
  <2>12. \A q \in Sent : Pending(q)' <=> Pending(q)
    BY <2>2, <2>10, <2>11 DEF Pending
  <2>13. StopsCount'
    BY <1>1, <2>1, <2>2, <2>3, <2>12, TakenKept
  <2> QED
    BY <2>9, <2>13 DEF CInv
<1>3. CASE BrokerDown
  <2>1. /\ UNCHANGED <<requests, waiting, turning>> /\ connected' = FALSE /\ excuses \subseteq excuses'
    BY <1>3 DEF BrokerDown, Lose
  <2>2. PICK n \in 0..Len(topic) : /\ topic' = SubSeq(topic, 1, n)
                                   /\ Lose({topic[i] : i \in n + 1 .. Len(topic)})
    BY <1>3 DEF BrokerDown
  <2>3. /\ Len(topic') = n
        /\ \A i \in 1..n : i \in 1..Len(topic) /\ topic'[i] = topic[i]
    BY <1>1, <2>2 DEF Topic
  <2>4. InLine'
    BY <1>1, <2>1, <2>3 DEF InLine, Sorted, Sent, At
  <2>5. \A q \in Sent : Pending(q)' => Pending(q)
    BY <2>1, <2>3 DEF Pending, OnTopic, Waits, At
  <2>6. ASSUME NEW q \in Sent, excuses' = {}, requests[q].command = "stop", Pending(q)
        PROVE  Pending(q)'
    <3>1. \A i \in n + 1 .. Len(topic) : topic[i] # q
      BY <2>2, <2>6 DEF Lose
    <3>2. OnTopic(q) => OnTopic(q)'
      <4> SUFFICES ASSUME OnTopic(q) PROVE OnTopic(q)'
        OBVIOUS
      <4>1. PICK i \in 1..Len(topic) : topic[i] = q
        BY DEF OnTopic
      <4>2. i \in 1..n
        BY <1>1, <3>1, <4>1
      <4> QED
        BY <2>3, <4>1, <4>2 DEF OnTopic
    <3> QED
      BY <2>1, <2>6, <3>2 DEF Pending, Waits, At
  <2>7. Sent' = Sent
    BY <2>1 DEF Sent
  <2>8. StopsCount'
    BY <1>1, <2>1, <2>5, <2>6, <2>7, TakenKept
  <2> QED
    BY <2>4, <2>8 DEF CInv
<1>4. CASE CameraTakes
  <2>1. /\ UNCHANGED <<requests, connected, waiting, excuses>>
        /\ topic # <<>> /\ topic' = Tail(topic) /\ turning' = (requests[Head(topic)].command = "move")
    BY <1>4 DEF CameraTakes
  <2>0. PICK h : h = topic[1]
    OBVIOUS
  <2>2. /\ Len(topic) >= 1 /\ Len(topic') = Len(topic) - 1 /\ Head(topic) = h
        /\ \A i \in 1..Len(topic') : i + 1 \in 1..Len(topic) /\ topic'[i] = topic[i + 1]
        /\ \A i \in 1..Len(topic) : i = 1 \/ (i - 1 \in 1..Len(topic') /\ topic'[i - 1] = topic[i])
    BY <1>1, <2>0, <2>1 DEF Topic
  <2>3. 1 \in 1..Len(topic) /\ h \in Sent
    BY <1>1, <2>0, <2>2 DEF Topic
  <2>4. InLine'
    BY <1>1, <2>1, <2>2 DEF InLine, Sorted, Sent, At
  <2>5. Sent' = Sent /\ Len(requests') = Len(requests) /\ h \in 0..Len(requests)
    BY <1>1, <2>1, <2>3 DEF Sent
  <2>6. ASSUME NEW q \in Sent, Pending(q)' PROVE q > h /\ Pending(q)
    <3>1. CASE At(q) = "sent"
      BY <1>1, <2>0, <2>3, <3>1 DEF InLine, Pending
    <3>2. CASE Waits(q)
      BY <1>1, <2>0, <2>3, <3>2 DEF InLine, Pending, Waits
    <3>3. CASE OnTopic(q)'
      <4>1. PICK i \in 1..Len(topic') : topic'[i] = q
        BY <3>3 DEF OnTopic
      <4>2. i + 1 \in 1..Len(topic) /\ topic[i + 1] = q /\ 1 < i + 1
        BY <2>2, <4>1
      <4> QED
        BY <1>1, <2>0, <2>3, <4>2 DEF InLine, Sorted, Pending, OnTopic
    <3> QED
      BY <2>1, <2>6, <3>1, <3>2, <3>3 DEF Pending, Waits, At
  <2>7. ASSUME NEW q \in Sent, q # h, Pending(q) PROVE Pending(q)'
    <3>1. OnTopic(q) => OnTopic(q)'
      BY <2>0, <2>2, <2>7 DEF OnTopic
    <3> QED
      BY <2>1, <2>7, <3>1 DEF Pending, Waits, At
  <2>8. Pending(h)
    BY <2>0, <2>3 DEF Pending, OnTopic
  <2>9. ASSUME excuses' = {} PROVE Taken(h)'
    <3>1. PICK m \in 0..Len(requests) : Taken(m)
      BY <1>1, <2>1, <2>9 DEF StopsCount
    <3>2. h > m
      BY <2>3, <2>8, <3>1 DEF Taken
    <3>3. ASSUME NEW q \in Sent, q > h, requests[q].command = "stop" PROVE Pending(q)'
      <4>1. q > m /\ q # h
        BY <2>5, <3>2, <3>3 DEF Sent
      <4> QED
        BY <2>7, <3>1, <3>3, <4>1 DEF Taken
    <3>4. turning' => h \in Sent /\ requests[h].command = "move"
      BY <2>1, <2>2, <2>3
    <3> QED
      BY <2>1, <2>5, <2>6, <3>3, <3>4 DEF Taken
  <2> QED
    BY <2>4, <2>5, <2>9 DEF CInv, StopsCount
<1> QED
  BY <1>2, <1>3, <1>4

LEMMA StepCamera == CInv /\ [Next]_vars => CInv'
<1> SUFFICES ASSUME CInv, [Next]_vars PROVE CInv'
  OBVIOUS
<1>1. IInv' /\ SInv'
  BY StepKeeps, StepServer DEF CInv
<1>2. CASE UNCHANGED vars
  <2>1. UNCHANGED <<requests, connected, waiting, topic, turning, excuses>>
    BY <1>2 DEF vars, server
  <2>2. InLine' <=> InLine
    BY <2>1 DEF InLine, Sorted, Sent, At
  <2>3. StopsCount' <=> StopsCount
    BY <2>1 DEF StopsCount, Taken, Pending, Waits, OnTopic, Sent, At
  <2> QED
    BY <1>1, <2>2, <2>3 DEF CInv
<1> QED
  BY <1>1, <1>2, ButtonsCamera, RequestCamera, BrokerCamera DEF Next

LEMMA RestsWhenQuiet == CInv => NotLeftMoving
<1> SUFFICES ASSUME CInv, excuses = {}, Quiet, turning PROVE FALSE
  BY DEF NotLeftMoving
<1>1. PICK m \in 0..Len(requests) : Taken(m)
  BY DEF CInv, StopsCount
<1> DEFINE n == Len(requests)
<1>2. m \in Sent /\ requests[m].command = "move" /\ n \in Nat
  BY <1>1 DEF Taken, CInv, SInv, RequestsType
<1>3. requests # <<>> /\ n \in Sent
  BY <1>2 DEF Sent
<1>4. StopSentLast
  BY DEF CInv, IInv, FlagTells, FlagNeeded, StopSentLast
<1>5. requests[n].command = "stop"
  BY <1>3, <1>4 DEF Quiet, StopSentLast, Last
<1>6. n > m
  BY <1>2, <1>5 DEF Sent
<1> HIDE DEF n
<1>7. Pending(n)
  BY <1>1, <1>3, <1>5, <1>6 DEF Taken
<1>8. At(n) \in {"ok", "failed"} /\ Len(topic) = 0
  BY <1>3 DEF Quiet
<1>9. ~Waits(n)
  BY <1>8 DEF CInv, SInv, Listeners, Waits
<1> QED
  BY <1>7, <1>8, <1>9 DEF Pending, OnTopic

(* If requests do not overtake each other, the camera is not left moving   *)
(* once nothing is held and every request has been answered: whatever      *)
(* becomes of the moves, however many requests there are and however often *)
(* the broker goes away, as long as no stop is lost.                       *)
THEOREM CameraIsNotLeftMoving == ~Reorders /\ Spec => []NotLeftMoving
<1>1. Init /\ ~Reorders => CInv
  BY InitCamera
<1>2. CInv /\ [Next]_vars => CInv'
  BY StepCamera
<1>3. CInv => NotLeftMoving
  BY RestsWhenQuiet
<1> QED
  BY <1>1, <1>2, <1>3, PTL DEF Spec
=============================================================================
