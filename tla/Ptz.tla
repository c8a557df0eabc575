-------------------------------- MODULE Ptz --------------------------------
(***************************************************************************)
(* Pan, tilt and zoom, end to end: the buttons of PtzControls (web), the   *)
(* POST requests they send, CameraAccessGuard and LiveController.movePtz,  *)
(* MqttPtzTransport.send with its wait for the broker and its timeout, the *)
(* broker's topic, and the camera, which moves until it receives a stop.   *)
(*                                                                         *)
(* One browser and one camera. The six moves are one: the camera only      *)
(* tells a move from a stop. A request is named by its number.             *)
(***************************************************************************)
EXTENDS Integers, Sequences

CONSTANTS
  MaxSends,     \* bound: requests the browser sends
  Reorders      \* may a request overtake an earlier one on its way to send()?

ASSUME MaxSendsAssumption == MaxSends \in Nat
ASSUME ReordersAssumption == Reorders \in BOOLEAN

VARIABLES
  mounted,    \* is PtzControls mounted?
  held,       \* the inputs pressed on a move button: "pointer", "key"
  moving,     \* movingRef.current
  requests,   \* the POST requests sent so far: command and state of each
  connected,  \* is the MQTT client connected to the broker?
  waiting,    \* the requests listening for 'connect', in order
  topic,      \* the requests published and not yet taken by the camera
  turning,    \* is the camera moving?
  excuses     \* history: what has happened that no code here can make good

ui     == <<mounted, held, moving>>
server == <<connected, waiting, topic>>
vars   == <<mounted, held, moving, requests, connected, waiting, topic, turning, excuses>>

(* The page is unloaded under the buttons, a key comes up unseen, a stop   *)
(* is lost on its way to the camera.                                       *)
Excuses == {"unload", "keyUp", "lostStop"}

Inputs  == {"pointer", "key"}
Sent    == 1..Len(requests)
At(r)   == requests[r].at
Last    == requests[Len(requests)].command

(* sendPtz: a POST leaves the browser, whatever came of those before it.   *)
Send(command) == requests' = Append(requests, [command |-> command, at |-> "sent"])

Advance(r, at) == requests' = [requests EXCEPT ![r].at = at]

(* Whatever was asked for by the requests in R will not happen.            *)
Lose(R) == excuses' = excuses \cup (IF \E r \in R : requests[r].command = "stop"
                                    THEN {"lostStop"} ELSE {})

(* Every move leaves room for the stop that follows it.                    *)
Room == Len(requests) + 2 <= MaxSends

-----------------------------------------------------------------------------
Init ==
  /\ mounted = TRUE /\ held = {} /\ moving = FALSE
  /\ requests = <<>>
  /\ connected = FALSE /\ waiting = <<>> /\ topic = <<>>
  /\ turning = FALSE /\ excuses = {}

(* start(): pointer down, or the first key down, on a move button.         *)
Start(i) ==
  /\ mounted /\ i \notin held /\ Room
  /\ held' = held \cup {i}
  /\ moving' = TRUE
  /\ Send("move")
  /\ UNCHANGED <<mounted, server, turning, excuses>>

(* release()                                                               *)
StopIfMoving ==
  /\ moving' = FALSE
  /\ IF moving THEN Send("stop") ELSE UNCHANGED requests

(* The input that was held comes up, leaves the button or is cancelled.    *)
Release(i) ==
  /\ mounted /\ i \in held
  /\ held' = held \ {i}
  /\ StopIfMoving
  /\ UNCHANGED <<mounted, server, turning, excuses>>

(* A pointer that was not pressed leaves a button, or is let go of on one: *)
(* the same handler runs.                                                  *)
PointerPasses ==
  /\ mounted /\ moving
  /\ StopIfMoving
  /\ UNCHANGED <<mounted, held, server, turning, excuses>>

HardStop ==
  /\ mounted /\ Room
  /\ moving' = FALSE
  /\ Send("stop")
  /\ UNCHANGED <<mounted, held, server, turning, excuses>>

(* Broken: the cleanup saw the value of its first render, false.           *)
UnmountWithStaleState ==
  /\ mounted
  /\ mounted' = FALSE /\ held' = {}
  /\ UNCHANGED <<moving, requests, server, turning, excuses>>

(* Navigation inside the application: the effect's cleanup runs.           *)
Unmount ==
  /\ mounted
  /\ mounted' = FALSE /\ held' = {}
  /\ IF moving THEN Send("stop") ELSE UNCHANGED requests
  /\ UNCHANGED <<moving, server, turning, excuses>>

(* The document goes away; React runs no cleanup.                          *)
Unload ==
  /\ mounted
  /\ mounted' = FALSE /\ held' = {}
  /\ excuses' = excuses \cup {"unload"}
  /\ UNCHANGED <<moving, requests, server, turning>>

(* The window or another element has the focus when the key comes up.      *)
LoseKeyUp ==
  /\ mounted /\ "key" \in held
  /\ held' = held \ {"key"}
  /\ excuses' = excuses \cup {"keyUp"}
  /\ UNCHANGED <<mounted, moving, requests, server, turning>>

-----------------------------------------------------------------------------
(* The request arrives and the guard, which asks the database, lets it     *)
(* pass; send() publishes at once, or waits for the connection.            *)
Arrive(r) ==
  /\ At(r) = "sent"
  /\ Reorders \/ \A q \in 1 .. r - 1 : At(q) # "sent"
  /\ IF connected
       THEN Advance(r, "publishing") /\ topic' = Append(topic, r) /\ UNCHANGED waiting
       ELSE Advance(r, "waiting") /\ waiting' = Append(waiting, r) /\ UNCHANGED topic
  /\ UNCHANGED <<ui, connected, turning, excuses>>

(* Lost on the way, or 401, 403 or 404: a permission revoked meanwhile.    *)
Refuse(r) ==
  /\ At(r) = "sent"
  /\ Advance(r, "failed")
  /\ Lose({r})
  /\ UNCHANGED <<ui, server, turning>>

(* Broken: the waiting requests are published last in, first out.          *)
BrokerUpLastInFirstOut ==
  /\ ~connected
  /\ connected' = TRUE
  /\ requests' = [r \in Sent |-> IF \E i \in 1..Len(waiting) : waiting[i] = r
                                THEN [requests[r] EXCEPT !.at = "publishing"]
                                ELSE requests[r]]
  /\ topic' = topic \o [i \in 1..Len(waiting) |-> waiting[Len(waiting) + 1 - i]]
  /\ waiting' = <<>>
  /\ UNCHANGED <<ui, turning, excuses>>

(* 'connect': every listener publishes, in the order they were added.      *)
BrokerUp ==
  /\ ~connected
  /\ connected' = TRUE
  /\ requests' = [r \in Sent |-> IF \E i \in 1..Len(waiting) : waiting[i] = r
                                THEN [requests[r] EXCEPT !.at = "publishing"]
                                ELSE requests[r]]
  /\ topic' = topic \o waiting
  /\ waiting' = <<>>
  /\ UNCHANGED <<ui, turning, excuses>>

(* What was published (QoS 0) and not yet taken may be lost.               *)
BrokerDown ==
  /\ connected
  /\ connected' = FALSE
  /\ \E n \in 0..Len(topic) : /\ topic' = SubSeq(topic, 1, n)
                             /\ Lose({topic[i] : i \in n + 1 .. Len(topic)})
  /\ UNCHANGED <<ui, requests, waiting, turning>>

(* Broken: the publish callback settles with neither success nor failure.  *)
PublishedUnsettled(r) ==
  /\ At(r) = "publishing"
  /\ Advance(r, "unsettled")
  /\ UNCHANGED <<ui, server, turning, excuses>>

(* The callback of publish.                                                *)
Published(r) ==
  /\ At(r) = "publishing"
  /\ Advance(r, "ok")
  /\ UNCHANGED <<ui, server, turning, excuses>>

(* Broken: the timeout leaves its 'connect' listener behind.               *)
TimeOutKeepsListener(r) ==
  /\ At(r) = "waiting"
  /\ Advance(r, "failed")
  /\ Lose({r})
  /\ UNCHANGED <<ui, server, turning>>

(* The timeout wins the race for the connection: 503, and the listener is  *)
(* removed.                                                                *)
TimeOut(r) ==
  /\ At(r) = "waiting"
  /\ Advance(r, "failed")
  /\ Lose({r})
  /\ \E i \in DOMAIN waiting :
       /\ waiting[i] = r
       /\ waiting' = [j \in 1 .. Len(waiting) - 1 |->
                       IF j < i THEN waiting[j] ELSE waiting[j + 1]]
  /\ UNCHANGED <<ui, connected, topic, turning>>

(* It wins the race for the callback of publish, or publish reports an     *)
(* error: 503 too, but what has been published stays published.            *)
TimeOutPublishing(r) ==
  /\ At(r) = "publishing"
  /\ Advance(r, "failed")
  /\ UNCHANGED <<ui, server, turning, excuses>>

CameraTakes ==
  /\ topic # <<>>
  /\ turning' = (requests[Head(topic)].command = "move")
  /\ topic' = Tail(topic)
  /\ UNCHANGED <<ui, requests, connected, waiting, excuses>>

RequestStep(r) == \/ Arrive(r) \/ Refuse(r) \/ Published(r)
                  \/ TimeOut(r) \/ TimeOutPublishing(r)

Next == \/ \E i \in Inputs : Start(i) \/ Release(i)
        \/ PointerPasses \/ HardStop \/ Unmount \/ Unload \/ LoseKeyUp
        \/ \E r \in Sent : RequestStep(r)
        \/ BrokerUp \/ BrokerDown \/ CameraTakes

Spec == Init /\ [][Next]_vars

(* Requests arrive, the client keeps reconnecting, and the camera takes    *)
(* what is published. Nothing makes a user press, release or leave.        *)
FairSpec ==
  /\ Spec
  /\ \A r \in 1..MaxSends : WF_vars(r \in Sent /\ Arrive(r))
  /\ WF_vars(BrokerUp) /\ WF_vars(CameraTakes)

-----------------------------------------------------------------------------
TypeOK ==
  /\ mounted \in BOOLEAN /\ held \subseteq Inputs /\ moving \in BOOLEAN
  /\ requests \in Seq([command : {"move", "stop"},
                       at : {"sent", "waiting", "publishing", "ok", "failed"}])
  /\ Len(requests) <= MaxSends
  /\ connected \in BOOLEAN /\ turning \in BOOLEAN
  /\ waiting \in Seq(Sent) /\ topic \in Seq(Sent) /\ excuses \subseteq Excuses

(* However pointer, key, Stop button and navigation are mixed, once        *)
(* nothing is held any more, or the component is gone, the last command    *)
(* the browser sent is a stop, unless the page was unloaded or a key came  *)
(* up unseen.                                                              *)
StopSentLast ==
  excuses \subseteq {"lostStop"} =>
    ((held = {} \/ ~mounted) /\ requests # <<>> => Last = "stop")

(* A request that failed while it waited for the broker is not published   *)
(* afterwards: of the moves before an outage, only those whose callers     *)
(* still wait reach the camera when the broker comes back ("queued moves   *)
(* would burst-deliver on reconnect and re-move the camera", the comment   *)
(* in conn()).                                                             *)
NothingPublishedLate ==
  [][\A i \in DOMAIN topic' :
       i > Len(topic) => At(topic'[i]) \in {"sent", "waiting"}]_vars

(* Nothing is held, and every command has gone through or failed.          *)
Quiet == held = {} /\ topic = <<>> /\ \A r \in Sent : At(r) \in {"ok", "failed"}

(* "The camera moves until it receives 'stop' -- never leave it moving on  *)
(* navigation" (the comment in the cleanup of PtzControls): it does not,   *)
(* whatever happens to the moves, as long as no stop is lost.              *)
NotLeftMoving == excuses = {} /\ Quiet => ~turning

(* Once the user has let go for good, the camera comes to rest, however    *)
(* often the broker goes away in between and whatever moves are lost.      *)
CameraRests == [](excuses = {}) /\ <>[](held = {}) => <>[]~turning
=============================================================================
