------------------------------- MODULE NodeTasks -------------------------------
(***************************************************************************)
(* Inside one node: the four tasks Network::new and main() spawn, one after *)
(* the other, and the unbounded channels between them.                     *)
(*                                                                         *)
(*     tun --> device <==> network <==> socket <-- v4, v6                  *)
(*                            ||                                           *)
(*                          router                                         *)
(*                                                                         *)
(* A task is polled when it was woken.  Its poll() runs a fixed sequence   *)
(* of loops, each of which takes messages until its channel has none; that *)
(* last look registers the task with the channel, and the next message     *)
(* wakes it.  A step here is one pass of one loop, so that the polls of    *)
(* the four tasks interleave on the threads of the runtime.  A task that   *)
(* panics is dropped by the runtime: its ends of its channels close, and   *)
(* the others meet an Err on sending or a None on receiving, and panic.    *)
(*                                                                         *)
(* What the router decides comes from its table (module Mesh); here it is  *)
(* any decision a table allows, and it panics on a record or a packet it   *)
(* cannot read.  The kernel's queues are channels too; a packet it hands   *)
(* the interface is an IP packet, which tun devices without packet         *)
(* information see to.                                                     *)
(***************************************************************************)
EXTENDS Integers, Sequences, SequencesExt, FiniteSetsExt

CONSTANTS
    Hellos,       \* the families of the configured servers, in their order
    Inputs,       \* bound: Inputs[i] is what may arrive as the i-th input, a set
                  \* of pairs of a kernel queue and a kind
    MaxEvents,    \* bound: how many inputs there are, and times the kernel has
                  \* no room for a write, taken together
    Floods,       \* the lists of the families an announcement may be answered to:
                  \* that of its sender, for a hello, and of each peer it goes to
    Failing       \* the kernel queues that may return an error on a write

\* A record that cannot be entered, having an address that is neither 4 nor 16
\* bytes long, and a datagram's packet that is no IP packet.
Malformed == {"BadNodeRead", "BadPackageRead"}

\* What a datagram is decoded as.
ReadKinds ==
    {"PackageShareRead", "AddNodeRead", "DelNodeRead", "PingPongRead", "DoNoting"} \cup Malformed

ASSUME TasksAssumption ==
    /\ Hellos \in Seq({"v4", "v6"})
    /\ Inputs \in Seq(SUBSET (({"v4", "v6"} \X (ReadKinds \cup {"Error"}))
                              \cup {<<"tun", "Package">>}))
    /\ MaxEvents \in Nat
    /\ Floods \subseteq Seq({"v4", "v6"})
    /\ Failing \subseteq {"v4", "v6", "tun"}

Task == {"device", "network", "router", "socket"}

\* The channels, by reader and writer; those the kernel writes come last.
Reader == [
    deviceRx |-> "device", networkRouter |-> "network", networkSocket |-> "network",
    networkDevice |-> "network", routerRx |-> "router", socketRx |-> "socket",
    v4 |-> "socket", v6 |-> "socket", tun |-> "device"]

Writer == [
    deviceRx |-> "network", networkRouter |-> "router", networkSocket |-> "socket",
    networkDevice |-> "device", routerRx |-> "network", socketRx |-> "network",
    v4 |-> "kernel", v6 |-> "kernel", tun |-> "kernel"]

Channel == DOMAIN Reader
Kernel == {"v4", "v6", "tun"}

\* The loops of each poll(), in order: the channel a loop reads, or "send",
\* the loop that writes what was kept.
Loops == [
    device  |-> <<"deviceRx", "tun", "send">>,
    network |-> <<"networkRouter", "networkSocket", "networkDevice">>,
    router  |-> <<"routerRx">>,
    socket  |-> <<"v4", "v6", "socketRx", "send">>]

VARIABLES
    chan,     \* chan[c]: the messages in channel c
    spawned,  \* the tasks the runtime has got
    asked,    \* the channels whose reader is registered to be woken
    loop,     \* loop[t]: the loop task t is in, 0 between polls
    dead,     \* the tasks that were dropped
    woken,    \* the tasks to be polled (again)
    kept,     \* kept[t]: the list of what task t has to write to the kernel
    room,     \* the kernel queues that take writes
    wants,    \* the kernel queues whose writer is registered to be woken
    out,      \* what was written to the kernel or given up (history)
    inputs,   \* the kinds of the inputs so far; an input's id is its index
    clogs     \* how often a kernel queue had no room

vars == <<chan, spawned, asked, loop, dead, woken, kept, room, wants, out, inputs, clogs>>

-----------------------------------------------------------------------------
(***************************************************************************)
(* Messages: the variant of the Message enum, the input it stems from,     *)
(* which of the answers to it this is, and for one that is to be written,  *)
(* the kernel queue it goes to.                                            *)
(***************************************************************************)
Msg(kind, id) == [kind |-> kind, id |-> id, nr |-> 0, via |-> "none"]
Write(kind, id, nr, via) == [kind |-> kind, id |-> id, nr |-> nr, via |-> via]

\* Announcements that stem from input id, to addresses of the families in f.
Announced(id, f) == [i \in DOMAIN f |-> Write("AddNodeWrite", id, i, f[i])]

\* Router::router_message: the answers to message m, as one table or another
\* would have it; for one it panics on, those it sent before.
Routed(m) ==
    CASE m.kind \in {"PackageShareRead", "InterfaceRead"} ->
            {<<Write("PackageShareWrite", m.id, 1, via)>> : via \in {"v4", "v6"}}
            \cup {<<Write("InterfaceWrite", m.id, 1, "tun")>>, <<Msg("DoNoting", m.id)>>}
      [] m.kind = "AddNodeRead" -> {Announced(m.id, f) : f \in Floods}
      [] m.kind \in {"DelNodeRead", "DoNoting"} -> {<<Msg("DoNoting", m.id)>>}
      [] m.kind = "PingPongRead" -> {<<Write("PingPongWrite", m.id, 1, "v4")>>}
      [] m.kind = "BadNodeRead" -> {Announced(m.id, f) : f \in {<< >>, <<"v4">>, <<"v6">>}}
      [] m.kind = "BadPackageRead" -> {<< >>}

\* The variants router_message panics on.
Unroutable == {"InterfaceWrite", "PingPongWrite", "AddNodeWrite", "PackageShareWrite"}

\* Mutant: an announcement is not sent on but goes back to the router.
OutletForgetsAddNode(m) ==
    CASE m.kind = "InterfaceWrite" -> "deviceRx"
      [] m.kind = "PackageShareWrite" -> "socketRx"
      [] OTHER -> "routerRx"

\* Network::poll: where a message of the router goes.
Outlet(m) ==
    CASE m.kind = "InterfaceWrite" -> "deviceRx"
      [] m.kind \in {"PackageShareWrite", "AddNodeWrite"} -> "socketRx"
      [] OTHER -> "routerRx"

-----------------------------------------------------------------------------
(***************************************************************************)
(* Channels and tasks.                                                     *)
(***************************************************************************)
Alive(t) == t \notin dead

\* Task t, running, is at the loop named l.
At(t, l) == Alive(t) /\ loop[t] > 0 /\ Loops[t][loop[t]] = l

\* Messages ms reach channel d: its reader is woken if it registered.
Wakes(d, ms) == IF ms # << >> /\ d \in asked THEN {Reader[d]} ELSE {}

Unasked(d, ms) == IF ms # << >> THEN asked \ {d} ELSE asked

\* Task t is dropped, when the channels are as in left; what it had to read is
\* lost, and whoever waits for a message of it is woken to find the channel
\* closed.
Fall(t, left) ==
    LET closed == {c \in asked : Writer[c] = t}
    IN  /\ dead' = dead \cup {t}
        /\ chan' = [c \in Channel |-> IF Reader[c] = t THEN << >> ELSE left[c]]
        /\ woken' = (woken \cup {Reader[c] : c \in closed}) \ {t}
        /\ asked' = {c \in asked : Reader[c] # t} \ closed
        /\ loop' = [loop EXCEPT ![t] = 0]
        /\ kept' = [kept EXCEPT ![t] = << >>]
        /\ UNCHANGED <<spawned, room, wants, out, inputs, clogs>>

Die(t) == Fall(t, chan)

\* The channels when the router has sent ms, before it panics.
Answering(ms) ==
    [chan EXCEPT !["networkRouter"] = IF Alive("network") THEN @ \o ms ELSE @]

\* Mutant: the loop is left after one message.
PassOnce(t, c, d, ms) ==
    /\ chan[c] # << >>
    /\ IF ms # << >> /\ ~Alive(Reader[d])
       THEN Die(t)
       ELSE /\ chan' = [chan EXCEPT ![c] = Tail(@), ![d] = @ \o ms]
            /\ woken' = woken \cup Wakes(d, ms)
            /\ asked' = Unasked(d, ms)
            /\ loop' = [loop EXCEPT ![t] = IF @ < Len(Loops[t]) THEN @ + 1 ELSE 0]
            /\ UNCHANGED <<spawned, dead, kept, room, wants, out, inputs, clogs>>

\* Task t takes the first message of c and sends ms to d: an Err is unwrapped.
Pass(t, c, d, ms) ==
    /\ chan[c] # << >>
    /\ IF ms # << >> /\ ~Alive(Reader[d])
       THEN Die(t)
       ELSE /\ chan' = [chan EXCEPT ![c] = Tail(@), ![d] = @ \o ms]
            /\ woken' = woken \cup Wakes(d, ms)
            /\ asked' = Unasked(d, ms)
            /\ UNCHANGED <<spawned, loop, dead, kept, room, wants, out, inputs, clogs>>

\* Task t takes the first message of c into its list.
Keep(t, c) ==
    /\ chan[c] # << >>
    /\ chan' = [chan EXCEPT ![c] = Tail(@)]
    /\ kept' = [kept EXCEPT ![t] = Append(@, Head(chan[c]))]
    /\ UNCHANGED <<spawned, asked, loop, dead, woken, room, wants, out, inputs, clogs>>

\* Mutant: a poll goes on past its last loop.
NextLoopPast(t) == [loop EXCEPT ![t] = @ + 1]

\* The last loop of a poll is followed by NotReady.
NextLoop(t) == [loop EXCEPT ![t] = IF @ < Len(Loops[t]) THEN @ + 1 ELSE 0]

\* Mutant: a closed channel counts as an empty one.
ExhaustedIgnoresClosed(t, c) ==
    /\ At(t, c)
    /\ chan[c] = << >>
    /\ asked' = asked \cup {c}
    /\ loop' = NextLoop(t)
    /\ UNCHANGED <<spawned, chan, dead, woken, kept, room, wants, out, inputs, clogs>>

\* Channel c has nothing: its reader registers and goes on, or, when nobody
\* will ever write to c, panics.
Exhausted(t, c) ==
    /\ At(t, c)
    /\ chan[c] = << >>
    /\ IF ~Alive(Writer[c])
       THEN Die(t)
       ELSE /\ asked' = asked \cup {c}
            /\ loop' = NextLoop(t)
            /\ UNCHANGED <<spawned, chan, dead, woken, kept, room, wants, out, inputs, clogs>>

-----------------------------------------------------------------------------
(***************************************************************************)
(* The loops.                                                              *)
(***************************************************************************)
\* The hellos Network::new leaves for the socket; they stem from no input, and
\* each goes to another server.
Greetings == [i \in DOMAIN Hellos |-> Write("AddNodeWrite", -i, 1, Hellos[i])]

InitWith(hellos) ==
    /\ chan = [c \in Channel |-> IF c = "socketRx" THEN hellos ELSE << >>]
    /\ spawned = {}
    /\ asked = {}
    /\ loop = [t \in Task |-> 0]
    /\ dead = {}
    /\ woken = {}
    /\ kept = [t \in Task |-> << >>]
    /\ room = Kernel
    /\ wants = {}
    /\ out = {}
    /\ inputs = << >>
    /\ clogs = 0

Init == InitWith(Greetings)

\* The order in which the tasks are spawned.
Order == <<"router", "socket", "device", "network">>

\* The next task is spawned, while those before it may be running.
Spawn(t) ==
    /\ t \notin spawned
    /\ \A i \in DOMAIN Order : Order[i] = t => \A j \in 1 .. i - 1 : Order[j] \in spawned
    /\ spawned' = spawned \cup {t}
    /\ woken' = woken \cup {t}
    /\ UNCHANGED <<chan, asked, loop, dead, kept, room, wants, out, inputs, clogs>>

\* The runtime polls a task that was woken.
BeginPoll(t) ==
    /\ Alive(t) /\ t \in spawned /\ loop[t] = 0 /\ t \in woken
    /\ loop' = [loop EXCEPT ![t] = 1]
    /\ woken' = woken \ {t}
    /\ UNCHANGED <<spawned, chan, asked, dead, kept, room, wants, out, inputs, clogs>>

\* Router::poll: one message, all its answers.
RouterMessage ==
    /\ At("router", "routerRx")
    /\ chan["routerRx"] # << >>
    /\ LET m == Head(chan["routerRx"])
       IN  IF m.kind \in Unroutable
           THEN Die("router")
           ELSE \E ms \in Routed(m) :
                    IF m.kind \in Malformed
                    THEN Fall("router", Answering(ms))
                    ELSE Pass("router", "routerRx", "networkRouter", ms)

\* Network::poll, first loop: what the router says.
FromRouter ==
    /\ At("network", "networkRouter")
    /\ chan["networkRouter"] # << >>
    /\ LET m == Head(chan["networkRouter"])
       IN  IF m.kind = "DoNoting"
           THEN /\ chan' = [chan EXCEPT !["networkRouter"] = Tail(@)]
                /\ out' = out \cup {m}
                /\ UNCHANGED <<spawned, asked, loop, dead, woken, kept, room, wants, inputs, clogs>>
           ELSE Pass("network", "networkRouter", Outlet(m), <<m>>)

\* Second loop: what the sockets received goes to the router.
FromSocket ==
    /\ At("network", "networkSocket")
    /\ chan["networkSocket"] # << >>
    /\ Pass("network", "networkSocket", "routerRx", <<Head(chan["networkSocket"])>>)

\* Third loop: what the interface read goes to the router.
FromDevice ==
    /\ At("network", "networkDevice")
    /\ chan["networkDevice"] # << >>
    /\ Pass("network", "networkDevice", "routerRx",
            <<Msg("InterfaceRead", Head(chan["networkDevice"]).id)>>)

\* Socket::poll, first two loops: a datagram is decoded.
Receive(c) ==
    /\ At("socket", c)
    /\ chan[c] # << >> /\ Head(chan[c]).kind # "Error"
    /\ Pass("socket", c, "networkSocket", <<Head(chan[c])>>)

\* The receive fails: that is logged, and the loop goes on.
ReceiveError(c) ==
    /\ At("socket", c)
    /\ chan[c] # << >> /\ Head(chan[c]).kind = "Error"
    /\ chan' = [chan EXCEPT ![c] = Tail(@)]
    /\ out' = out \cup {Head(chan[c])}
    /\ UNCHANGED <<spawned, asked, loop, dead, woken, kept, room, wants, inputs, clogs>>

\* Socket::poll and Device::poll, the loop over their own channel.
Collect(t, c) == At(t, c) /\ Keep(t, c)

\* Device::poll, second loop: a packet is read from the interface.
ReadInterface ==
    /\ At("device", "tun")
    /\ chan["tun"] # << >>
    /\ Pass("device", "tun", "networkDevice", <<Head(chan["tun"])>>)

\* An error of the interface ends Device's future.
InterfaceFails ==
    /\ "tun" \in Failing
    /\ At("device", "tun") \/ (At("device", "send") /\ kept["device"] # << >>)
    /\ Die("device")

\* The last loop of Socket::poll and Device::poll: one write.
WriteOne(t) ==
    /\ At(t, "send")
    /\ kept[t] # << >>
    /\ Head(kept[t]).via \in room
    /\ kept' = [kept EXCEPT ![t] = Tail(@)]
    /\ out' = out \cup {Head(kept[t])}
    /\ UNCHANGED <<spawned, chan, asked, loop, dead, woken, room, wants, inputs, clogs>>

\* Message m, after the kernel returned an error on its write.
Refused(m) == [m EXCEPT !.via = "refused"]

\* The write of a datagram fails: that is logged, the datagram is gone, and the
\* loop goes on.
WriteFails ==
    /\ At("socket", "send")
    /\ kept["socket"] # << >>
    /\ LET m == Head(kept["socket"])
       IN  m.via \in room \cap Failing /\ out' = out \cup {Refused(m)}
    /\ kept' = [kept EXCEPT !["socket"] = Tail(@)]
    /\ UNCHANGED <<spawned, chan, asked, loop, dead, woken, room, wants, inputs, clogs>>

\* Mutant: the message that could not be written is not put back.
WriteBlockedDrops(t) ==
    /\ At(t, "send")
    /\ kept[t] # << >>
    /\ Head(kept[t]).via \notin room
    /\ kept' = [kept EXCEPT ![t] = Tail(@)]
    /\ wants' = wants \cup {Head(kept[t]).via}
    /\ loop' = [loop EXCEPT ![t] = 0]
    /\ UNCHANGED <<spawned, chan, asked, dead, woken, room, out, inputs, clogs>>

\* Mutant: the poll ends without asking to be woken when there is room.
WriteBlockedSleeps(t) ==
    /\ At(t, "send")
    /\ kept[t] # << >>
    /\ Head(kept[t]).via \notin room
    /\ kept' = [kept EXCEPT ![t] = Append(Tail(@), Head(@))]
    /\ loop' = [loop EXCEPT ![t] = 0]
    /\ UNCHANGED <<spawned, chan, asked, dead, woken, room, wants, out, inputs, clogs>>

\* Mutant: a write the kernel has no room for is tried again at once.
WriteBlockedRetries(t) ==
    /\ At(t, "send")
    /\ kept[t] # << >>
    /\ Head(kept[t]).via \notin room
    /\ kept' = [kept EXCEPT ![t] = Append(Tail(@), Head(@))]
    /\ wants' = wants \cup {Head(kept[t]).via}
    /\ UNCHANGED <<spawned, chan, asked, loop, dead, woken, room, out, inputs, clogs>>

\* The kernel has no room: the message goes to the end of the list, and the
\* poll is over until there is.
WriteBlocked(t) ==
    /\ At(t, "send")
    /\ kept[t] # << >>
    /\ Head(kept[t]).via \notin room
    /\ kept' = [kept EXCEPT ![t] = Append(Tail(@), Head(@))]
    /\ wants' = wants \cup {Head(kept[t]).via}
    /\ loop' = [loop EXCEPT ![t] = 0]
    /\ UNCHANGED <<spawned, chan, asked, dead, woken, room, out, inputs, clogs>>

WroteAll(t) ==
    /\ At(t, "send")
    /\ kept[t] = << >>
    /\ loop' = [loop EXCEPT ![t] = 0]
    /\ UNCHANGED <<spawned, chan, asked, dead, woken, kept, room, wants, out, inputs, clogs>>

-----------------------------------------------------------------------------
(***************************************************************************)
(* The kernel.                                                             *)
(***************************************************************************)

\* A datagram or a packet of the interface arrives.
Arrive(c, kind) ==
    /\ Len(inputs) < Len(Inputs) /\ Len(inputs) + clogs < MaxEvents
    /\ <<c, kind>> \in Inputs[Len(inputs) + 1]
    /\ Alive(Reader[c])
    /\ LET ms == <<Msg(kind, Len(inputs) + 1)>>
       IN  /\ chan' = [chan EXCEPT ![c] = @ \o ms]
           /\ woken' = woken \cup Wakes(c, ms)
           /\ asked' = Unasked(c, ms)
    /\ inputs' = Append(inputs, kind)
    /\ UNCHANGED <<spawned, loop, dead, kept, room, wants, out, clogs>>

Clog(s) ==
    /\ s \in room
    /\ Len(inputs) + clogs < MaxEvents
    /\ room' = room \ {s}
    /\ clogs' = clogs + 1
    /\ UNCHANGED <<spawned, chan, asked, loop, dead, woken, kept, wants, out, inputs>>

Unclog(s) ==
    /\ s \notin room
    /\ room' = room \cup {s}
    /\ woken' = woken \cup (IF s \in wants THEN {Reader[s]} \ dead ELSE {})
    /\ wants' = wants \ {s}
    /\ UNCHANGED <<spawned, chan, asked, loop, dead, kept, out, inputs, clogs>>

-----------------------------------------------------------------------------
Finish(t) == \E c \in Channel : Reader[c] = t /\ Exhausted(t, c)

DeviceStep ==
    BeginPoll("device") \/ Collect("device", "deviceRx") \/ ReadInterface
    \/ WriteOne("device") \/ WriteBlocked("device") \/ WroteAll("device") \/ Finish("device")

NetworkStep ==
    BeginPoll("network") \/ FromRouter \/ FromSocket \/ FromDevice \/ Finish("network")

RouterStep == BeginPoll("router") \/ RouterMessage \/ Finish("router")

SocketStep ==
    BeginPoll("socket") \/ Receive("v4") \/ Receive("v6") \/ ReceiveError("v4")
    \/ ReceiveError("v6") \/ Collect("socket", "socketRx")
    \/ WriteOne("socket") \/ WriteFails \/ WriteBlocked("socket") \/ WroteAll("socket")
    \/ Finish("socket")

Environment ==
    \/ \E i \in UNION ToSet(Inputs) : Arrive(i[1], i[2])
    \/ \E s \in Kernel : Clog(s)
    \/ InterfaceFails

Next ==
    \/ DeviceStep \/ NetworkStep \/ RouterStep \/ SocketStep
    \/ \E t \in Task : Spawn(t)
    \/ Environment
    \/ \E s \in Kernel : Unclog(s)

Spec == Init /\ [][Next]_vars

-----------------------------------------------------------------------------
(***************************************************************************)
(* Properties.                                                             *)
(***************************************************************************)
MessageKinds ==
    ReadKinds \cup {"Error", "Package", "InterfaceRead", "InterfaceWrite",
                   "PackageShareWrite", "AddNodeWrite", "PingPongWrite"}

Message == [kind : MessageKinds, id : Int, nr : Nat, via : Kernel \cup {"none", "refused"}]

\* Every variable has its type.
TypeOK ==
    /\ chan \in [Channel -> Seq(Message)]
    /\ kept \in [Task -> Seq(Message)]
    /\ loop \in [Task -> Nat] /\ \A t \in Task : loop[t] <= Len(Loops[t])
    /\ spawned \subseteq Task /\ dead \subseteq spawned /\ woken \subseteq Task
    /\ asked \subseteq Channel
    /\ room \subseteq Kernel /\ wants \subseteq Kernel
    /\ out \subseteq Message
    /\ inputs \in Seq(MessageKinds) /\ clogs \in Nat

\* Task t will come to loop l without any further wake-up.
WillLook(t, l) ==
    \/ t \in woken \/ t \notin spawned
    \/ loop[t] > 0 /\ l \in {Loops[t][i] : i \in loop[t] .. Len(Loops[t])}

\* A message, or the end of a channel, waits only for a task that will look.
NoneUnread ==
    \A c \in Channel :
        Alive(Reader[c]) /\ (chan[c] # << >> \/ ~Alive(Writer[c])) => WillLook(Reader[c], c)

\* What is to be written waits only for its writer's last loop or for room.
NoneUnwritten ==
    \A t \in Task \ dead :
        kept[t] # << >> => WillLook(t, "send") \/ \E i \in DOMAIN kept[t] :
                                                    kept[t][i].via \in wants \ room

\* No wake-up is lost: a task never sleeps on a message, on a closed channel,
\* or on something to write that the kernel would take.
NoLostWakeup == NoneUnread /\ NoneUnwritten

-----------------------------------------------------------------------------
(***************************************************************************)
(* What the node does, without its tasks (module NodeService).             *)
(***************************************************************************)
AnswersTo(kind, i) ==
    IF kind = "Error" THEN {}
    ELSE {ToSet(ms) : ms \in Routed(Msg(IF kind = "Package" THEN "InterfaceRead" ELSE kind, i))}

EndedBy(kind, i) == {Msg(k, i) : k \in {kind} \cap {"Error"}}

SentOrRefused(m) == {m, Refused(m)}

\* The inputs between the kernel and the router.
Undecided ==
    {m.id : m \in (UNION {ToSet(chan[c]) :
                            c \in {"v4", "v6", "tun", "networkSocket", "networkDevice"}})
                  \cup {m \in ToSet(chan["routerRx"]) : m.kind \notin Unroutable}}

\* The answers between the router and the kernel.
Unsent ==
    (UNION {ToSet(chan[c]) : c \in {"networkRouter", "deviceRx", "socketRx"}})
    \cup (UNION {ToSet(kept[t]) : t \in Task})
    \cup {m \in ToSet(chan["routerRx"]) : m.kind \in Unroutable}

Service == INSTANCE NodeService WITH
    Hellos <- ToSet(Greetings), Kinds <- {i[2] : i \in UNION ToSet(Inputs)},
    Answers <- AnswersTo, Ended <- EndedBy, Outcomes <- SentOrRefused,
    arrived <- inputs, todo <- Undecided, owed <- Unsent, done <- out, stopped <- dead # {}

\* The four tasks and their channels implement one node that decides each input
\* once and lets each answer out once, however many of them go to one family:
\* while the node works nothing is lost between two tasks, nothing is decided or
\* sent twice, a datagram is given up only when the kernel refuses it, and when
\* the node stops it makes nothing up.
KeepsService == Service!ServiceSpec

\* The inputs the router panics on, a ping by way of its own answer.
Fatal == {"PingPongRead"} \cup Malformed

\* Only a ping, a record or a packet that cannot be read, and a failing interface
\* stop a node: none of the other inputs, in whatever order the tasks take them
\* and their answers, brings one of the four to a message it panics on.
OnlyFatalKills ==
    dead # {} => \/ \E i \in DOMAIN inputs : inputs[i] \in Fatal
                 \/ "tun" \in Failing

\* A node whose task died stops altogether: the panics reach all four tasks,
\* and tokio::run returns.
FailStop == dead # {} ~> dead = Task

Drained == (\A c \in Channel : chan[c] = << >>) /\ (\A t \in Task : kept[t] = << >>)

\* Everything that arrives is handled.
Drains == <>[](dead = {} => Drained)

\* All tasks run, none is polled or to be polled, and the kernel takes writes.
Resting ==
    /\ spawned = Task /\ room = Kernel
    /\ \A t \in Task \ dead : loop[t] = 0 /\ t \notin woken

\* A node rests only when it has handled everything, or stopped altogether:
\* no end of one task leaves another asleep, and nothing is left lying.
RestsWhenDone == Resting => dead = Task \/ (dead = {} /\ Drained)

\* What is left to do, the work that makes other work before the work it makes:
\* tasks that may end, messages by the place they are at, polls, loops.
Waiting(cs) == UNION {{c} \X DOMAIN chan[c] : c \in cs}
Unwritten == UNION {{t} \X DOMAIN kept[t] : t \in Task}
Ahead == UNION {{t} \X {i \in DOMAIN Loops[t] : 0 < loop[t] /\ loop[t] <= i} : t \in Task}

Remaining == <<
    Task \ dead, Waiting(Kernel), Waiting({"networkSocket", "networkDevice"}), Undecided,
    Waiting({"networkRouter"}), Waiting({"deviceRx", "socketRx"}), Unwritten, woken, Ahead>>

\* List b is below a: the first set to change loses members and wins none.
Below(b, a) == \E i \in DOMAIN a : /\ b[i] \subseteq a[i] /\ b[i] # a[i]
                                  /\ \A j \in 1 .. i - 1 : b[j] = a[j]

\* No task spins: every step that no input and no kernel queue is the cause of
\* leaves less to do, so the polls of the four tasks end, whoever wakes whom.
NoTaskSpins ==
    [][spawned # {} /\ UNCHANGED <<spawned, room, inputs>> => Below(Remaining', Remaining)]_vars

\* doc/state-machine.dot:19 - PING_RECEIVED -> PING_SEND: a ping is answered.
PingAnswered ==
    (\E i \in DOMAIN inputs : inputs[i] = "PingPongRead")
        ~> (\E m \in out : m.kind = "PingPongWrite")
=============================================================================
