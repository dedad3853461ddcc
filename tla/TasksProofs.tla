------------------------------ MODULE TasksProofs ------------------------------
(***************************************************************************)
(* Proofs about the tasks of a node, from its setup on, for every list of  *)
(* servers, every input, and any number of inputs and full kernel queues.  *)
(***************************************************************************)
EXTENDS Startup, TLAPS

-----------------------------------------------------------------------------
(***************************************************************************)
(* Sequences and what is in them.                                          *)
(***************************************************************************)
LEMMA HeadAndTail ==
    ASSUME NEW S, NEW s \in Seq(S), s # << >>
    PROVE  /\ Head(s) \in S /\ Tail(s) \in Seq(S)
           /\ Head(s) \in ToSet(s)
           /\ ToSet(s) = ToSet(Tail(s)) \cup {Head(s)}
<1>1. /\ Head(s) \in S /\ Tail(s) \in Seq(S) /\ Head(s) = s[1] /\ 1 \in DOMAIN s
      /\ DOMAIN s = 1 .. Len(s) /\ DOMAIN Tail(s) = 1 .. Len(s) - 1
      /\ \A i \in 1 .. Len(s) - 1 : Tail(s)[i] = s[i + 1]
      /\ Len(s) \in Nat \ {0}
  OBVIOUS
<1>2. ASSUME NEW i \in DOMAIN s, i # 1
      PROVE  i - 1 \in DOMAIN Tail(s) /\ Tail(s)[i - 1] = s[i]
  BY <1>1, <1>2
<1>3. ASSUME NEW i \in DOMAIN Tail(s)
      PROVE  i + 1 \in DOMAIN s /\ Tail(s)[i] = s[i + 1]
  BY <1>1, <1>3
<1> QED
  BY <1>1, <1>2, <1>3 DEF ToSet

LEMMA Concatenated ==
    ASSUME NEW S, NEW s \in Seq(S), NEW t \in Seq(S)
    PROVE  s \o t \in Seq(S) /\ ToSet(s \o t) = ToSet(s) \cup ToSet(t)
<1>1. /\ s \o t \in Seq(S) /\ DOMAIN (s \o t) = 1 .. Len(s) + Len(t)
      /\ DOMAIN s = 1 .. Len(s) /\ DOMAIN t = 1 .. Len(t)
      /\ Len(s) \in Nat /\ Len(t) \in Nat
      /\ \A i \in 1 .. Len(s) : (s \o t)[i] = s[i]
      /\ \A i \in 1 .. Len(t) : (s \o t)[Len(s) + i] = t[i]
  OBVIOUS
<1>2. ASSUME NEW i \in 1 .. Len(s) + Len(t), i \notin 1 .. Len(s)
      PROVE  i - Len(s) \in 1 .. Len(t) /\ (s \o t)[i] = t[i - Len(s)]
  BY <1>1, <1>2
<1>3. ToSet(s \o t) = {(s \o t)[i] : i \in 1 .. Len(s) + Len(t)}
  BY <1>1 DEF ToSet
<1>4. ToSet(s) = {s[i] : i \in 1 .. Len(s)} /\ ToSet(t) = {t[i] : i \in 1 .. Len(t)}
  BY <1>1 DEF ToSet
<1>5. ASSUME NEW x \in ToSet(s \o t) PROVE x \in ToSet(s) \cup ToSet(t)
  <2>1. PICK i \in 1 .. Len(s) + Len(t) : x = (s \o t)[i]
    BY <1>3
  <2> QED
    BY <1>1, <1>2, <1>4, <2>1
<1>6. ASSUME NEW x \in ToSet(s) PROVE x \in ToSet(s \o t)
  <2>1. PICK i \in 1 .. Len(s) : x = s[i]
    BY <1>4, <1>6
  <2>2. i \in 1 .. Len(s) + Len(t)
    BY <1>1
  <2> QED
    BY <1>1, <1>3, <2>1, <2>2
<1>7. ASSUME NEW x \in ToSet(t) PROVE x \in ToSet(s \o t)
  <2>1. PICK i \in 1 .. Len(t) : x = t[i]
    BY <1>4, <1>7
  <2>2. Len(s) + i \in 1 .. Len(s) + Len(t)
    BY <1>1
  <2> QED
    BY <1>1, <1>3, <2>1, <2>2
<1> QED
  BY <1>1, <1>5, <1>6, <1>7

LEMMA Appended ==
    ASSUME NEW S, NEW s \in Seq(S), NEW x \in S
    PROVE  /\ Append(s, x) \in Seq(S) /\ Append(s, x) = s \o <<x>>
           /\ ToSet(Append(s, x)) = ToSet(s) \cup {x}
<1> DEFINE one == <<x>>
<1>1. Append(s, x) \in Seq(S) /\ Append(s, x) = s \o one /\ one \in Seq(S)
  OBVIOUS
<1>2. ToSet(one) = {x}
  BY DEF ToSet
<1> HIDE DEF one
<1>3. ToSet(s \o one) = ToSet(s) \cup ToSet(one)
  <2>1. one \in Seq(S)
    BY <1>1
  <2> QED
    BY <2>1, Concatenated
<1> QED
  BY <1>1, <1>2, <1>3 DEF one

LEMMA AppendedElements ==
    ASSUME NEW S, NEW s \in Seq(S), NEW x \in S
    PROVE  Append(s, x) \in Seq(S) /\ ToSet(Append(s, x)) = ToSet(s) \cup {x}
<1> DEFINE n == Len(s)
           r == Append(s, x)
<1>1. r \in Seq(S)
  OBVIOUS
<1>2. /\ n \in Nat /\ DOMAIN s = 1 .. n /\ DOMAIN r = 1 .. n + 1
      /\ r[n + 1] = x /\ \A i \in 1 .. n : r[i] = s[i]
  OBVIOUS
<1> HIDE DEF r, n
<1>3. \A i \in DOMAIN r : r[i] \in ToSet(s) \cup {x}
  BY <1>2 DEF ToSet
<1>4. \A i \in DOMAIN s : s[i] \in ToSet(r)
  BY <1>2 DEF ToSet
<1>5. x \in ToSet(r)
  BY <1>2 DEF ToSet
<1>6. ToSet(r) = ToSet(s) \cup {x}
  BY <1>3, <1>4, <1>5 DEF ToSet
<1> QED
  BY <1>1, <1>6 DEF r

LEMMA Rotated ==
    ASSUME NEW S, NEW s \in Seq(S), s # << >>
    PROVE  /\ Append(Tail(s), Head(s)) \in Seq(S)
           /\ ToSet(Append(Tail(s), Head(s))) = ToSet(s)
<1> DEFINE r == Tail(s)
           x == Head(s)
<1>2. r \in Seq(S) /\ x \in S /\ ToSet(s) = ToSet(r) \cup {x}
  BY HeadAndTail
<1> HIDE DEF r, x
<1>3. Append(r, x) \in Seq(S) /\ ToSet(Append(r, x)) = ToSet(r) \cup {x}
  BY <1>2, AppendedElements
<1> QED
  BY <1>2, <1>3 DEF r, x

LEMMA Elements ==
    ASSUME NEW S, NEW s \in Seq(S)
    PROVE  ToSet(s) \subseteq S /\ (s = << >> <=> ToSet(s) = {})
BY DEF ToSet

-----------------------------------------------------------------------------
(***************************************************************************)
(* The loops of the tasks.                                                 *)
(***************************************************************************)
LEMMA ChannelFacts ==
    /\ "send" \notin Channel /\ "kernel" \notin Task
    /\ \A c \in Channel : Reader[c] \in Task /\ Writer[c] \in Task \cup {"kernel"}
    /\ \A c \in Channel : Reader[c] # Writer[c]
    /\ Kernel \subseteq Channel /\ \A c \in Kernel : Writer[c] = "kernel"
BY DEF Channel, Task, Reader, Writer, Kernel

\* Every channel is read in one loop of its reader, and what is written, in
\* the last one.
LEMMA LoopFacts ==
    ASSUME NEW t \in Task
    PROVE  /\ Len(Loops[t]) \in Nat \ {0}
           /\ \A c \in Channel : Reader[c] = t => \E i \in 1 .. Len(Loops[t]) : Loops[t][i] = c
           /\ \A i \in 1 .. Len(Loops[t]) :
                 /\ Loops[t][i] \in Channel => Reader[Loops[t][i]] = t
                 /\ Loops[t][i] = "send" <=> Loops[t][i] \notin Channel
                 /\ Loops[t][i] = "send" => i = Len(Loops[t])
                 /\ \A j \in 1 .. Len(Loops[t]) : Loops[t][i] = Loops[t][j] => i = j
           /\ Loops[t][Len(Loops[t])] = "send" <=> t \in {"device", "socket"}
<1> USE DEF Loops, Channel, Reader
<1>1. CASE t = "device"
  <2>1. Loops[t] = <<"deviceRx", "tun", "send">>
    BY <1>1
  <2> QED
    BY <1>1, <2>1
<1>2. CASE t = "network"
  <2>1. Loops[t] = <<"networkRouter", "networkSocket", "networkDevice">>
    BY <1>2
  <2> QED
    BY <1>2, <2>1
<1>3. CASE t = "router"
  <2>1. Loops[t] = <<"routerRx">>
    BY <1>3
  <2> QED
    BY <1>3, <2>1
<1>4. CASE t = "socket"
  <2>1. Loops[t] = <<"v4", "v6", "socketRx", "send">>
    BY <1>4
  <2> QED
    BY <1>4, <2>1
<1> QED
  BY <1>1, <1>2, <1>3, <1>4 DEF Task

-----------------------------------------------------------------------------
(***************************************************************************)
(* The invariant behind NoLostWakeup: a task that will not look is         *)
(* registered, and what it is registered for has nothing and is open.      *)
(***************************************************************************)
Polled == \A t \in Task : loop[t] > 0 => t \in spawned

RegisteredIdle == \A c \in asked : chan[c] = << >> /\ Alive(Writer[c])

Watched == \A c \in Channel : Alive(Reader[c]) => WillLook(Reader[c], c) \/ c \in asked

\* What task t may write.
ToKernel(t) == {m \in Message : m.via \in Kernel /\ Reader[m.via] = t}

KeptToWrite == \A t \in Task : kept[t] \in Seq(ToKernel(t))

WakeInv == TypeOK /\ Polled /\ RegisteredIdle /\ Watched /\ NoneUnwritten /\ KeptToWrite

LEMMA WatchedIsEnough == WakeInv => NoLostWakeup
BY DEF WakeInv, RegisteredIdle, Watched, NoLostWakeup, NoneUnread

\* Two of the tasks write.
LEMMA Writers ==
    ASSUME KeptToWrite, NEW t \in Task, kept[t] # << >>
    PROVE  t \in {"device", "socket"}
<1>1. kept[t] \in Seq(ToKernel(t)) /\ Head(kept[t]) \in ToKernel(t)
  BY HeadAndTail DEF KeptToWrite
<1> QED
  BY <1>1 DEF ToKernel, Kernel, Reader

\* Only a task that is polled is at a loop.
LEMMA AtALoop ==
    ASSUME TypeOK, Polled, NEW t \in Task, NEW l, At(t, l)
    PROVE  /\ t \in spawned /\ t \notin dead
           /\ loop[t] \in 1 .. Len(Loops[t]) /\ Loops[t][loop[t]] = l
           /\ WillLook(t, l)
           /\ t \in {"device", "socket"} => WillLook(t, "send")
<1>1. /\ t \in spawned /\ t \notin dead
      /\ loop[t] \in 1 .. Len(Loops[t]) /\ Loops[t][loop[t]] = l
  BY LoopFacts DEF TypeOK, Polled, At, Alive
<1>2. WillLook(t, l)
  BY <1>1 DEF WillLook
<1>3. ASSUME t \in {"device", "socket"} PROVE WillLook(t, "send")
  <2>1. Loops[t][Len(Loops[t])] = "send" /\ Len(Loops[t]) \in loop[t] .. Len(Loops[t])
    BY <1>1, <1>3, LoopFacts
  <2> QED
    BY <1>1, <2>1 DEF WillLook
<1> QED
  BY <1>1, <1>2, <1>3

\* The end of a task, which may have sent something before: whoever waits for it
\* is woken.
LEMMA WakeFall ==
    ASSUME WakeInv, NEW t \in Task, t \in spawned, NEW left \in [Channel -> Seq(Message)],
           \A c \in Channel : left[c] # chan[c] => Writer[c] = t,
           Fall(t, left)
    PROVE  WakeInv'
<1> USE DEF WakeInv, TypeOK, Fall, Alive
<1>1. TypeOK'
  <2>1. chan' \in [Channel -> Seq(Message)] /\ kept' \in [Task -> Seq(Message)]
    OBVIOUS
  <2>2. loop' \in [Task -> Nat] /\ \A u \in Task : loop'[u] <= Len(Loops[u])
    BY LoopFacts
  <2>3. woken' \subseteq Task /\ asked' \subseteq Channel
    BY ChannelFacts
  <2> QED
    BY <2>1, <2>2, <2>3
<1>2. Polled'
  BY DEF Polled
<1>3. RegisteredIdle'
  BY DEF RegisteredIdle
<1>4. Watched'
  <2> SUFFICES ASSUME NEW c \in Channel, Reader[c] \notin dead'
               PROVE  WillLook(Reader[c], c)' \/ c \in asked'
    BY DEF Watched
  <2>1. Reader[c] # t /\ Reader[c] \in Task /\ Reader[c] \notin dead
    BY ChannelFacts
  <2>2. CASE c \in asked
    BY <2>1, <2>2 DEF WillLook
  <2>3. CASE WillLook(Reader[c], c)
    BY <2>1, <2>3 DEF WillLook
  <2> QED
    BY <2>1, <2>2, <2>3 DEF Watched
<1>5. NoneUnwritten'
  <2> SUFFICES ASSUME NEW u \in Task \ dead', kept'[u] # << >>
               PROVE  WillLook(u, "send")' \/ \E i \in DOMAIN kept'[u] :
                                                  kept'[u][i].via \in wants' \ room'
    BY DEF NoneUnwritten
  <2>1. u # t /\ u \notin dead /\ kept'[u] = kept[u] /\ wants' = wants /\ room' = room
    OBVIOUS
  <2>2. WillLook(u, "send") => WillLook(u, "send")'
    BY <2>1 DEF WillLook
  <2> QED
    BY <2>1, <2>2 DEF NoneUnwritten
<1>6. KeptToWrite'
  BY DEF KeptToWrite, ToKernel
<1> QED
  BY <1>1, <1>2, <1>3, <1>4, <1>5, <1>6

\* Task t, at the loop over c, has sent ms to d.
Passed(t, c, d, ms) ==
    /\ At(t, c)
    /\ chan[c] # << >>
    /\ chan' = [chan EXCEPT ![c] = Tail(@), ![d] = @ \o ms]
    /\ woken' = woken \cup Wakes(d, ms)
    /\ asked' = Unasked(d, ms)
    /\ UNCHANGED <<spawned, loop, dead, kept, room, wants, out, inputs, clogs>>

LEMMA WakePassed ==
    ASSUME WakeInv, NEW c \in Channel, NEW d \in Channel, c # d, NEW ms \in Seq(Message),
           Passed(Reader[c], c, d, ms)
    PROVE  WakeInv'
<1> DEFINE t == Reader[c]
<1> USE DEF WakeInv
<1>1. /\ chan[c] # << >> /\ chan[c] \in Seq(Message) /\ chan[d] \in Seq(Message)
      /\ chan' = [chan EXCEPT ![c] = Tail(@), ![d] = @ \o ms]
      /\ chan' = [x \in Channel |-> IF x = d THEN chan[d] \o ms
                                    ELSE IF x = c THEN Tail(chan[c]) ELSE chan[x]]
      /\ t \in Task /\ Reader[d] \in Task
  BY ChannelFacts DEF Passed, TypeOK
<1>2. Tail(chan[c]) \in Seq(Message) /\ chan[d] \o ms \in Seq(Message)
  BY <1>1, HeadAndTail, Concatenated
<1>3. TypeOK'
  BY <1>1, <1>2 DEF TypeOK, Passed, Wakes, Unasked
<1>4. Polled'
  BY DEF Polled, Passed
<1>5. RegisteredIdle'
  <2> SUFFICES ASSUME NEW x \in asked'
               PROVE  chan'[x] = << >> /\ Alive(Writer[x])'
    BY DEF RegisteredIdle
  <2>1. x \in asked /\ (x = d => ms = << >>)
    BY DEF Passed, Unasked
  <2>2. chan[x] = << >> /\ Alive(Writer[x]) /\ x # c /\ x \in Channel
    BY <2>1, <1>1 DEF RegisteredIdle, TypeOK
  <2>3. chan'[x] = << >>
    BY <1>1, <2>1, <2>2
  <2> QED
    BY <2>2, <2>3 DEF Passed, Alive
<1>6. Watched'
  <2> SUFFICES ASSUME NEW x \in Channel, Alive(Reader[x])'
               PROVE  WillLook(Reader[x], x)' \/ x \in asked'
    BY DEF Watched
  <2>1. Alive(Reader[x])
    BY DEF Passed, Alive
  <2>2. WillLook(Reader[x], x) => WillLook(Reader[x], x)'
    BY DEF Passed, WillLook
  <2>3. CASE x \in asked /\ x \notin asked'
    BY <2>3 DEF Passed, Unasked, Wakes, WillLook
  <2> QED
    BY <2>1, <2>2, <2>3 DEF Watched
<1>7. NoneUnwritten'
  BY DEF NoneUnwritten, Passed, WillLook
<1>8. KeptToWrite'
  BY DEF KeptToWrite, Passed
<1> QED
  BY <1>3, <1>4, <1>5, <1>6, <1>7, <1>8

\* The task of channel c takes a message that ends in the node.
Dropped(c) ==
    /\ At(Reader[c], c)
    /\ chan[c] # << >>
    /\ chan' = [chan EXCEPT ![c] = Tail(@)]
    /\ out' = out \cup {Head(chan[c])}
    /\ UNCHANGED <<spawned, asked, loop, dead, woken, kept, room, wants, inputs, clogs>>

LEMMA WakeDropped ==
    ASSUME WakeInv, NEW c \in Channel, Dropped(c)
    PROVE  WakeInv'
<1> USE DEF WakeInv
<1>1. chan[c] \in Seq(Message) /\ Head(chan[c]) \in Message /\ Tail(chan[c]) \in Seq(Message)
  BY HeadAndTail DEF TypeOK, Dropped
<1>2. TypeOK'
  BY <1>1 DEF TypeOK, Dropped
<1>3. Polled' /\ RegisteredIdle'
  BY DEF Polled, RegisteredIdle, Dropped, TypeOK, Alive
<1>4. Watched' /\ NoneUnwritten' /\ KeptToWrite'
  BY DEF Watched, NoneUnwritten, KeptToWrite, Dropped, WillLook, Alive
<1> QED
  BY <1>2, <1>3, <1>4

LEMMA WakeKept ==
    ASSUME WakeInv, NEW c \in Channel, Collect(Reader[c], c),
           chan[c] \in Seq(ToKernel(Reader[c])), Reader[c] \in {"device", "socket"}
    PROVE  WakeInv'
<1> DEFINE t == Reader[c]
<1> USE DEF WakeInv
<1>1. chan[c] \in Seq(Message) /\ Head(chan[c]) \in Message /\ Tail(chan[c]) \in Seq(Message)
  BY HeadAndTail DEF TypeOK, Collect, Keep
<1>2. Append(kept[t], Head(chan[c])) \in Seq(Message) /\ t \in Task
  BY <1>1, Appended, ChannelFacts DEF TypeOK
<1>3. TypeOK'
  BY <1>1, <1>2 DEF TypeOK, Collect, Keep
<1>4. Polled' /\ RegisteredIdle'
  BY DEF Polled, RegisteredIdle, Collect, Keep, TypeOK, Alive
<1>5. Watched'
  BY DEF Watched, Collect, Keep, WillLook, Alive
<1>6. NoneUnwritten'
  <2>1. WillLook(t, "send") /\ WillLook(t, "send")'
    BY <1>2, AtALoop DEF Collect, Keep, WillLook
  <2> QED
    BY <2>1 DEF NoneUnwritten, Collect, Keep, WillLook, TypeOK
<1>7. KeptToWrite'
  <2>1. Head(chan[c]) \in ToKernel(t) /\ kept[t] \in Seq(ToKernel(t))
    BY <1>2, HeadAndTail DEF Collect, Keep, KeptToWrite
  <2>2. Append(kept[t], Head(chan[c])) \in Seq(ToKernel(t))
    BY <2>1, Appended
  <2> QED
    BY <2>2 DEF KeptToWrite, Collect, Keep, TypeOK
<1> QED
  BY <1>3, <1>4, <1>5, <1>6, <1>7

\* Task t registers with its empty channel and goes on.
LEMMA WakeExhausted ==
    ASSUME WakeInv, NEW c \in Channel, Exhausted(Reader[c], c), Alive(Writer[c])
    PROVE  WakeInv'
<1> DEFINE t == Reader[c]
           k == loop[t]
<1> USE DEF WakeInv
<1>1. /\ t \in Task /\ t \in spawned /\ k \in 1 .. Len(Loops[t]) /\ Loops[t][k] = c
      /\ t \in {"device", "socket"} => Loops[t][Len(Loops[t])] = "send" /\ c # "send"
  BY ChannelFacts, AtALoop, LoopFacts DEF Exhausted
<1>2. /\ chan[c] = << >> /\ asked' = asked \cup {c}
      /\ loop' = [loop EXCEPT ![t] = IF k < Len(Loops[t]) THEN k + 1 ELSE 0]
      /\ UNCHANGED <<spawned, chan, dead, woken, kept, room, wants, out, inputs, clogs>>
  BY DEF Exhausted, NextLoop
<1>3. Len(Loops[t]) \in Nat /\ loop[t] \in Nat
  BY <1>1, LoopFacts DEF TypeOK
<1>4. TypeOK'
  BY <1>1, <1>2, <1>3 DEF TypeOK
<1>5. Polled' /\ RegisteredIdle'
  BY <1>1, <1>2 DEF Polled, RegisteredIdle, Alive, TypeOK
<1>6. ASSUME NEW u \in Task, NEW l, l # c, WillLook(u, l)
      PROVE  WillLook(u, l)'
  <2>1. CASE u # t \/ u \in woken
    BY <1>2, <1>6, <2>1 DEF WillLook, TypeOK
  <2>2. CASE u = t /\ u \notin woken
    <3>1. PICK i \in k .. Len(Loops[t]) : Loops[t][i] = l
      BY <1>1, <1>6, <2>2 DEF WillLook
    <3>2. i # k
      BY <1>1, <1>6, <3>1
    <3>3. k < Len(Loops[t]) /\ i \in k + 1 .. Len(Loops[t])
      BY <1>3, <3>1, <3>2
    <3>4. loop'[t] = k + 1
      BY <1>1, <1>2, <3>3 DEF TypeOK
    <3> QED
      BY <1>3, <2>2, <3>1, <3>3, <3>4 DEF WillLook
  <2> QED
    BY <2>1, <2>2
<1>7. Watched'
  BY <1>2, <1>6, ChannelFacts DEF Watched, Alive
<1>8. NoneUnwritten'
  BY <1>2, <1>6, ChannelFacts DEF NoneUnwritten
<1>9. KeptToWrite'
  BY <1>2 DEF KeptToWrite
<1> QED
  BY <1>4, <1>5, <1>7, <1>8, <1>9

LEMMA WakeBegin ==
    ASSUME WakeInv, NEW t \in Task, BeginPoll(t)
    PROVE  WakeInv'
<1> USE DEF WakeInv
<1>1. Len(Loops[t]) \in Nat \ {0} /\ loop' = [loop EXCEPT ![t] = 1]
  BY LoopFacts DEF BeginPoll
<1>2. TypeOK'
  BY <1>1 DEF TypeOK, BeginPoll
<1>3. Polled' /\ RegisteredIdle'
  BY DEF Polled, RegisteredIdle, BeginPoll, TypeOK, Alive
<1>4. ASSUME NEW u \in Task, u # t, NEW l, WillLook(u, l)
      PROVE  WillLook(u, l)'
  BY <1>4 DEF WillLook, BeginPoll, TypeOK
<1>5. ASSUME NEW i \in 1 .. Len(Loops[t])
      PROVE  WillLook(t, Loops[t][i])'
  <2>1. loop'[t] = 1
    BY DEF BeginPoll, TypeOK
  <2> QED
    BY <2>1 DEF WillLook
<1>6. Watched'
  <2> SUFFICES ASSUME NEW c \in Channel, Alive(Reader[c])
               PROVE  WillLook(Reader[c], c)' \/ c \in asked'
    BY DEF Watched, BeginPoll, Alive
  <2>1. CASE Reader[c] = t
    BY <2>1, <1>5, LoopFacts
  <2>2. CASE Reader[c] # t
    BY <2>2, <1>4, ChannelFacts DEF Watched, BeginPoll
  <2> QED
    BY <2>1, <2>2
<1>7. NoneUnwritten'
  <2> SUFFICES ASSUME NEW u \in Task \ dead, kept[u] # << >>
               PROVE  WillLook(u, "send")' \/ \E i \in DOMAIN kept[u] :
                                                  kept[u][i].via \in wants \ room
    BY DEF NoneUnwritten, BeginPoll
  <2>1. WillLook(u, "send") => WillLook(u, "send")'
    <3>1. CASE u = t
      <4>1. u \in {"device", "socket"}
        BY Writers
      <4> QED
        BY <1>1, <1>5, <3>1, <4>1, LoopFacts
    <3>2. CASE u # t
      BY <1>4, <3>2
    <3> QED
      BY <3>1, <3>2
  <2> QED
    BY <2>1 DEF NoneUnwritten
<1>8. KeptToWrite'
  BY DEF KeptToWrite, BeginPoll
<1> QED
  BY <1>2, <1>3, <1>6, <1>7, <1>8

LEMMA WakeSpawn ==
    ASSUME WakeInv, NEW t \in Task, Spawn(t)
    PROVE  WakeInv'
<1> USE DEF WakeInv
<1>1. TypeOK' /\ Polled' /\ RegisteredIdle' /\ KeptToWrite'
  BY DEF TypeOK, Polled, RegisteredIdle, KeptToWrite, Spawn, Alive
<1>2. ASSUME NEW u \in Task, NEW l, WillLook(u, l)
      PROVE  WillLook(u, l)'
  BY <1>2 DEF WillLook, Spawn
<1>3. Watched' /\ NoneUnwritten'
  BY <1>2, ChannelFacts DEF Watched, NoneUnwritten, Spawn, Alive
<1> QED
  BY <1>1, <1>3

\* Task t has written the first message of its list, or the kernel refused it.
TakenOff(t) ==
    /\ At(t, "send")
    /\ kept[t] # << >>
    /\ kept' = [kept EXCEPT ![t] = Tail(@)]
    /\ \E x \in SentOrRefused(Head(kept[t])) : out' = out \cup {x}
    /\ UNCHANGED <<spawned, chan, asked, loop, dead, woken, room, wants, inputs, clogs>>

LEMMA WritesTakeOff ==
    /\ \A t : WriteOne(t) => TakenOff(t)
    /\ WriteFails => TakenOff("socket")
BY DEF WriteOne, WriteFails, TakenOff, SentOrRefused

LEMMA RefusedFacts ==
    ASSUME NEW m \in Message
    PROVE  SentOrRefused(m) \subseteq Message
BY DEF SentOrRefused, Refused, Message

\* The last loop of task t: one write, one that is put off, or none.
LEMMA WakeWrites ==
    ASSUME WakeInv, NEW t \in {"device", "socket"},
           TakenOff(t) \/ WriteBlocked(t) \/ WroteAll(t)
    PROVE  WakeInv'
<1> USE DEF WakeInv
<1>1. /\ t \in Task /\ At(t, "send") /\ t \in spawned
      /\ loop[t] = Len(Loops[t]) /\ Loops[t][loop[t]] = "send" /\ loop[t] > 0
  <2>1. t \in Task /\ At(t, "send")
    BY DEF TakenOff, WriteBlocked, WroteAll, Task
  <2> QED
    BY <2>1, AtALoop, LoopFacts
<1>2. kept[t] \in Seq(Message) /\ kept[t] \in Seq(ToKernel(t))
  BY <1>1 DEF TypeOK, KeptToWrite
<1>3. ASSUME kept[t] # << >>
      PROVE  /\ Head(kept[t]) \in ToKernel(t) /\ Head(kept[t]) \in Message
             /\ Tail(kept[t]) \in Seq(ToKernel(t)) /\ Tail(kept[t]) \in Seq(Message)
             /\ Append(Tail(kept[t]), Head(kept[t])) \in Seq(ToKernel(t))
             /\ Append(Tail(kept[t]), Head(kept[t])) \in Seq(Message)
             /\ Head(kept[t]) \in ToSet(Append(Tail(kept[t]), Head(kept[t])))
  <2>1. /\ Head(kept[t]) \in ToKernel(t) /\ Tail(kept[t]) \in Seq(ToKernel(t))
    BY <1>2, <1>3, HeadAndTail
  <2>2. /\ Head(kept[t]) \in Message /\ Tail(kept[t]) \in Seq(Message)
    BY <1>2, <1>3, HeadAndTail
  <2>3. /\ Append(Tail(kept[t]), Head(kept[t])) \in Seq(Message)
        /\ Head(kept[t]) \in ToSet(Append(Tail(kept[t]), Head(kept[t])))
    BY <1>2, <1>3, HeadAndTail, Rotated
  <2>4. Append(Tail(kept[t]), Head(kept[t])) \in Seq(ToKernel(t))
    BY <1>2, <1>3, Rotated
  <2> QED
    BY <2>1, <2>2, <2>3, <2>4
<1>4. UNCHANGED <<chan, spawned, asked, dead, woken, room, inputs, clogs>>
  BY DEF TakenOff, WriteBlocked, WroteAll
<1>5. RegisteredIdle'
  BY <1>4 DEF RegisteredIdle, Alive
<1>6. ASSUME NEW u \in Task, NEW l, l # "send" \/ u # t, WillLook(u, l)
      PROVE  WillLook(u, l)'
  <2>1. CASE u # t
    BY <1>4, <1>6, <2>1 DEF WillLook, TypeOK, TakenOff, WriteBlocked, WroteAll
  <2>2. CASE u = t
    <3>1. l \notin {Loops[t][i] : i \in loop[t] .. Len(Loops[t])}
      BY <1>1, <1>6, <2>2, LoopFacts
    <3> QED
      BY <1>4, <1>6, <2>2, <3>1 DEF WillLook
  <2> QED
    BY <2>1, <2>2
<1>7. Watched'
  <2>1. \A c \in Channel : WillLook(Reader[c], c) => WillLook(Reader[c], c)'
    BY <1>6, ChannelFacts
  <2> QED
    BY <1>4, <2>1 DEF Watched, Alive
<1>8. ASSUME NEW u \in Task \ dead, u # t, kept[u] # << >>
      PROVE  WillLook(u, "send")' \/ \E i \in DOMAIN kept'[u] : kept'[u][i].via \in (wants \ room)'
  <2>1. kept'[u] = kept[u] /\ wants \subseteq wants'
    BY <1>8 DEF TakenOff, WriteBlocked, WroteAll, TypeOK
  <2> QED
    BY <1>4, <1>6, <1>8, <2>1 DEF NoneUnwritten
<1>9. CASE TakenOff(t)
  <2>1. TypeOK'
    <3>1. out' \subseteq Message
      BY <1>3, <1>9, RefusedFacts DEF TakenOff, TypeOK
    <3> QED
      BY <1>1, <1>2, <1>3, <1>9, <3>1 DEF TakenOff, TypeOK
  <2>2. Polled' /\ KeptToWrite'
    BY <1>1, <1>2, <1>3, <1>9 DEF TakenOff, TypeOK, Polled, KeptToWrite
  <2>3. WillLook(t, "send")'
    BY <1>1, <1>9, AtALoop DEF TakenOff, WillLook
  <2>4. NoneUnwritten'
    BY <1>4, <1>8, <2>3, <1>9 DEF NoneUnwritten, TakenOff, TypeOK
  <2> QED
    BY <1>5, <1>7, <2>1, <2>2, <2>4
<1>10. CASE WriteBlocked(t)
  <2>1. TypeOK'
    <3>1. Head(kept[t]).via \in Kernel
      BY <1>3, <1>10 DEF WriteBlocked, ToKernel
    <3> QED
      BY <1>1, <1>2, <1>3, <1>10, <3>1 DEF WriteBlocked, TypeOK
  <2>2. Polled' /\ KeptToWrite'
    BY <1>1, <1>2, <1>3, <1>10 DEF WriteBlocked, TypeOK, Polled, KeptToWrite
  <2>3. \E i \in DOMAIN kept'[t] : kept'[t][i].via \in (wants \ room)'
    <3>1. kept'[t] = Append(Tail(kept[t]), Head(kept[t]))
      BY <1>1, <1>10 DEF WriteBlocked, TypeOK
    <3>2. PICK i \in DOMAIN kept'[t] : kept'[t][i] = Head(kept[t])
      BY <1>3, <1>10, <3>1 DEF WriteBlocked, ToSet
    <3> QED
      BY <1>10, <3>2 DEF WriteBlocked
  <2>4. NoneUnwritten'
    BY <1>4, <1>8, <2>3, <1>10 DEF NoneUnwritten, WriteBlocked, TypeOK
  <2> QED
    BY <1>5, <1>7, <2>1, <2>2, <2>4
<1>11. CASE WroteAll(t)
  <2>1. TypeOK'
    <3>1. UNCHANGED <<kept, wants, out>> /\ loop' = [loop EXCEPT ![t] = 0]
      BY <1>11 DEF WroteAll
    <3>2. loop' \in [Task -> Nat] /\ \A u \in Task : loop'[u] <= Len(Loops[u])
      BY <1>1, <3>1, LoopFacts DEF TypeOK
    <3> QED
      BY <1>4, <3>1, <3>2 DEF TypeOK
  <2>2. Polled' /\ KeptToWrite'
    BY <1>1, <1>11 DEF WroteAll, TypeOK, Polled, KeptToWrite
  <2>3. NoneUnwritten'
    BY <1>4, <1>8, <1>11 DEF NoneUnwritten, WroteAll, TypeOK
  <2> QED
    BY <1>5, <1>7, <2>1, <2>2, <2>3
<1> QED
  BY <1>9, <1>10, <1>11

\* The kernel: an input, a queue that fills, and one that has room again.
LEMMA WakeArrive ==
    ASSUME WakeInv, NEW c \in Kernel, NEW kind \in MessageKinds, Arrive(c, kind)
    PROVE  WakeInv'
<1> USE DEF WakeInv
<1> DEFINE m == Msg(kind, Len(inputs) + 1)
<1>1. c \in Channel /\ chan[c] \in Seq(Message) /\ Reader[c] \in Task /\ <<m>> \in Seq(Message)
  <2>1. c \in Channel /\ chan[c] \in Seq(Message) /\ Reader[c] \in Task /\ Len(inputs) \in Nat
    BY ChannelFacts DEF TypeOK
  <2>2. m \in Message
    BY <2>1 DEF Msg, Message
  <2>3. ASSUME NEW x \in Message PROVE <<x>> \in Seq(Message)
    OBVIOUS
  <2> QED
    BY <2>1, <2>2, <2>3
<1>2. /\ chan' = [chan EXCEPT ![c] = @ \o <<m>>]
      /\ chan[c] \o <<m>> \in Seq(Message)
      /\ woken' = woken \cup (IF c \in asked THEN {Reader[c]} ELSE {})
      /\ asked' = asked \ {c}
  BY <1>1, Concatenated DEF Arrive, Wakes, Unasked
<1>3. UNCHANGED <<spawned, loop, dead, kept, room, wants, out, clogs>> /\ inputs' \in Seq(MessageKinds)
  BY DEF Arrive, TypeOK
<1>4. TypeOK'
  BY <1>1, <1>2, <1>3 DEF TypeOK
<1>5. Polled' /\ RegisteredIdle' /\ KeptToWrite'
  BY <1>1, <1>2, <1>3 DEF Polled, RegisteredIdle, KeptToWrite, Alive, TypeOK
<1>6. Watched' /\ NoneUnwritten'
  BY <1>2, <1>3 DEF Watched, NoneUnwritten, WillLook, Alive
<1> QED
  BY <1>4, <1>5, <1>6

LEMMA WakeClog ==
    ASSUME WakeInv, NEW s \in Kernel, Clog(s)
    PROVE  WakeInv'
<1> USE DEF WakeInv
<1>1. TypeOK' /\ Polled' /\ RegisteredIdle' /\ KeptToWrite'
  BY DEF TypeOK, Polled, RegisteredIdle, KeptToWrite, Clog, Alive
<1>2. Watched' /\ NoneUnwritten'
  BY DEF Watched, NoneUnwritten, WillLook, Clog, Alive
<1> QED
  BY <1>1, <1>2

LEMMA WakeUnclog ==
    ASSUME WakeInv, NEW s \in Kernel, Unclog(s)
    PROVE  WakeInv'
<1> USE DEF WakeInv
<1>1. TypeOK' /\ Polled' /\ RegisteredIdle' /\ KeptToWrite'
  BY ChannelFacts DEF TypeOK, Polled, RegisteredIdle, KeptToWrite, Unclog, Alive
<1>2. Watched'
  BY DEF Watched, WillLook, Unclog, Alive
<1>3. NoneUnwritten'
  <2> SUFFICES ASSUME NEW t \in Task \ dead, kept[t] # << >>
               PROVE  WillLook(t, "send")' \/ \E i \in DOMAIN kept[t] :
                                                  kept[t][i].via \in wants' \ room'
    BY DEF NoneUnwritten, Unclog
  <2>1. WillLook(t, "send") => WillLook(t, "send")'
    BY DEF WillLook, Unclog
  <2>2. ASSUME NEW i \in DOMAIN kept[t], kept[t][i].via = s, s \in wants
        PROVE  WillLook(t, "send")'
    <3>1. kept[t] \in Seq(ToKernel(t)) /\ kept[t][i] \in ToSet(kept[t])
      BY <2>2 DEF KeptToWrite, ToSet
    <3>2. Reader[s] = t
      BY <2>2, <3>1, Elements DEF ToKernel
    <3> QED
      BY <2>2, <3>2 DEF WillLook, Unclog
  <2>3. ASSUME NEW i \in DOMAIN kept[t], kept[t][i].via # s, kept[t][i].via \in wants \ room
        PROVE  kept[t][i].via \in wants' \ room'
    BY <2>3 DEF Unclog
  <2> QED
    BY <2>1, <2>2, <2>3 DEF NoneUnwritten
<1> QED
  BY <1>1, <1>2, <1>3

-----------------------------------------------------------------------------
(***************************************************************************)
(* The invariant behind OnlyFatalKills: which messages a channel carries,  *)
(* and that those a task ends of stem from an input that is fatal.         *)
(***************************************************************************)
Plain(kinds) == {m \in Message : m.kind \in kinds /\ m.nr = 0 /\ m.via = "none"}

Outgoing(kinds, vias) == {m \in Message : m.kind \in kinds /\ m.via \in vias}

ToSend == Outgoing({"PackageShareWrite", "AddNodeWrite"}, {"v4", "v6"})

ToWrite == Outgoing({"InterfaceWrite"}, {"tun"})

Pong == Outgoing({"PingPongWrite"}, {"v4"})

Carries == [
    v4 |-> Plain(ReadKinds \cup {"Error"}), v6 |-> Plain(ReadKinds \cup {"Error"}),
    tun |-> Plain({"Package"}),
    networkSocket |-> Plain(ReadKinds), networkDevice |-> Plain({"Package"}),
    routerRx |-> Plain(ReadKinds \cup {"InterfaceRead"}) \cup Pong,
    networkRouter |-> Plain({"DoNoting"}) \cup ToSend \cup ToWrite \cup Pong,
    deviceRx |-> ToWrite, socketRx |-> ToSend]

FatalSeen == \E i \in DOMAIN inputs : inputs[i] \in Fatal

Carried(c) == {m \in Carries[c] : m.kind \in Fatal \cup {"PingPongWrite"} => FatalSeen}

ChannelsCarry == \A c \in Channel : chan[c] \in Seq(Carried(c))

TasksInv == WakeInv /\ ChannelsCarry /\ OnlyFatalKills

LEMMA MessageFields ==
    ASSUME NEW kind \in MessageKinds, NEW id \in Int
    PROVE  /\ Msg(kind, id) \in Message
           /\ Msg(kind, id).kind = kind /\ Msg(kind, id).id = id
           /\ Msg(kind, id).nr = 0 /\ Msg(kind, id).via = "none"
BY DEF Msg, Message

LEMMA WriteFields ==
    ASSUME NEW kind \in MessageKinds, NEW id \in Int, NEW nr \in Nat, NEW via \in Kernel
    PROVE  /\ Write(kind, id, nr, via) \in Message
           /\ Write(kind, id, nr, via).kind = kind /\ Write(kind, id, nr, via).id = id
           /\ Write(kind, id, nr, via).via = via
BY DEF Write, Message

\* What the network hands the router, and the router the network.
LEMMA OfTheRouter ==
    ASSUME NEW m \in Message
    PROVE  /\ m \in Carried("routerRx") <=>
                 \/ /\ m.kind \in ReadKinds \cup {"InterfaceRead"} /\ m.nr = 0 /\ m.via = "none"
                    /\ m.kind \in Fatal => FatalSeen
                 \/ m.kind = "PingPongWrite" /\ m.via = "v4" /\ FatalSeen
           /\ m \in Carried("networkRouter") <=>
                 \/ m.kind = "DoNoting" /\ m.nr = 0 /\ m.via = "none"
                 \/ m.kind \in {"PackageShareWrite", "AddNodeWrite"} /\ m.via \in {"v4", "v6"}
                 \/ m.kind = "InterfaceWrite" /\ m.via = "tun"
                 \/ m.kind = "PingPongWrite" /\ m.via = "v4" /\ FatalSeen
<1>1. /\ Carries["routerRx"] = Plain(ReadKinds \cup {"InterfaceRead"}) \cup Pong
      /\ Carries["networkRouter"] = Plain({"DoNoting"}) \cup ToSend \cup ToWrite \cup Pong
  BY DEF Carries
<1>2. /\ m \in Plain(ReadKinds \cup {"InterfaceRead"})
             <=> m.kind \in ReadKinds \cup {"InterfaceRead"} /\ m.nr = 0 /\ m.via = "none"
      /\ m \in Plain({"DoNoting"}) <=> m.kind = "DoNoting" /\ m.nr = 0 /\ m.via = "none"
      /\ m \in ToSend <=> m.kind \in {"PackageShareWrite", "AddNodeWrite"} /\ m.via \in {"v4", "v6"}
      /\ m \in ToWrite <=> m.kind = "InterfaceWrite" /\ m.via = "tun"
      /\ m \in Pong <=> m.kind = "PingPongWrite" /\ m.via = "v4"
  BY DEF Plain, ToSend, ToWrite, Pong, Outgoing
<1> QED
  BY <1>1, <1>2 DEF Carried, ReadKinds, Fatal, Malformed

LEMMA CarriesMessages ==
    \A c \in Channel : Carries[c] \subseteq Message
BY DEF Channel, Reader, Carries, Plain, ToSend, ToWrite, Pong, Outgoing

LEMMA FatalStaysSeen ==
    ASSUME TypeOK, UNCHANGED inputs \/ \E kind \in MessageKinds : inputs' = Append(inputs, kind)
    PROVE  FatalSeen => FatalSeen'
<1>1. CASE UNCHANGED inputs
  BY <1>1 DEF FatalSeen
<1>2. ASSUME NEW kind \in MessageKinds, inputs' = Append(inputs, kind), FatalSeen
      PROVE  FatalSeen'
  <2>1. PICK i \in DOMAIN inputs : inputs[i] \in Fatal
    BY <1>2 DEF FatalSeen
  <2>2. inputs \in Seq(MessageKinds)
    BY DEF TypeOK
  <2>3. i \in DOMAIN inputs' /\ inputs'[i] = inputs[i]
    BY <1>2, <2>1, <2>2
  <2> QED
    BY <2>1, <2>3 DEF FatalSeen
<1> QED
  BY <1>1, <1>2

LEMMA CarriedStays ==
    ASSUME FatalSeen => FatalSeen', NEW c, NEW s \in Seq(Carried(c))
    PROVE  s \in Seq(Carried(c)')
<1>1. Carried(c) \subseteq Carried(c)'
  BY DEF Carried
<1> QED
  BY <1>1

-----------------------------------------------------------------------------
(***************************************************************************)
(* Every step has one of a few effects.                                    *)
(***************************************************************************)
\* The router panics on a message, some of whose answers it has sent.
BrokenOff ==
    /\ chan["routerRx"] # << >> /\ Alive("network")
    /\ Head(chan["routerRx"]).kind \notin Unroutable
    /\ \E ms \in Routed(Head(chan["routerRx"])) :
           Fall("router", [chan EXCEPT !["networkRouter"] = @ \o ms])

\* A task ends, of a fatal input or of the interface, itself or in the end.
Ended ==
    /\ FatalSeen \/ "tun" \in Failing
    /\ \E t \in Task \ dead : t \in spawned /\ (Die(t) \/ (t = "router" /\ BrokenOff))

\* The router decides.
Answered ==
    \E ms \in Routed(Head(chan["routerRx"])) :
        /\ Head(chan["routerRx"]).kind \notin Unroutable
        /\ Passed("router", "routerRx", "networkRouter", ms)

\* The channels between which a task hands on what it takes.
Ways == {<<"v4", "networkSocket">>, <<"v6", "networkSocket">>, <<"tun", "networkDevice">>,
         <<"networkSocket", "routerRx">>, <<"networkDevice", "routerRx">>,
         <<"networkRouter", "deviceRx">>, <<"networkRouter", "socketRx">>,
         <<"networkRouter", "routerRx">>}

\* What becomes of message m on its way out of channel c.
HandedOn(c, m) == IF c = "networkDevice" THEN Msg("InterfaceRead", m.id) ELSE m

Handed ==
    \E w \in Ways :
        /\ Passed(Reader[w[1]], w[1], w[2], <<HandedOn(w[1], Head(chan[w[1]]))>>)
        /\ HandedOn(w[1], Head(chan[w[1]])) \in Carried(w[2])
        /\ w[1] = "networkRouter" => Head(chan[w[1]]).kind # "DoNoting"

\* A message ends: an error of a receive, or a decision that there is nothing to do.
Finished ==
    \/ \E c \in {"v4", "v6"} : Dropped(c) /\ Head(chan[c]).kind = "Error"
    \/ Dropped("networkRouter") /\ Head(chan["networkRouter"]).kind = "DoNoting"

Collected == Collect("device", "deviceRx") \/ Collect("socket", "socketRx")

\* No message moves, except within a list.
Waited ==
    \/ \E c \in Channel : Exhausted(Reader[c], c) /\ Alive(Writer[c])
    \/ \E t \in Task : BeginPoll(t) \/ Spawn(t)
    \/ \E t \in {"device", "socket"} : WriteBlocked(t) \/ WroteAll(t)
    \/ \E s \in Kernel : Clog(s) \/ Unclog(s)

Written == \E t \in {"device", "socket"} : TakenOff(t)

Arrived ==
    \E c \in Kernel, kind \in MessageKinds :
        Arrive(c, kind) /\ Msg(kind, Len(inputs) + 1) \in Carries[c]

Effect ==
    Ended \/ Answered \/ Handed \/ Finished \/ Collected \/ Waited \/ Written \/ Arrived

LEMMA FirstIsCarried ==
    ASSUME TasksInv, NEW c \in Channel, chan[c] # << >>
    PROVE  Head(chan[c]) \in Carried(c) /\ Head(chan[c]) \in Carries[c]
<1>1. chan[c] \in Seq(Carried(c))
  BY DEF TasksInv, ChannelsCarry
<1>2. Head(chan[c]) \in Carried(c)
  BY <1>1, HeadAndTail
<1> QED
  BY <1>2 DEF Carried

\* A Pass ends the task, after another one ended, or hands on.
LEMMA PassEffect ==
    ASSUME TasksInv, NEW c \in Channel, At(Reader[c], c), NEW d, NEW ms, Pass(Reader[c], c, d, ms)
    PROVE  Ended \/ Passed(Reader[c], c, d, ms)
<1>1. Reader[c] \in Task \ dead /\ Reader[c] \in spawned
  BY ChannelFacts, AtALoop DEF TasksInv, WakeInv
<1>2. CASE ms # << >> /\ ~Alive(Reader[d])
  <2>1. Die(Reader[c]) /\ dead # {}
    BY <1>2 DEF Pass, Alive
  <2> QED
    BY <1>1, <2>1 DEF Ended, TasksInv, OnlyFatalKills, FatalSeen
<1>3. CASE ~(ms # << >> /\ ~Alive(Reader[d]))
  BY <1>3 DEF Pass, Passed
<1> QED
  BY <1>2, <1>3

LEMMA FinishEffect ==
    ASSUME TasksInv, NEW t \in Task, Finish(t)
    PROVE  Ended \/ Waited
<1>1. PICK c \in Channel : Reader[c] = t /\ Exhausted(t, c)
  BY DEF Finish
<1>2. CASE Alive(Writer[c])
  BY <1>1, <1>2 DEF Waited
<1>3. CASE ~Alive(Writer[c])
  <2>1. Die(t) /\ dead # {} /\ At(t, c)
    BY <1>1, <1>3 DEF Exhausted, Alive
  <2>2. t \in spawned /\ t \notin dead
    BY <2>1, AtALoop DEF TasksInv, WakeInv
  <2> QED
    BY <2>1, <2>2 DEF Ended, TasksInv, OnlyFatalKills, FatalSeen
<1> QED
  BY <1>2, <1>3

LEMMA RouterEffect ==
    ASSUME TasksInv, RouterMessage
    PROVE  Ended \/ Answered
<1> DEFINE m == Head(chan["routerRx"])
<1>1. /\ "routerRx" \in Channel /\ Reader["routerRx"] = "router" /\ "router" \in Task
      /\ At("router", "routerRx") /\ chan["routerRx"] # << >>
  BY DEF Channel, Reader, Task, RouterMessage
<1>2. m \in Carried("routerRx") /\ "router" \in spawned /\ "router" \notin dead
  BY <1>1, FirstIsCarried, AtALoop DEF TasksInv, WakeInv
<1>3. CASE m.kind \in Unroutable
  <2>1. Die("router")
    BY <1>3 DEF RouterMessage
  <2>2. FatalSeen
    BY <1>2, <1>3 DEF Carried, Carries, Plain, Pong, Outgoing, Unroutable, ReadKinds, Malformed
  <2> QED
    BY <1>1, <1>2, <2>1, <2>2 DEF Ended
<1>4. CASE m.kind \notin Unroutable
  <2>1. PICK ms \in Routed(m) :
            IF m.kind \in Malformed THEN Fall("router", Answering(ms))
                                    ELSE Pass("router", "routerRx", "networkRouter", ms)
    BY <1>4 DEF RouterMessage
  <2>2. CASE m.kind \notin Malformed
    <3>1. Ended \/ Passed("router", "routerRx", "networkRouter", ms)
      BY <1>1, <2>1, <2>2, PassEffect
    <3> QED
      BY <1>4, <2>1, <3>1 DEF Answered
  <2>3. CASE m.kind \in Malformed
    <3>1. FatalSeen
      BY <1>2, <2>3 DEF Carried, Fatal
    <3>2. CASE Alive("network")
      <4>1. Fall("router", [chan EXCEPT !["networkRouter"] = @ \o ms])
        BY <2>1, <2>3, <3>2 DEF Answering
      <4> QED
        BY <1>1, <1>2, <1>4, <2>1, <3>1, <3>2, <4>1 DEF Ended, BrokenOff
    <3>3. CASE ~Alive("network")
      <4>1. Answering(ms) = chan
        BY <3>3 DEF Answering, TasksInv, WakeInv, TypeOK
      <4>2. Die("router")
        BY <2>1, <2>3, <4>1 DEF Die
      <4> QED
        BY <1>1, <1>2, <3>1, <4>2 DEF Ended
    <3> QED
      BY <3>2, <3>3
  <2> QED
    BY <2>2, <2>3
<1> QED
  BY <1>3, <1>4

\* A task hands on the first message of c.
LEMMA HandEffect ==
    ASSUME TasksInv, NEW w \in Ways,
           At(Reader[w[1]], w[1]), chan[w[1]] # << >>,
           HandedOn(w[1], Head(chan[w[1]])) \in Carried(w[2]),
           w[1] = "networkRouter" => Head(chan[w[1]]).kind # "DoNoting",
           Pass(Reader[w[1]], w[1], w[2], <<HandedOn(w[1], Head(chan[w[1]]))>>)
    PROVE  Ended \/ Handed
<1>1. w[1] \in Channel
  BY DEF Ways, Channel, Reader
<1>2. Ended \/ Passed(Reader[w[1]], w[1], w[2], <<HandedOn(w[1], Head(chan[w[1]]))>>)
  BY <1>1, PassEffect
<1> QED
  BY <1>2 DEF Handed

LEMMA NetworkEffect ==
    ASSUME TasksInv, NetworkStep
    PROVE  Effect
<1> USE DEF Effect
<1>1. CASE BeginPoll("network")
  BY <1>1 DEF Waited, Task
<1>2. CASE FromRouter
  <2> DEFINE m == Head(chan["networkRouter"])
             w == <<"networkRouter", Outlet(m)>>
  <2>1. /\ "networkRouter" \in Channel /\ Reader["networkRouter"] = "network"
        /\ At("network", "networkRouter") /\ chan["networkRouter"] # << >>
    BY <1>2 DEF FromRouter, Channel, Reader
  <2>2. m \in Carried("networkRouter")
    BY <2>1, FirstIsCarried
  <2>3. CASE m.kind = "DoNoting"
    BY <1>2, <2>1, <2>3 DEF FromRouter, Finished, Dropped
  <2>4. CASE m.kind # "DoNoting"
    <3>1. w \in Ways /\ w[1] = "networkRouter" /\ w[2] = Outlet(m)
      BY DEF Ways, Outlet
    <3>2. m \in Carried(Outlet(m))
      BY <2>2, <2>4 DEF Carried, Carries, Plain, ToSend, ToWrite, Pong, Outgoing, Outlet
    <3>3. Pass("network", "networkRouter", Outlet(m), <<m>>) /\ HandedOn("networkRouter", m) = m
      BY <1>2, <2>4 DEF FromRouter, HandedOn
    <3> QED
      BY <2>1, <2>4, <3>1, <3>2, <3>3, HandEffect
  <2> QED
    BY <2>3, <2>4
<1>3. CASE FromSocket
  <2> DEFINE m == Head(chan["networkSocket"])
             w == <<"networkSocket", "routerRx">>
  <2>1. /\ "networkSocket" \in Channel /\ Reader["networkSocket"] = "network"
        /\ At("network", "networkSocket") /\ chan["networkSocket"] # << >>
        /\ w \in Ways /\ w[1] = "networkSocket" /\ w[2] = "routerRx"
    BY <1>3 DEF FromSocket, Channel, Reader, Ways
  <2>2. m \in Carried("networkSocket")
    BY <2>1, FirstIsCarried
  <2>3. m \in Carried("routerRx")
    BY <2>2 DEF Carried, Carries, Plain
  <2>4. Pass("network", "networkSocket", "routerRx", <<m>>) /\ HandedOn("networkSocket", m) = m
    BY <1>3 DEF FromSocket, HandedOn
  <2> QED
    BY <2>1, <2>3, <2>4, HandEffect
<1>4. CASE FromDevice
  <2> DEFINE m == Msg("InterfaceRead", Head(chan["networkDevice"]).id)
             w == <<"networkDevice", "routerRx">>
  <2>1. /\ "networkDevice" \in Channel /\ Reader["networkDevice"] = "network"
        /\ At("network", "networkDevice") /\ chan["networkDevice"] # << >>
        /\ w \in Ways /\ w[1] = "networkDevice" /\ w[2] = "routerRx"
    BY <1>4 DEF FromDevice, Channel, Reader, Ways
  <2>2. Head(chan["networkDevice"]).id \in Int
    BY <2>1, FirstIsCarried, CarriesMessages DEF Message
  <2>3. m \in Message /\ m.kind = "InterfaceRead" /\ m.nr = 0 /\ m.via = "none"
    <3>1. "InterfaceRead" \in MessageKinds
      BY DEF MessageKinds
    <3> QED
      BY <2>2, <3>1, MessageFields
  <2>4. m \in Carried("routerRx")
    BY <2>3, OfTheRouter DEF Fatal, Malformed
  <2>5. /\ Pass("network", "networkDevice", "routerRx", <<m>>)
        /\ HandedOn("networkDevice", Head(chan["networkDevice"])) = m
    BY <1>4 DEF FromDevice, HandedOn
  <2> QED
    BY <2>1, <2>4, <2>5, HandEffect
<1>5. CASE Finish("network")
  BY <1>5, FinishEffect DEF Task
<1> QED
  BY <1>1, <1>2, <1>3, <1>4, <1>5 DEF NetworkStep

LEMMA SocketEffect ==
    ASSUME TasksInv, SocketStep
    PROVE  Effect
<1> USE DEF Effect
<1>1. CASE BeginPoll("socket") \/ Finish("socket")
  BY <1>1, FinishEffect DEF Waited, Task
<1>2. ASSUME NEW c \in {"v4", "v6"}, Receive(c)
      PROVE  Ended \/ Handed
  <2> DEFINE m == Head(chan[c])
             w == <<c, "networkSocket">>
  <2>1. /\ c \in Channel /\ Reader[c] = "socket"
        /\ At("socket", c) /\ chan[c] # << >> /\ m.kind # "Error"
        /\ w \in Ways /\ w[1] = c /\ w[2] = "networkSocket"
    BY <1>2 DEF Receive, Channel, Reader, Ways
  <2>2. m \in Carried(c)
    BY <2>1, FirstIsCarried
  <2>3. m \in Carried("networkSocket")
    BY <2>1, <2>2 DEF Carried, Carries, Plain
  <2>4. Pass("socket", c, "networkSocket", <<m>>) /\ HandedOn(c, m) = m
    BY <1>2 DEF Receive, HandedOn
  <2> QED
    BY <2>1, <2>3, <2>4, HandEffect
<1>3. ASSUME NEW c \in {"v4", "v6"}, ReceiveError(c)
      PROVE  Finished
  <2>1. Reader[c] = "socket"
    BY DEF Reader
  <2> QED
    BY <1>3, <2>1 DEF ReceiveError, Finished, Dropped
<1>4. CASE Collect("socket", "socketRx")
  BY <1>4 DEF Collected
<1>5. CASE WriteOne("socket") \/ WriteFails \/ WriteBlocked("socket") \/ WroteAll("socket")
  BY <1>5, WritesTakeOff DEF Written, Waited
<1> QED
  BY <1>1, <1>2, <1>3, <1>4, <1>5 DEF SocketStep

LEMMA DeviceEffect ==
    ASSUME TasksInv, DeviceStep
    PROVE  Effect
<1> USE DEF Effect
<1>1. CASE BeginPoll("device") \/ Finish("device")
  BY <1>1, FinishEffect DEF Waited, Task
<1>2. CASE Collect("device", "deviceRx")
  BY <1>2 DEF Collected
<1>3. CASE ReadInterface
  <2> DEFINE m == Head(chan["tun"])
             w == <<"tun", "networkDevice">>
  <2>1. /\ "tun" \in Channel /\ Reader["tun"] = "device"
        /\ At("device", "tun") /\ chan["tun"] # << >>
        /\ w \in Ways /\ w[1] = "tun" /\ w[2] = "networkDevice"
    BY <1>3 DEF ReadInterface, Channel, Reader, Ways
  <2>2. m \in Carried("tun")
    BY <2>1, FirstIsCarried
  <2>3. m \in Carried("networkDevice")
    BY <2>2 DEF Carried, Carries, Plain
  <2>4. Pass("device", "tun", "networkDevice", <<m>>) /\ HandedOn("tun", m) = m
    BY <1>3 DEF ReadInterface, HandedOn
  <2> QED
    BY <2>1, <2>3, <2>4, HandEffect
<1>4. CASE WriteOne("device") \/ WriteBlocked("device") \/ WroteAll("device")
  BY <1>4, WritesTakeOff DEF Written, Waited
<1> QED
  BY <1>1, <1>2, <1>3, <1>4 DEF DeviceStep

LEMMA KernelEffect ==
    ASSUME TasksInv, Environment \/ \E s \in Kernel : Unclog(s)
    PROVE  Effect
<1> USE DEF Effect
<1>1. ASSUME NEW i \in UNION ToSet(Inputs), Arrive(i[1], i[2])
      PROVE  Arrived
  <2>1. Len(inputs) \in Nat
    BY DEF TasksInv, WakeInv, TypeOK
  <2>2. Len(inputs) + 1 \in 1 .. Len(Inputs) /\ <<i[1], i[2]>> \in Inputs[Len(inputs) + 1]
    BY <1>1, <2>1, TasksAssumption DEF Arrive
  <2>3. <<i[1], i[2]>> \in (({"v4", "v6"} \X (ReadKinds \cup {"Error"})) \cup {<<"tun", "Package">>})
    BY <2>2, TasksAssumption
  <2>4. /\ i[1] \in Kernel /\ i[2] \in MessageKinds
        /\ i[1] = "tun" => i[2] = "Package"
        /\ i[1] # "tun" => i[1] \in {"v4", "v6"} /\ i[2] \in ReadKinds \cup {"Error"}
    <3>1. ASSUME NEW a, NEW b,
                 <<a, b>> \in (({"v4", "v6"} \X (ReadKinds \cup {"Error"})) \cup {<<"tun", "Package">>})
          PROVE  /\ a \in Kernel /\ b \in MessageKinds
                 /\ a = "tun" => b = "Package"
                 /\ a # "tun" => a \in {"v4", "v6"} /\ b \in ReadKinds \cup {"Error"}
      <4>1. CASE <<a, b>> \in {"v4", "v6"} \X (ReadKinds \cup {"Error"})
        <5>1. a \in {"v4", "v6"} /\ b \in ReadKinds \cup {"Error"}
          BY <4>1
        <5> QED
          BY <5>1 DEF MessageKinds, Kernel
      <4>2. CASE <<a, b>> = <<"tun", "Package">>
        <5>1. a = "tun" /\ b = "Package"
          BY <4>2
        <5> QED
          BY <5>1 DEF MessageKinds, Kernel
      <4> QED
        BY <3>1, <4>1, <4>2
    <3> QED
      BY <2>3, <3>1
  <2> DEFINE m == Msg(i[2], Len(inputs) + 1)
  <2>5. m \in Message /\ m.kind = i[2] /\ m.nr = 0 /\ m.via = "none"
    BY <2>1, <2>4, MessageFields
  <2>6. m \in Carries[i[1]]
    BY <2>4, <2>5 DEF Carries, Plain
  <2> QED
    BY <1>1, <2>4, <2>6 DEF Arrived
<1>2. CASE InterfaceFails
  <2>1. /\ "device" \in Task /\ Die("device") /\ "tun" \in Failing
        /\ \E l \in {"tun", "send"} : At("device", l)
    BY <1>2 DEF InterfaceFails, Task
  <2>2. "device" \in spawned /\ "device" \notin dead
    BY <2>1, AtALoop DEF TasksInv, WakeInv
  <2> QED
    BY <2>1, <2>2 DEF Ended
<1>3. ASSUME NEW s \in Kernel, Clog(s) \/ Unclog(s)
      PROVE  Waited
  BY <1>3 DEF Waited
<1> QED
  BY <1>1, <1>2, <1>3 DEF Environment

\* Every step of the node has one of the effects.
LEMMA StepsHaveEffects == TasksInv /\ Next => Effect
<1> SUFFICES ASSUME TasksInv, Next PROVE Effect
  OBVIOUS
<1>1. CASE RouterStep
  BY <1>1, RouterEffect, FinishEffect DEF RouterStep, Effect, Waited, Task
<1>2. CASE \E t \in Task : Spawn(t)
  BY <1>2 DEF Effect, Waited
<1> QED
  BY <1>1, <1>2, DeviceEffect, NetworkEffect, SocketEffect, KernelEffect DEF Next

-----------------------------------------------------------------------------
(***************************************************************************)
(* The effects preserve the invariant.                                     *)
(***************************************************************************)
\* Channels that lose messages, or nothing but messages the channel carries.
LEMMA LessIsCarried ==
    ASSUME TasksInv, FatalSeen => FatalSeen', DOMAIN chan' = Channel,
           \A c \in Channel : \/ chan'[c] \in {chan[c], << >>}
                              \/ chan[c] # << >> /\ chan'[c] = Tail(chan[c])
    PROVE  ChannelsCarry'
<1> SUFFICES ASSUME NEW c \in Channel PROVE chan'[c] \in Seq(Carried(c)')
  BY DEF ChannelsCarry
<1>1. chan[c] \in Seq(Carried(c))
  BY DEF TasksInv, ChannelsCarry
<1>2. chan'[c] \in Seq(Carried(c))
  <2>1. CASE chan'[c] \in {chan[c], << >>}
    <3>1. << >> \in Seq(Carried(c))
      OBVIOUS
    <3> QED
      BY <1>1, <2>1, <3>1
  <2>2. CASE chan[c] # << >> /\ chan'[c] = Tail(chan[c])
    BY <1>1, <2>2, HeadAndTail
  <2> QED
    BY <2>1, <2>2
<1> QED
  BY <1>2, CarriedStays

LEMMA PassedIsCarried ==
    ASSUME TasksInv, NEW c \in Channel, NEW d \in Channel, c # d, NEW ms \in Seq(Carried(d)),
           Passed(Reader[c], c, d, ms)
    PROVE  ChannelsCarry'
<1> SUFFICES ASSUME NEW x \in Channel PROVE chan'[x] \in Seq(Carried(x)')
  BY DEF ChannelsCarry
<1>1. chan[x] \in Seq(Carried(x)) /\ chan[c] \in Seq(Carried(c)) /\ chan[d] \in Seq(Carried(d))
  BY DEF TasksInv, ChannelsCarry
<1>2. /\ chan[c] # << >>
      /\ chan'[x] = IF x = d THEN chan[d] \o ms ELSE IF x = c THEN Tail(chan[c]) ELSE chan[x]
      /\ inputs' = inputs
  BY DEF Passed, TasksInv, WakeInv, TypeOK
<1>3. Tail(chan[c]) \in Seq(Carried(c)) /\ chan[d] \o ms \in Seq(Carried(d))
  BY <1>1, <1>2, HeadAndTail, Concatenated
<1>4. chan'[x] \in Seq(Carried(x))
  BY <1>1, <1>2, <1>3
<1>5. FatalSeen => FatalSeen'
  BY <1>2 DEF FatalSeen
<1> QED
  BY <1>4, <1>5, CarriedStays

LEMMA WayFacts ==
    ASSUME NEW w \in Ways
    PROVE  w[1] \in Channel /\ w[2] \in Channel /\ w[1] # w[2]
BY DEF Ways, Channel, Reader

\* No task ends, and nothing is forgotten.
LEMMA StillOnlyFatal ==
    ASSUME TasksInv, UNCHANGED dead,
           UNCHANGED inputs \/ \E kind \in MessageKinds : inputs' = Append(inputs, kind)
    PROVE  OnlyFatalKills' /\ (FatalSeen => FatalSeen')
<1>1. FatalSeen => FatalSeen'
  BY FatalStaysSeen DEF TasksInv, WakeInv
<1> QED
  BY <1>1 DEF TasksInv, OnlyFatalKills, FatalSeen

LEMMA AnnouncedCarried ==
    ASSUME NEW id \in Int, NEW f \in Seq({"v4", "v6"})
    PROVE  Announced(id, f) \in Seq(Carried("networkRouter"))
<1>1. ASSUME NEW i \in DOMAIN f
      PROVE  Write("AddNodeWrite", id, i, f[i]) \in Carried("networkRouter")
  <2> DEFINE m == Write("AddNodeWrite", id, i, f[i])
  <2>1. i \in Nat /\ f[i] \in {"v4", "v6"} /\ f[i] \in Kernel
    BY DEF Kernel
  <2>2. m \in Message /\ m.kind = "AddNodeWrite" /\ m.via = f[i]
    <3>1. "AddNodeWrite" \in MessageKinds /\ 1 \in Nat
      BY DEF MessageKinds
    <3> QED
      BY <2>1, <3>1, WriteFields
  <2> HIDE DEF m
  <2>3. m \in Carried("networkRouter")
    BY <2>1, <2>2, OfTheRouter
  <2> QED
    BY <2>3 DEF m
<1>2. DOMAIN f = 1 .. Len(f) /\ Len(f) \in Nat
  OBVIOUS
<1> QED
  BY <1>1, <1>2 DEF Announced

LEMMA RoutedIsCarried ==
    ASSUME NEW m \in Carried("routerRx"), m.kind \notin Unroutable, NEW ms \in Routed(m)
    PROVE  ms \in Seq(Carried("networkRouter"))
<1> DEFINE C == Carried("networkRouter")
           note == Msg("DoNoting", m.id)
           share(via) == Write("PackageShareWrite", m.id, 1, via)
           packet == Write("InterfaceWrite", m.id, 1, "tun")
           pong == Write("PingPongWrite", m.id, 1, "v4")
<1>1. m \in Message /\ m.id \in Int
  BY CarriesMessages DEF Carried, Message, Channel, Reader
<1>2. /\ m.kind \in ReadKinds \cup {"InterfaceRead"}
      /\ m.kind \in Fatal => FatalSeen
  BY <1>1, OfTheRouter DEF Unroutable
<1>3. note \in C
  <2>1. note \in Message /\ note.kind = "DoNoting" /\ note.nr = 0 /\ note.via = "none"
    BY <1>1, MessageFields DEF MessageKinds, ReadKinds
  <2> QED
    BY <2>1, OfTheRouter
<1>4. ASSUME NEW via \in {"v4", "v6"}
      PROVE  share(via) \in C
  <2>1. via \in Kernel
    BY DEF Kernel
  <2>2. share(via) \in Message /\ share(via).kind = "PackageShareWrite" /\ share(via).via = via
    BY <1>1, <2>1, WriteFields DEF MessageKinds
  <2> QED
    BY <2>2, OfTheRouter
<1>5. packet \in C
  <2>1. packet \in Message /\ packet.kind = "InterfaceWrite" /\ packet.via = "tun"
    <3>1. "InterfaceWrite" \in MessageKinds /\ "tun" \in Kernel
      BY DEF MessageKinds, Kernel
    <3> QED
      BY <1>1, <3>1, WriteFields
  <2> QED
    BY <2>1, OfTheRouter
<1>6. ASSUME m.kind = "PingPongRead" PROVE pong \in C
  <2>1. pong \in Message /\ pong.kind = "PingPongWrite" /\ pong.via = "v4"
    <3>1. "PingPongWrite" \in MessageKinds /\ "v4" \in Kernel
      BY DEF MessageKinds, Kernel
    <3> QED
      BY <1>1, <3>1, WriteFields
  <2> QED
    BY <1>2, <1>6, <2>1, OfTheRouter DEF Fatal
<1>7. /\ << >> \in Seq(C)
      /\ \A x \in C : <<x>> \in Seq(C)
  OBVIOUS
<1>8. CASE m.kind \in {"PackageShareRead", "InterfaceRead"}
  <2>1. ms \in {<<share(via)>> : via \in {"v4", "v6"}} \cup {<<packet>>, <<note>>}
    BY <1>8 DEF Routed
  <2>2. CASE \E via \in {"v4", "v6"} : ms = <<share(via)>>
    BY <1>4, <1>7, <2>2
  <2>3. CASE ms = <<packet>> \/ ms = <<note>>
    BY <1>3, <1>5, <1>7, <2>3
  <2> QED
    BY <2>1, <2>2, <2>3
<1>9. CASE m.kind \in {"AddNodeRead", "BadNodeRead"}
  <2>1. PICK f \in Seq({"v4", "v6"}) : ms = Announced(m.id, f)
    <3>1. {<< >>, <<"v4">>, <<"v6">>} \subseteq Seq({"v4", "v6"})
      OBVIOUS
    <3> QED
      BY <1>9, <3>1, TasksAssumption DEF Routed
  <2> QED
    BY <1>1, <2>1, AnnouncedCarried
<1>10. CASE m.kind \in {"DelNodeRead", "DoNoting"}
  <2>1. ms = <<note>>
    BY <1>10 DEF Routed
  <2> QED
    BY <1>3, <1>7, <2>1
<1>11. CASE m.kind = "PingPongRead"
  <2>1. ms = <<pong>>
    BY <1>11 DEF Routed
  <2> QED
    BY <1>6, <1>7, <1>11, <2>1
<1>12. CASE m.kind = "BadPackageRead"
  <2>1. ms = << >>
    BY <1>12 DEF Routed
  <2> QED
    BY <1>7, <2>1
<1> QED
  BY <1>2, <1>8, <1>9, <1>10, <1>11, <1>12 DEF ReadKinds, Malformed

LEMMA CarriedMessages ==
    ASSUME NEW c \in Channel, NEW s \in Seq(Carried(c))
    PROVE  s \in Seq(Message)
<1>1. Carried(c) \subseteq Message
  BY CarriesMessages DEF Carried
<1> QED
  BY <1>1

LEMMA EndedInv ==
    ASSUME TasksInv, Ended
    PROVE  TasksInv'
<1>1. PICK t \in Task \ dead : t \in spawned /\ (Die(t) \/ (t = "router" /\ BrokenOff))
  BY DEF Ended
<1>2. OnlyFatalKills' /\ inputs' = inputs /\ (FatalSeen => FatalSeen')
  BY <1>1 DEF Ended, Die, BrokenOff, Fall, OnlyFatalKills, FatalSeen
<1>3. chan \in [Channel -> Seq(Message)]
  BY DEF TasksInv, WakeInv, TypeOK
<1>4. CASE Die(t)
  <2>1. WakeInv'
    BY <1>1, <1>3, <1>4, WakeFall DEF Die, TasksInv
  <2>2. chan' = [c \in Channel |-> IF Reader[c] = t THEN << >> ELSE chan[c]]
    BY <1>4 DEF Die, Fall
  <2>3. ChannelsCarry'
    BY <1>2, <2>2, LessIsCarried
  <2> QED
    BY <1>2, <2>1, <2>3 DEF TasksInv
<1>5. CASE t = "router" /\ BrokenOff
  <2>1. PICK ms \in Routed(Head(chan["routerRx"])) :
            Fall("router", [chan EXCEPT !["networkRouter"] = @ \o ms])
    BY <1>5 DEF BrokenOff
  <2> DEFINE left == [chan EXCEPT !["networkRouter"] = @ \o ms]
  <2>2. /\ "routerRx" \in Channel /\ "networkRouter" \in Channel
        /\ Writer["networkRouter"] = "router" /\ chan["routerRx"] # << >>
        /\ Head(chan["routerRx"]).kind \notin Unroutable
    BY <1>5 DEF Channel, Reader, Writer, BrokenOff
  <2>3. ms \in Seq(Carried("networkRouter"))
    BY <2>1, <2>2, FirstIsCarried, RoutedIsCarried
  <2>4. \A c \in Channel : chan[c] \in Seq(Carried(c)) /\ chan[c] \in Seq(Message)
    BY <1>3 DEF TasksInv, ChannelsCarry
  <2>5. chan["networkRouter"] \o ms \in Seq(Carried("networkRouter"))
    BY <2>2, <2>3, <2>4, Concatenated
  <2>6. /\ \A c \in Channel : left[c] \in Seq(Carried(c))
        /\ left \in [Channel -> Seq(Message)]
        /\ \A c \in Channel : left[c] # chan[c] => Writer[c] = "router"
    <3>1. chan["networkRouter"] \o ms \in Seq(Message)
      BY <2>2, <2>5, CarriedMessages
    <3>2. left = [c \in Channel |-> IF c = "networkRouter" THEN chan["networkRouter"] \o ms ELSE chan[c]]
      BY <1>3
    <3> HIDE DEF left
    <3> QED
      BY <2>2, <2>4, <2>5, <3>1, <3>2
  <2>7. WakeInv'
    <3>1. Fall("router", left) /\ "router" \in spawned /\ "router" \in Task
      BY <1>1, <1>5, <2>1 DEF Task
    <3> HIDE DEF left
    <3> QED
      BY <2>6, <3>1, WakeFall DEF TasksInv
  <2>8. ChannelsCarry'
    <3> SUFFICES ASSUME NEW c \in Channel PROVE chan'[c] \in Seq(Carried(c)')
      BY DEF ChannelsCarry
    <3>1. chan'[c] = IF Reader[c] = "router" THEN << >> ELSE left[c]
      BY <2>1 DEF Fall
    <3>2. << >> \in Seq(Carried(c))
      OBVIOUS
    <3>3. chan'[c] \in Seq(Carried(c))
      <4> HIDE DEF left
      <4> QED
        BY <2>6, <3>1, <3>2
    <3> QED
      BY <1>2, <3>3, CarriedStays
  <2> QED
    BY <1>2, <2>7, <2>8 DEF TasksInv
<1> QED
  BY <1>1, <1>4, <1>5

LEMMA AnsweredInv ==
    ASSUME TasksInv, Answered
    PROVE  TasksInv'
<1>1. PICK ms \in Routed(Head(chan["routerRx"])) :
          /\ Head(chan["routerRx"]).kind \notin Unroutable
          /\ Passed("router", "routerRx", "networkRouter", ms)
  BY DEF Answered
<1>2. /\ "routerRx" \in Channel /\ "networkRouter" \in Channel /\ Reader["routerRx"] = "router"
      /\ chan["routerRx"] # << >> /\ UNCHANGED <<dead, inputs>>
  BY <1>1 DEF Channel, Reader, Passed
<1>3. ms \in Seq(Carried("networkRouter"))
  BY <1>1, <1>2, FirstIsCarried, RoutedIsCarried
<1>4. ms \in Seq(Message)
  BY <1>2, <1>3, CarriedMessages
<1>5. WakeInv'
  BY <1>1, <1>2, <1>4, WakePassed DEF TasksInv
<1>6. ChannelsCarry'
  BY <1>1, <1>2, <1>3, PassedIsCarried
<1> QED
  BY <1>2, <1>5, <1>6, StillOnlyFatal DEF TasksInv

LEMMA HandedInv ==
    ASSUME TasksInv, Handed
    PROVE  TasksInv'
<1>1. PICK w \in Ways :
          /\ Passed(Reader[w[1]], w[1], w[2], <<HandedOn(w[1], Head(chan[w[1]]))>>)
          /\ HandedOn(w[1], Head(chan[w[1]])) \in Carried(w[2])
  BY DEF Handed
<1> DEFINE m == HandedOn(w[1], Head(chan[w[1]]))
<1>2. w[1] \in Channel /\ w[2] \in Channel /\ w[1] # w[2] /\ UNCHANGED <<dead, inputs>>
  BY <1>1, WayFacts DEF Passed
<1>3. <<m>> \in Seq(Carried(w[2]))
  <2>1. ASSUME NEW S, NEW x \in S PROVE <<x>> \in Seq(S)
    OBVIOUS
  <2> QED
    BY <1>1, <2>1
<1>4. <<m>> \in Seq(Message)
  BY <1>2, <1>3, CarriedMessages
<1>5. WakeInv'
  BY <1>1, <1>2, <1>4, WakePassed DEF TasksInv
<1>6. ChannelsCarry'
  BY <1>1, <1>2, <1>3, PassedIsCarried
<1> QED
  BY <1>2, <1>5, <1>6, StillOnlyFatal DEF TasksInv

LEMMA FinishedInv ==
    ASSUME TasksInv, Finished
    PROVE  TasksInv'
<1>1. PICK c \in Channel : Dropped(c)
  BY DEF Finished, Channel, Reader
<1>2. /\ UNCHANGED <<dead, inputs>> /\ chan[c] # << >>
      /\ chan' = [x \in Channel |-> IF x = c THEN Tail(chan[c]) ELSE chan[x]]
  BY <1>1 DEF Dropped, TasksInv, WakeInv, TypeOK
<1>3. WakeInv'
  BY <1>1, WakeDropped DEF TasksInv
<1>4. OnlyFatalKills' /\ (FatalSeen => FatalSeen')
  BY <1>2, StillOnlyFatal
<1>5. ChannelsCarry'
  BY <1>2, <1>4, LessIsCarried
<1> QED
  BY <1>3, <1>4, <1>5 DEF TasksInv

LEMMA CollectedInv ==
    ASSUME TasksInv, Collected
    PROVE  TasksInv'
<1>1. PICK c \in {"deviceRx", "socketRx"} : Collect(Reader[c], c)
  BY DEF Collected, Reader
<1>2. c \in Channel /\ Reader[c] \in {"device", "socket"}
  BY DEF Channel, Reader
<1>3. /\ UNCHANGED <<dead, inputs>> /\ chan[c] # << >>
      /\ chan' = [x \in Channel |-> IF x = c THEN Tail(chan[c]) ELSE chan[x]]
  BY <1>1 DEF Collect, Keep, TasksInv, WakeInv, TypeOK
<1>4. chan[c] \in Seq(ToKernel(Reader[c]))
  <2>1. Carried(c) \subseteq ToKernel(Reader[c])
    BY DEF Carried, Carries, ToSend, ToWrite, Outgoing, ToKernel, Kernel, Reader
  <2>2. chan[c] \in Seq(Carried(c))
    BY <1>2 DEF TasksInv, ChannelsCarry
  <2> QED
    BY <2>1, <2>2
<1>5. WakeInv'
  BY <1>1, <1>2, <1>4, WakeKept DEF TasksInv
<1>6. OnlyFatalKills' /\ (FatalSeen => FatalSeen')
  BY <1>3, StillOnlyFatal
<1>7. ChannelsCarry'
  BY <1>3, <1>6, LessIsCarried
<1> QED
  BY <1>5, <1>6, <1>7 DEF TasksInv

LEMMA WaitedInv ==
    ASSUME TasksInv, Waited \/ Written
    PROVE  TasksInv'
<1>1. WakeInv'
  BY WakeExhausted, WakeBegin, WakeSpawn, WakeWrites, WakeClog, WakeUnclog DEF TasksInv, Waited, Written
<1>2. UNCHANGED <<chan, dead, inputs>>
  BY DEF Waited, Written, Exhausted, BeginPoll, Spawn, TakenOff, WriteBlocked, WroteAll, Clog, Unclog
<1>3. OnlyFatalKills' /\ (FatalSeen => FatalSeen')
  BY <1>2, StillOnlyFatal
<1>4. DOMAIN chan' = Channel /\ \A c \in Channel : chan'[c] = chan[c]
  BY <1>2 DEF TasksInv, WakeInv, TypeOK
<1>5. ChannelsCarry'
  BY <1>3, <1>4, LessIsCarried
<1> QED
  BY <1>1, <1>3, <1>5 DEF TasksInv

LEMMA ArrivedInv ==
    ASSUME TasksInv, Arrived
    PROVE  TasksInv'
<1>1. PICK c \in Kernel, kind \in MessageKinds :
          Arrive(c, kind) /\ Msg(kind, Len(inputs) + 1) \in Carries[c]
  BY DEF Arrived
<1> DEFINE m == Msg(kind, Len(inputs) + 1)
<1>2. WakeInv'
  BY <1>1, WakeArrive DEF TasksInv
<1>3. /\ UNCHANGED dead /\ inputs' = Append(inputs, kind) /\ inputs \in Seq(MessageKinds)
      /\ chan' = [x \in Channel |-> IF x = c THEN chan[c] \o <<m>> ELSE chan[x]]
  BY <1>1 DEF Arrive, TasksInv, WakeInv, TypeOK
<1>4. OnlyFatalKills' /\ (FatalSeen => FatalSeen')
  BY <1>3, StillOnlyFatal
<1>5. kind \in Fatal => FatalSeen'
  BY <1>3 DEF FatalSeen
<1>6. m \in Carried(c)'
  <2>1. Len(inputs) + 1 \in Int
    BY <1>3
  <2>2. m.kind = kind /\ c \in {"v4", "v6", "tun"}
    BY <2>1, MessageFields DEF Kernel
  <2>3. kind # "PingPongWrite"
    BY <1>1, <2>2 DEF Carries, Plain, ReadKinds, Malformed
  <2> QED
    BY <1>1, <1>5, <2>2, <2>3 DEF Carried
<1>7. ChannelsCarry'
  <2> SUFFICES ASSUME NEW x \in Channel PROVE chan'[x] \in Seq(Carried(x)')
    BY DEF ChannelsCarry
  <2>1. chan[x] \in Seq(Carried(x)')
    BY <1>4, CarriedStays DEF TasksInv, ChannelsCarry
  <2>2. ASSUME x = c PROVE chan[c] \o <<m>> \in Seq(Carried(c)')
    <3>1. ASSUME NEW S, NEW y \in S PROVE <<y>> \in Seq(S)
      OBVIOUS
    <3>2. <<m>> \in Seq(Carried(c)')
      BY <1>6, <3>1
    <3>3. chan[c] \in Seq(Carried(c)')
      BY <2>1, <2>2
    <3> QED
      BY <3>2, <3>3, Concatenated
  <2> QED
    BY <1>3, <2>1, <2>2
<1> QED
  BY <1>2, <1>4, <1>7 DEF TasksInv

LEMMA NextInv == TasksInv /\ Next => TasksInv'
BY StepsHaveEffects, EndedInv, AnsweredInv, HandedInv, FinishedInv, CollectedInv, WaitedInv, ArrivedInv
   DEF Effect

LEMMA StutterInv == TasksInv /\ UNCHANGED vars => TasksInv'
<1> SUFFICES ASSUME TasksInv, UNCHANGED vars PROVE TasksInv'
  OBVIOUS
<1> USE DEF vars, TasksInv, WakeInv
<1>1. TypeOK' /\ Polled' /\ RegisteredIdle'
  BY DEF TypeOK, Polled, RegisteredIdle, Alive
<1>2. Watched' /\ NoneUnwritten'
  BY DEF Watched, NoneUnwritten, WillLook, Alive
<1>3. KeptToWrite'
  BY DEF KeptToWrite, ToKernel
<1>4. ChannelsCarry' /\ OnlyFatalKills'
  BY DEF ChannelsCarry, Carried, FatalSeen, OnlyFatalKills
<1> QED
  BY <1>1, <1>2, <1>3, <1>4

-----------------------------------------------------------------------------
(***************************************************************************)
(* The setup: nothing happens in it, and it ends on a given configuration. *)
(***************************************************************************)
LEMMA GreetingsCarried == Greetings \in Seq(Carried("socketRx"))
<1>1. ASSUME NEW i \in DOMAIN Hellos
      PROVE  Write("AddNodeWrite", -i, 1, Hellos[i]) \in Carried("socketRx")
  <2> DEFINE m == Write("AddNodeWrite", -i, 1, Hellos[i])
  <2>1. -i \in Int /\ Hellos[i] \in {"v4", "v6"} /\ Hellos[i] \in Kernel
    BY TasksAssumption DEF Kernel
  <2>2. m \in Message /\ m.kind = "AddNodeWrite" /\ m.via = Hellos[i]
    <3>1. "AddNodeWrite" \in MessageKinds /\ 1 \in Nat
      BY DEF MessageKinds
    <3> QED
      BY <2>1, <3>1, WriteFields
  <2>3. m \in ToSend
    BY <2>1, <2>2 DEF ToSend, Outgoing
  <2> QED
    BY <2>2, <2>3 DEF Carried, Carries, Fatal, Malformed
<1>2. DOMAIN Hellos = 1 .. Len(Hellos) /\ Len(Hellos) \in Nat
  BY TasksAssumption
<1> QED
  BY <1>1, <1>2 DEF Greetings

LEMMA InitialInv ==
    ASSUME NEW hellos \in {<< >>, Greetings}, InitWith(hellos)
    PROVE  TasksInv
<1>1. "socketRx" \in Channel
  BY DEF Channel, Reader
<1>2. hellos \in Seq(Carried("socketRx"))
  <2>1. << >> \in Seq(Carried("socketRx"))
    OBVIOUS
  <2> QED
    BY <2>1, GreetingsCarried
<1>3. ChannelsCarry
  <2> SUFFICES ASSUME NEW c \in Channel PROVE chan[c] \in Seq(Carried(c))
    BY DEF ChannelsCarry
  <2>1. chan[c] = IF c = "socketRx" THEN hellos ELSE << >>
    BY DEF InitWith
  <2>2. << >> \in Seq(Carried(c))
    OBVIOUS
  <2> QED
    BY <1>2, <2>1, <2>2
<1>4. TypeOK
  <2>1. chan \in [Channel -> Seq(Message)]
    <3>1. hellos \in Seq(Message) /\ << >> \in Seq(Message)
      BY <1>1, <1>2, CarriedMessages
    <3> QED
      BY <3>1 DEF InitWith
  <2>2. \A t \in Task : Len(Loops[t]) \in Nat
    BY LoopFacts
  <2>3. /\ kept \in [Task -> Seq(Message)] /\ loop \in [Task -> Nat]
        /\ \A t \in Task : loop[t] <= Len(Loops[t])
        /\ inputs \in Seq(MessageKinds) /\ clogs \in Nat
    BY <2>2 DEF InitWith
  <2> QED
    BY <2>1, <2>3 DEF InitWith, TypeOK
<1>5. Polled /\ RegisteredIdle /\ NoneUnwritten
  BY DEF InitWith, Polled, RegisteredIdle, NoneUnwritten
<1>6. Watched
  BY DEF InitWith, Watched, WillLook
<1>7. KeptToWrite
  BY DEF InitWith, KeptToWrite
<1> QED
  BY <1>3, <1>4, <1>5, <1>6, <1>7 DEF InitWith, TasksInv, WakeInv, OnlyFatalKills

LEMMA GreetedInv == InitWith(Greetings) => TasksInv
BY InitialInv

\* Until the setup is over nothing has happened, and it is over only on a
\* configuration that was given.
SetupInv ==
    /\ stage # "running" => InitWith(<< >>)
    /\ stage \in {"sockets", "hellos", "running"} => config = "given"
    /\ stage \in {"ifup", "interface"} => config \in {"given", "default"}

StartInv == TasksInv /\ SetupInv

LEMMA StartInitInv == StartInit => StartInv
<1> SUFFICES ASSUME StartInit PROVE StartInv
  OBVIOUS
<1>1. TasksInv
  BY InitialInv DEF StartInit
<1> QED
  BY <1>1 DEF StartInit, StartInv, SetupInv

LEMMA SetupStep == StartInv /\ Setup => StartInv'
<1> SUFFICES ASSUME StartInv, Setup PROVE StartInv'
  OBVIOUS
<1>1. CASE UNCHANGED vars /\ (ReadConfig \/ OpenInterface \/ RunIfup \/ BindSockets)
  <2>1. TasksInv'
    BY <1>1, StutterInv DEF StartInv
  <2>2. stage # "running" /\ stage' # "running" /\ InitWith(<< >>)
    BY <1>1 DEF ReadConfig, OpenInterface, RunIfup, BindSockets, StartInv, SetupInv
  <2>3. InitWith(<< >>)'
    BY <1>1, <2>2 DEF vars, InitWith
  <2>4. /\ stage' \in {"sockets", "hellos", "running"} => config' = "given"
        /\ stage' \in {"ifup", "interface"} => config' \in {"given", "default"}
    BY <1>1 DEF ReadConfig, OpenInterface, RunIfup, IfupSucceeds, BindSockets, StartInv, SetupInv
  <2> QED
    BY <2>1, <2>3, <2>4 DEF StartInv, SetupInv
<1>2. CASE QueueHellos /\ stage' = "failed"
  <2>1. UNCHANGED vars /\ InitWith(<< >>)
    BY <1>2 DEF QueueHellos, StartInv, SetupInv, vars
  <2>2. TasksInv' /\ InitWith(<< >>)'
    BY <2>1, StutterInv DEF StartInv, InitWith, vars
  <2> QED
    BY <1>2, <2>2 DEF StartInv, SetupInv
<1>3. CASE QueueHellos /\ stage' = "running"
  <2>1. InitWith(<< >>) /\ config' = "given"
    BY <1>3 DEF QueueHellos, StartInv, SetupInv
  <2>2. chan' = [c \in Channel |-> IF c = "socketRx" THEN Greetings ELSE << >>]
    BY <1>3, <2>1 DEF QueueHellos, InitWith, Channel, Reader
  <2>3. InitWith(Greetings)'
    BY <1>3, <2>1, <2>2 DEF QueueHellos, InitWith, Greetings
  <2>4. TasksInv'
    BY <2>3, GreetedInv, PTL
  <2> QED
    BY <1>3, <2>1, <2>4 DEF StartInv, SetupInv
<1> QED
  BY <1>1, <1>2, <1>3 DEF Setup, QueueHellos, ReadConfig, OpenInterface, RunIfup, BindSockets

LEMMA StartStep == StartInv /\ [StartNext]_startVars => StartInv'
<1> SUFFICES ASSUME StartInv, [StartNext]_startVars PROVE StartInv'
  OBVIOUS
<1>1. CASE Setup
  BY <1>1, SetupStep
<1>2. CASE Run(Next)
  BY <1>2, NextInv DEF Run, StartInv, SetupInv
<1>3. CASE UNCHANGED startVars
  <2>1. UNCHANGED vars /\ UNCHANGED <<stage, config>>
    BY <1>3 DEF startVars
  <2>2. TasksInv' /\ InitWith(<< >>)' = InitWith(<< >>)
    BY <2>1, StutterInv DEF StartInv, InitWith, vars
  <2> QED
    BY <2>1, <2>2 DEF StartInv, SetupInv
<1> QED
  BY <1>1, <1>2, <1>3 DEF StartNext

\* The invariant of a node, from its setup on.
THEOREM StartInvariant == StartSpec => []StartInv
BY StartInitInv, StartStep, PTL DEF StartSpec

\* Every variable of a node's tasks has its type; a poll never runs past its
\* last loop, and a task that was not spawned has not died.
THEOREM TasksType == StartSpec => []TypeOK
<1>1. StartInv => TypeOK
  BY DEF StartInv, TasksInv, WakeInv
<1> QED
  BY <1>1, StartInvariant, PTL

\* No wake-up is lost: whatever the order in which the tasks are spawned and
\* polled, and whenever the kernel has no room, no task sleeps on a message,
\* a closed channel, or something to write that the kernel would take.
THEOREM NoWakeupLost == StartSpec => []NoLostWakeup
<1>1. StartInv => NoLostWakeup
  BY WatchedIsEnough DEF StartInv, TasksInv
<1> QED
  BY <1>1, StartInvariant, PTL

\* A task ends only of a ping, of a record or a packet that cannot be read, or of
\* an error of the interface: every other input, and whatever becomes of it on
\* its way, meets tasks that have an answer to it.
THEOREM FatalKillsOnly == StartSpec => []OnlyFatalKills
<1>1. StartInv => OnlyFatalKills
  BY DEF StartInv, TasksInv
<1> QED
  BY <1>1, StartInvariant, PTL

\* Nothing runs and nothing is sent on the default configuration, which takes
\* the place of a file that does not parse.
THEOREM DefaultNeverRuns == StartSpec => []OnlyConfiguredRuns
<1>1. StartInv => OnlyConfiguredRuns
  BY DEF StartInv, SetupInv, OnlyConfiguredRuns, InitWith, Channel, Reader
<1> QED
  BY <1>1, StartInvariant, PTL

\* The network reads a channel of each of the other tasks, and each of them one
\* of the network's.
LEMMA NetworkIsBetween ==
    \A t \in Task \ {"network"} :
        /\ \E c \in Channel : Reader[c] = t /\ Writer[c] = "network"
        /\ \E c \in Channel : Reader[c] = "network" /\ Writer[c] = t
<1>1. /\ {"deviceRx", "routerRx", "socketRx", "networkDevice", "networkRouter", "networkSocket"}
              \subseteq Channel
      /\ Reader["deviceRx"] = "device" /\ Writer["deviceRx"] = "network"
      /\ Reader["routerRx"] = "router" /\ Writer["routerRx"] = "network"
      /\ Reader["socketRx"] = "socket" /\ Writer["socketRx"] = "network"
      /\ Reader["networkDevice"] = "network" /\ Writer["networkDevice"] = "device"
      /\ Reader["networkRouter"] = "network" /\ Writer["networkRouter"] = "router"
      /\ Reader["networkSocket"] = "network" /\ Writer["networkSocket"] = "socket"
  BY DEF Channel, Reader, Writer
<1> QED
  BY <1>1 DEF Task

\* At rest nobody will look at anything any more, so whatever a task that runs
\* could still find, a message or an end, is not there.
LEMMA RestIsDone == WakeInv => RestsWhenDone
<1> SUFFICES ASSUME WakeInv, Resting
             PROVE  dead = Task \/ (dead = {} /\ Drained)
  BY DEF RestsWhenDone
<1>1. NoneUnread /\ NoneUnwritten /\ dead \subseteq Task /\ TypeOK
  BY WatchedIsEnough DEF NoLostWakeup, WakeInv, TypeOK
<1>2. \A t \in Task \ dead : \A l : ~WillLook(t, l)
  BY <1>1 DEF Resting, WillLook
<1>3. \A c \in Channel : Reader[c] \notin dead => chan[c] = << >> /\ Writer[c] \notin dead
  BY <1>1, <1>2, ChannelFacts DEF NoneUnread, Alive
<1>4. ASSUME NEW t \in Task \ dead
      PROVE  dead = {}
  <2>1. "network" \notin dead
    BY <1>3, <1>4, NetworkIsBetween
  <2> QED
    BY <1>1, <1>3, <2>1, NetworkIsBetween
<1>5. ASSUME dead = {}
      PROVE  Drained
  <2>1. \A c \in Channel : chan[c] = << >>
    BY <1>3, <1>5
  <2>2. \A t \in Task : kept[t] = << >>
    BY <1>1, <1>2, <1>5 DEF NoneUnwritten, Resting, TypeOK
  <2> QED
    BY <2>1, <2>2 DEF Drained
<1> QED
  BY <1>1, <1>4, <1>5

\* A node rests only when it has handled everything, or stopped altogether.
THEOREM RestMeansDone == StartSpec => []RestsWhenDone
<1>1. StartInv => RestsWhenDone
  BY RestIsDone DEF StartInv, TasksInv
<1> QED
  BY <1>1, StartInvariant, PTL
=============================================================================
