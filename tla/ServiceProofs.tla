----------------------------- MODULE ServiceProofs -----------------------------
(***************************************************************************)
(* The tasks of a node implement NodeService: proof of the refinement, for *)
(* every list of servers and every input.                                  *)
(*                                                                         *)
(* A message in a channel or a list stands for one thing the service has:  *)
(* an input to be decided, or an answer that has not left.  Passing it on  *)
(* changes the place and perhaps the variant, not what it stands for; the  *)
(* invariant is that no two messages stand for the same.                   *)
(***************************************************************************)
EXTENDS TasksProofs

Place == Channel \cup Task

Lists == [Place -> Seq(Message)]

Held == [p \in Place |-> IF p \in Channel THEN chan[p] ELSE kept[p]]

\* Message m at place p is an input to be decided.
Pending(p, m) ==
    \/ p \in {"v4", "v6", "tun", "networkSocket", "networkDevice"}
    \/ p = "routerRx" /\ m.kind \notin Unroutable

Input(kind, i) == [kind |-> kind, id |-> i, nr |-> 0, via |-> "input"]

\* What message m at place p stands for.
Token(p, m) ==
    IF Pending(p, m)
    THEN Input(IF m.kind = "InterfaceRead" THEN "Package" ELSE m.kind, m.id)
    ELSE m

TokenSet(p, s) == {Token(p, m) : m \in ToSet(s)}

Tokens(h) == UNION {TokenSet(p, h[p]) : p \in Place}

Single(p, s) == \A i, j \in DOMAIN s : Token(p, s[i]) = Token(p, s[j]) => i = j

Once(h) ==
    /\ \A p \in Place : Single(p, h[p])
    /\ \A p, q \in Place : p # q => TokenSet(p, h[p]) \cap TokenSet(q, h[q]) = {}

\* The inputs to be decided arrived, and have no answer yet.
Known(T, ins) ==
    /\ \A x \in T : x.via = "input" => x.id \in DOMAIN ins /\ ins[x.id] = x.kind
    /\ \A x, y \in T : x.via # "input" /\ y.via = "input" => x.id # y.id
    /\ \A x \in T : x.id <= Len(ins)

ServiceInv == Once(Held) /\ Known(Tokens(Held), inputs)

-----------------------------------------------------------------------------
(***************************************************************************)
(* Lists of messages, and what they stand for.                             *)
(***************************************************************************)
LEMMA TokenSetFacts ==
    ASSUME NEW p
    PROVE  /\ TokenSet(p, << >>) = {}
           /\ Single(p, << >>)
           /\ \A m : TokenSet(p, <<m>>) = {Token(p, m)} /\ Single(p, <<m>>)
<1>1. ToSet(<< >>) = {} /\ \A m : ToSet(<<m>>) = {m}
  BY DEF ToSet
<1>2. Single(p, << >>)
  BY DEF Single
<1>3. ASSUME NEW m PROVE Single(p, <<m>>)
  BY DEF Single
<1> QED
  BY <1>1, <1>2, <1>3 DEF TokenSet

LEMMA SingleTail ==
    ASSUME NEW p, NEW s \in Seq(Message), s # << >>, Single(p, s)
    PROVE  /\ Single(p, Tail(s)) /\ Token(p, Head(s)) \in TokenSet(p, s)
           /\ TokenSet(p, Tail(s)) = TokenSet(p, s) \ {Token(p, Head(s))}
<1>1. /\ Tail(s) \in Seq(Message) /\ Head(s) = s[1] /\ 1 \in DOMAIN s
      /\ DOMAIN s = 1 .. Len(s) /\ DOMAIN Tail(s) = 1 .. Len(s) - 1
      /\ \A i \in 1 .. Len(s) - 1 : Tail(s)[i] = s[i + 1]
      /\ Len(s) \in Nat \ {0}
  OBVIOUS
<1>2. Single(p, Tail(s))
  <2> SUFFICES ASSUME NEW i \in DOMAIN Tail(s), NEW j \in DOMAIN Tail(s),
                      Token(p, Tail(s)[i]) = Token(p, Tail(s)[j])
               PROVE  i = j
    BY DEF Single
  <2>1. i + 1 \in DOMAIN s /\ j + 1 \in DOMAIN s
    BY <1>1
  <2>2. Token(p, s[i + 1]) = Token(p, s[j + 1])
    BY <1>1
  <2>3. i + 1 = j + 1
    BY <2>1, <2>2 DEF Single
  <2> QED
    BY <1>1, <2>3
<1>3. ToSet(s) = ToSet(Tail(s)) \cup {Head(s)} /\ Head(s) \in ToSet(s)
  BY HeadAndTail
<1>4. ASSUME NEW m \in ToSet(Tail(s)) PROVE Token(p, m) # Token(p, Head(s))
  <2>1. PICK i \in DOMAIN Tail(s) : m = Tail(s)[i]
    BY DEF ToSet
  <2>2. i + 1 \in DOMAIN s /\ m = s[i + 1] /\ i + 1 # 1
    BY <1>1, <2>1
  <2> QED
    BY <1>1, <2>2 DEF Single
<1> QED
  BY <1>2, <1>3, <1>4 DEF TokenSet

LEMMA SingleJoined ==
    ASSUME NEW p, NEW s \in Seq(Message), NEW t \in Seq(Message), Single(p, s), Single(p, t),
           TokenSet(p, s) \cap TokenSet(p, t) = {}
    PROVE  /\ s \o t \in Seq(Message) /\ Single(p, s \o t)
           /\ TokenSet(p, s \o t) = TokenSet(p, s) \cup TokenSet(p, t)
<1>1. /\ s \o t \in Seq(Message) /\ DOMAIN (s \o t) = 1 .. Len(s) + Len(t)
      /\ DOMAIN s = 1 .. Len(s) /\ DOMAIN t = 1 .. Len(t)
      /\ Len(s) \in Nat /\ Len(t) \in Nat
      /\ \A i \in 1 .. Len(s) : (s \o t)[i] = s[i]
      /\ \A i \in 1 .. Len(t) : (s \o t)[Len(s) + i] = t[i]
  OBVIOUS
<1>2. ToSet(s \o t) = ToSet(s) \cup ToSet(t)
  BY Concatenated
<1>3. ASSUME NEW i \in DOMAIN (s \o t), i \notin DOMAIN s
      PROVE  i - Len(s) \in DOMAIN t /\ (s \o t)[i] = t[i - Len(s)]
  <2>1. i - Len(s) \in 1 .. Len(t) /\ Len(s) + (i - Len(s)) = i
    BY <1>1, <1>3
  <2> QED
    BY <1>1, <2>1
<1>4. ASSUME NEW i \in DOMAIN s, NEW j \in DOMAIN t
      PROVE  Token(p, s[i]) # Token(p, t[j])
  BY DEF TokenSet, ToSet
<1>5. Single(p, s \o t)
  <2> SUFFICES ASSUME NEW i \in DOMAIN (s \o t), NEW j \in DOMAIN (s \o t),
                      Token(p, (s \o t)[i]) = Token(p, (s \o t)[j])
               PROVE  i = j
    BY DEF Single
  <2>1. CASE i \in DOMAIN s /\ j \in DOMAIN s
    BY <1>1, <2>1 DEF Single
  <2>2. CASE i \in DOMAIN s /\ j \notin DOMAIN s
    BY <1>1, <1>3, <1>4, <2>2
  <2>3. CASE i \notin DOMAIN s /\ j \in DOMAIN s
    BY <1>1, <1>3, <1>4, <2>3
  <2>4. CASE i \notin DOMAIN s /\ j \notin DOMAIN s
    <3>1. i - Len(s) = j - Len(s)
      BY <1>3, <2>4 DEF Single
    <3> QED
      BY <1>1, <3>1
  <2> QED
    BY <2>1, <2>2, <2>3, <2>4
<1> QED
  BY <1>1, <1>2, <1>5 DEF TokenSet

LEMMA SingleRotated ==
    ASSUME NEW p, NEW s \in Seq(Message), s # << >>, Single(p, s)
    PROVE  /\ Append(Tail(s), Head(s)) \in Seq(Message)
           /\ Single(p, Append(Tail(s), Head(s)))
           /\ TokenSet(p, Append(Tail(s), Head(s))) = TokenSet(p, s)
<1> DEFINE r == Tail(s)
           x == Head(s)
<1>1. r \in Seq(Message) /\ x \in Message
  BY HeadAndTail
<1>2. /\ Single(p, r) /\ Token(p, x) \in TokenSet(p, s)
      /\ TokenSet(p, r) = TokenSet(p, s) \ {Token(p, x)}
  BY SingleTail
<1> HIDE DEF r, x
<1>3. Append(r, x) = r \o <<x>> /\ <<x>> \in Seq(Message)
  BY <1>1
<1>4. Single(p, <<x>>) /\ TokenSet(p, <<x>>) = {Token(p, x)}
  BY TokenSetFacts
<1>5. /\ r \o <<x>> \in Seq(Message) /\ Single(p, r \o <<x>>)
      /\ TokenSet(p, r \o <<x>>) = TokenSet(p, r) \cup TokenSet(p, <<x>>)
  <2>1. TokenSet(p, r) \cap TokenSet(p, <<x>>) = {}
    BY <1>2, <1>4
  <2> QED
    BY <1>1, <1>2, <1>3, <1>4, <2>1, SingleJoined
<1> QED
  BY <1>2, <1>3, <1>4, <1>5 DEF r, x

-----------------------------------------------------------------------------
(***************************************************************************)
(* What moves between the places.                                          *)
(***************************************************************************)
\* From h to g the first message of p goes, and ms come to q.
Moves(h, g, p, q, ms) == g = [h EXCEPT ![p] = Tail(@), ![q] = @ \o ms]

\* The first message of p goes, and ms, which stand for nothing else, come to q.
LEMMA Moved ==
    ASSUME NEW h \in Lists, Once(h), NEW p \in Place, NEW q \in Place, p # q, h[p] # << >>,
           NEW ms \in Seq(Message), Single(q, ms),
           TokenSet(q, ms) \cap (Tokens(h) \ {Token(p, Head(h[p]))}) = {},
           NEW g, Moves(h, g, p, q, ms)
    PROVE  /\ g \in Lists /\ Once(g)
           /\ Token(p, Head(h[p])) \in Tokens(h)
           /\ Tokens(g) = (Tokens(h) \ {Token(p, Head(h[p]))}) \cup TokenSet(q, ms)
<1> DEFINE x == Token(p, Head(h[p]))
           T(r) == TokenSet(r, h[r])
           U(r) == TokenSet(r, g[r])
           M == TokenSet(q, ms)
<1>1. h[p] \in Seq(Message) /\ h[q] \in Seq(Message)
  BY DEF Lists
<1>2. /\ Single(p, Tail(h[p])) /\ x \in T(p) /\ TokenSet(p, Tail(h[p])) = T(p) \ {x}
      /\ Tail(h[p]) \in Seq(Message)
  BY <1>1, SingleTail, HeadAndTail DEF Once
<1>3. /\ \A r \in Place : T(r) \subseteq Tokens(h)
      /\ x \notin T(q)
  BY <1>2 DEF Tokens, Once
<1>4. T(q) \cap M = {}
  BY <1>3
<1>5. /\ h[q] \o ms \in Seq(Message) /\ Single(q, h[q] \o ms)
      /\ TokenSet(q, h[q] \o ms) = T(q) \cup M
  BY <1>1, <1>4, SingleJoined DEF Once
<1>6. g = [r \in Place |-> IF r = q THEN h[q] \o ms ELSE IF r = p THEN Tail(h[p]) ELSE h[r]]
  BY DEF Lists, Moves
<1>7. /\ g[p] = Tail(h[p]) /\ g[q] = h[q] \o ms
      /\ \A r \in Place : r # p /\ r # q => g[r] = h[r]
  BY <1>6
<1>8. g \in Lists
  BY <1>2, <1>5, <1>6 DEF Lists
<1>9. /\ U(p) = T(p) \ {x} /\ U(q) = T(q) \cup M
      /\ \A r \in Place : r # p /\ r # q => U(r) = T(r)
  BY <1>2, <1>5, <1>7
<1>10. \A r \in Place : Single(r, g[r])
  <2> TAKE r \in Place
  <2>1. CASE r = p
    BY <1>2, <1>7, <2>1
  <2>2. CASE r = q
    BY <1>5, <1>7, <2>2
  <2>3. CASE r # p /\ r # q
    BY <1>7, <2>3 DEF Once
  <2> QED
    BY <2>1, <2>2, <2>3
<1>11. \A r, u \in Place : r # u => T(r) \cap T(u) = {}
  BY DEF Once
<1>12. x \in Tokens(h) /\ M \cap (Tokens(h) \ {x}) = {}
  BY <1>2, <1>3
<1>13. Tokens(h) = UNION {T(r) : r \in Place} /\ Tokens(g) = UNION {U(r) : r \in Place}
  BY DEF Tokens
<1> HIDE DEF x, T, U, M
<1>14. \A r \in Place : r # p => x \notin T(r)
  BY <1>2, <1>11
<1>15. \A r \in Place : r # q => M \cap U(r) = {}
  <2> TAKE r \in Place
  <2>1. CASE r = p
    BY <1>3, <1>9, <1>12, <2>1
  <2>2. CASE r # p /\ r # q
    BY <1>3, <1>9, <1>12, <1>14, <2>2
  <2> QED
    BY <2>1, <2>2
<1>16. \A r, u \in Place : r # u => U(r) \cap U(u) = {}
  <2> SUFFICES ASSUME NEW r \in Place, NEW u \in Place, r # u, NEW y, y \in U(r), y \in U(u)
               PROVE  FALSE
    OBVIOUS
  <2>1. \A v \in Place : v # q => U(v) \subseteq T(v)
    BY <1>9
  <2>2. CASE r # q /\ u # q
    BY <1>11, <2>1, <2>2
  <2>3. CASE r = q
    BY <1>9, <1>11, <1>15, <2>1, <2>3
  <2>4. CASE u = q
    BY <1>9, <1>11, <1>15, <2>1, <2>4
  <2> QED
    BY <2>2, <2>3, <2>4
<1>17. Tokens(g) = (Tokens(h) \ {x}) \cup M
  <2>1. \A y : y \in Tokens(g) => y \in (Tokens(h) \ {x}) \cup M
    BY <1>9, <1>13, <1>14
  <2>2. \A y : y \in Tokens(h) /\ y # x => y \in Tokens(g)
    BY <1>9, <1>13
  <2>3. M \subseteq Tokens(g)
    BY <1>9, <1>13
  <2> QED
    BY <2>1, <2>2, <2>3
<1> QED
  BY <1>8, <1>10, <1>12, <1>16, <1>17 DEF Once, x, M, U

\* From h to g ms come to q.
Comes(h, g, q, ms) == g = [h EXCEPT ![q] = @ \o ms]

\* ms, which stand for nothing there is, come to q.
LEMMA Joined ==
    ASSUME NEW h \in Lists, Once(h), NEW q \in Place, NEW ms \in Seq(Message), Single(q, ms),
           TokenSet(q, ms) \cap Tokens(h) = {},
           NEW g, Comes(h, g, q, ms)
    PROVE  g \in Lists /\ Once(g) /\ Tokens(g) = Tokens(h) \cup TokenSet(q, ms)
<1> DEFINE T(r) == TokenSet(r, h[r])
           U(r) == TokenSet(r, g[r])
           M == TokenSet(q, ms)
<1>1. h[q] \in Seq(Message)
  BY DEF Lists
<1>2. \A r \in Place : T(r) \subseteq Tokens(h) /\ T(r) \cap M = {}
  BY DEF Tokens
<1>3. /\ h[q] \o ms \in Seq(Message) /\ Single(q, h[q] \o ms)
      /\ TokenSet(q, h[q] \o ms) = T(q) \cup M
  BY <1>1, <1>2, SingleJoined DEF Once
<1>4. g = [r \in Place |-> IF r = q THEN h[q] \o ms ELSE h[r]]
  BY DEF Lists, Comes
<1>5. g \in Lists /\ \A r \in Place : Single(r, g[r])
  BY <1>3, <1>4 DEF Lists, Once
<1>6. U(q) = T(q) \cup M /\ \A r \in Place : r # q => U(r) = T(r)
  BY <1>3, <1>4
<1>7. \A r, u \in Place : r # u => T(r) \cap T(u) = {}
  BY DEF Once
<1>8. Tokens(h) = UNION {T(r) : r \in Place} /\ Tokens(g) = UNION {U(r) : r \in Place}
  BY DEF Tokens
<1> HIDE DEF T, U, M
<1>9. \A r, u \in Place : r # u => U(r) \cap U(u) = {}
  <2> SUFFICES ASSUME NEW r \in Place, NEW u \in Place, r # u PROVE U(r) \cap U(u) = {}
    OBVIOUS
  <2>1. CASE r # q /\ u # q
    BY <1>6, <1>7, <2>1
  <2>2. CASE r = q
    BY <1>2, <1>6, <1>7, <2>2
  <2>3. CASE u = q
    BY <1>2, <1>6, <1>7, <2>3
  <2> QED
    BY <2>1, <2>2, <2>3
<1>10. Tokens(g) = Tokens(h) \cup M
  <2>1. \A y : y \in Tokens(g) => y \in Tokens(h) \cup M
    BY <1>6, <1>8
  <2>2. ASSUME NEW y \in Tokens(h) PROVE y \in Tokens(g)
    <3>1. PICK r \in Place : y \in T(r)
      BY <1>8
    <3>2. y \in U(r)
      BY <1>6, <3>1
    <3> QED
      BY <1>8, <3>2
  <2>3. M \subseteq Tokens(g)
    <3>1. M \subseteq U(q) /\ q \in Place
      BY <1>6
    <3> QED
      BY <1>8, <3>1
  <2> QED
    BY <2>1, <2>2, <2>3
<1> QED
  BY <1>5, <1>9, <1>10 DEF Once, M, U

\* Lists in which each message stands for what one of them did there before.
LEMMA Shrunk ==
    ASSUME NEW h \in Lists, Once(h), NEW g \in Lists,
           \A p \in Place : Single(p, g[p]) /\ TokenSet(p, g[p]) \subseteq TokenSet(p, h[p])
    PROVE  Once(g) /\ Tokens(g) \subseteq Tokens(h)
BY DEF Once, Tokens

-----------------------------------------------------------------------------
(***************************************************************************)
(* What the service has, in terms of what the messages stand for.          *)
(***************************************************************************)
TodoOf(T) == {x.id : x \in {y \in T : y.via = "input"}}

OwedOf(T) == {x \in T : x.via # "input"}

LEMMA PlaceFacts ==
    /\ Channel \cap Task = {}
    /\ {"v4", "v6", "tun", "networkSocket", "networkDevice", "routerRx",
        "networkRouter", "deviceRx", "socketRx"} = Channel
BY DEF Channel, Task, Reader

LEMMA HeldFacts ==
    TypeOK => /\ Held \in Lists
              /\ \A c \in Channel : Held[c] = chan[c]
              /\ \A t \in Task : Held[t] = kept[t]
BY PlaceFacts DEF TypeOK, Held, Lists, Place

LEMMA TokenVia ==
    ASSUME NEW p, NEW m \in Message
    PROVE  /\ Pending(p, m) => Token(p, m).via = "input" /\ Token(p, m).id = m.id
           /\ ~Pending(p, m) => Token(p, m) = m /\ m.via # "input"
BY DEF Token, Input, Message, Kernel

LEMMA TokensOfHeld ==
    ASSUME TypeOK
    PROVE  /\ \A x : x \in Tokens(Held) <=> \E p \in Place : \E m \in ToSet(Held[p]) : x = Token(p, m)
           /\ \A p \in Place : ToSet(Held[p]) \subseteq Message
<1>1. \A p \in Place : Held[p] \in Seq(Message)
  BY HeldFacts DEF Lists
<1> QED
  BY <1>1, Elements DEF Tokens, TokenSet

LEMMA TodoIsHeld == TypeOK => Undecided = TodoOf(Tokens(Held))
<1> SUFFICES ASSUME TypeOK PROVE Undecided = TodoOf(Tokens(Held))
  OBVIOUS
<1> DEFINE Before == {"v4", "v6", "tun", "networkSocket", "networkDevice"}
<1>1. ASSUME NEW i \in Undecided PROVE i \in TodoOf(Tokens(Held))
  <2>1. PICK m : /\ i = m.id
                 /\ \/ \E c \in Before : m \in ToSet(chan[c])
                    \/ m \in ToSet(chan["routerRx"]) /\ m.kind \notin Unroutable
    BY DEF Undecided
  <2>2. PICK p \in Channel : m \in ToSet(chan[p]) /\ Pending(p, m)
    BY <2>1, PlaceFacts DEF Pending
  <2>3. p \in Place /\ m \in ToSet(Held[p])
    BY <2>2, HeldFacts DEF Place
  <2>4. Token(p, m) \in Tokens(Held) /\ m \in Message
    BY <2>3, TokensOfHeld
  <2>5. Token(p, m).via = "input" /\ Token(p, m).id = i
    BY <2>1, <2>2, <2>4, TokenVia
  <2> QED
    BY <2>4, <2>5 DEF TodoOf
<1>2. ASSUME NEW i \in TodoOf(Tokens(Held)) PROVE i \in Undecided
  <2>1. PICK x \in Tokens(Held) : x.via = "input" /\ x.id = i
    BY DEF TodoOf
  <2>2. PICK p \in Place : \E m \in ToSet(Held[p]) : x = Token(p, m)
    BY <2>1, TokensOfHeld
  <2>m. PICK m \in ToSet(Held[p]) : x = Token(p, m)
    BY <2>2
  <2>3. Pending(p, m) /\ m.id = i
    BY <2>1, <2>m, TokensOfHeld, TokenVia
  <2>4. p \in Channel /\ m \in ToSet(chan[p])
    BY <2>m, <2>3, PlaceFacts, HeldFacts DEF Pending
  <2> QED
    BY <2>3, <2>4 DEF Undecided, Pending
<1> QED
  BY <1>1, <1>2

LEMMA OwedIsHeld == TypeOK => Unsent = OwedOf(Tokens(Held))
<1> SUFFICES ASSUME TypeOK PROVE Unsent = OwedOf(Tokens(Held))
  OBVIOUS
<1>1. ASSUME NEW m \in Unsent PROVE m \in OwedOf(Tokens(Held))
  <2>1. \/ \E c \in {"networkRouter", "deviceRx", "socketRx"} : m \in ToSet(chan[c])
        \/ \E t \in Task : m \in ToSet(kept[t])
        \/ m \in ToSet(chan["routerRx"]) /\ m.kind \in Unroutable
    BY DEF Unsent
  <2>2. PICK p \in Place : m \in ToSet(Held[p]) /\ ~Pending(p, m)
    <3>1. CASE \E c \in {"networkRouter", "deviceRx", "socketRx"} : m \in ToSet(chan[c])
      BY <3>1, PlaceFacts, HeldFacts DEF Pending, Place
    <3>2. CASE \E t \in Task : m \in ToSet(kept[t])
      BY <3>2, PlaceFacts, HeldFacts DEF Pending, Place
    <3>3. CASE m \in ToSet(chan["routerRx"]) /\ m.kind \in Unroutable
      BY <3>3, PlaceFacts, HeldFacts DEF Pending, Place
    <3> QED
      BY <2>1, <3>1, <3>2, <3>3
  <2>3. Token(p, m) \in Tokens(Held) /\ m \in Message
    BY <2>2, TokensOfHeld
  <2> QED
    BY <2>2, <2>3, TokenVia DEF OwedOf
<1>2. ASSUME NEW x \in OwedOf(Tokens(Held)) PROVE x \in Unsent
  <2>1. x \in Tokens(Held) /\ x.via # "input"
    BY DEF OwedOf
  <2>2. PICK p \in Place : \E m \in ToSet(Held[p]) : x = Token(p, m)
    BY <2>1, TokensOfHeld
  <2>m. PICK m \in ToSet(Held[p]) : x = Token(p, m)
    BY <2>2
  <2>3. ~Pending(p, m) /\ x = m
    BY <2>1, <2>m, TokensOfHeld, TokenVia
  <2>4. CASE p \in Task
    BY <2>m, <2>3, <2>4, HeldFacts DEF Unsent
  <2>5. CASE p \in Channel
    BY <2>m, <2>3, <2>5, PlaceFacts, HeldFacts DEF Unsent, Pending
  <2> QED
    BY <2>4, <2>5 DEF Place
<1> QED
  BY <1>1, <1>2

\* What the service has is what the messages stand for.
ServiceHeld ==
    /\ Held \in Lists
    /\ Undecided = TodoOf(Tokens(Held)) /\ Unsent = OwedOf(Tokens(Held))

LEMMA AllHeld == TypeOK => ServiceHeld
BY HeldFacts, TodoIsHeld, OwedIsHeld DEF ServiceHeld

LEMMA HeldBothTimes ==
    ASSUME TasksInv, TasksInv'
    PROVE  ServiceHeld /\ ServiceHeld'
<1>1. TypeOK => ServiceHeld
  BY AllHeld
<1>2. TypeOK' => ServiceHeld'
  BY AllHeld, PTL
<1> QED
  BY <1>1, <1>2 DEF TasksInv, WakeInv

-----------------------------------------------------------------------------
(***************************************************************************)
(* The effects of the steps, on what the messages stand for.               *)
(***************************************************************************)
LEMMA KnownLess ==
    ASSUME NEW T, NEW S, S \subseteq T, NEW ins, Known(T, ins)
    PROVE  Known(S, ins)
BY DEF Known

\* No two inputs to be decided have an id in common.
OfOneId(T) == \A y, z \in T : y.via = "input" /\ z.via = "input" /\ y.id = z.id => y = z

\* An input gives way to its answers.
LEMMA Replaced ==
    ASSUME NEW T, NEW ins, Known(T, ins), OfOneId(T), NEW x \in T, x.via = "input",
           NEW A, \A y \in A : y.via # "input" /\ y.id = x.id
    PROVE  /\ A \cap (T \ {x}) = {}
           /\ Known((T \ {x}) \cup A, ins)
           /\ TodoOf((T \ {x}) \cup A) = TodoOf(T) \ {x.id}
           /\ OwedOf((T \ {x}) \cup A) = OwedOf(T) \cup A
<1>1. A \cap (T \ {x}) = {}
  BY DEF Known
<1>2. Known((T \ {x}) \cup A, ins)
  <2> DEFINE S == (T \ {x}) \cup A
  <2>1. \A y \in S : y.via = "input" => y \in T /\ y.id # x.id
    BY DEF OfOneId
  <2>2. \A y \in S : y.via # "input" => y \in T \/ y.id = x.id
    OBVIOUS
  <2>3. \A y \in S : y.id <= Len(ins)
    BY DEF Known
  <2> HIDE DEF S
  <2> QED
    BY <2>1, <2>2, <2>3 DEF Known, S
<1>3. TodoOf((T \ {x}) \cup A) = TodoOf(T) \ {x.id}
  BY DEF TodoOf, OfOneId
<1>4. OwedOf((T \ {x}) \cup A) = OwedOf(T) \cup A
  BY DEF OwedOf
<1> QED
  BY <1>1, <1>2, <1>3, <1>4

\* An answer leaves.
LEMMA Left ==
    ASSUME NEW T, NEW x \in T, x.via # "input"
    PROVE  x \in OwedOf(T) /\ TodoOf(T \ {x}) = TodoOf(T) /\ OwedOf(T \ {x}) = OwedOf(T) \ {x}
BY DEF TodoOf, OwedOf

\* The n-th input is x, of the given kind.
Grows(ins, new, kind, n, x) ==
    /\ \E S : kind \in S /\ ins \in Seq(S)
    /\ new = Append(ins, kind) /\ n = Len(new) /\ x = Input(kind, n)

\* An input arrives.
LEMMA Accepted ==
    ASSUME NEW T, NEW ins, NEW new, NEW kind, NEW n, NEW x, Grows(ins, new, kind, n, x),
           Known(T, ins), \A y \in T : y.id \in Int
    PROVE  /\ x \notin T /\ Known(T \cup {x}, new)
           /\ TodoOf(T \cup {x}) = TodoOf(T) \cup {n}
           /\ OwedOf(T \cup {x}) = OwedOf(T)
<1>1. /\ Len(ins) \in Nat /\ n = Len(ins) + 1 /\ new[n] = kind /\ n \in DOMAIN new
      /\ \A i \in DOMAIN ins : i \in DOMAIN new /\ new[i] = ins[i]
  BY DEF Grows
<1>2. x.kind = kind /\ x.id = n /\ x.via = "input"
  BY DEF Input, Grows
<1>3. \A y \in T : y.id # n /\ y.id <= n
  BY <1>1 DEF Known
<1>4. x \notin T
  BY <1>2, <1>3
<1>5. Known(T \cup {x}, new)
  <2>1. \A y \in T \cup {x} : y.via = "input" => y.id \in DOMAIN new /\ new[y.id] = y.kind
    BY <1>1, <1>2 DEF Known
  <2>2. \A y, z \in T \cup {x} : y.via # "input" /\ z.via = "input" => y.id # z.id
    BY <1>2, <1>3 DEF Known
  <2>3. \A y \in T \cup {x} : y.id <= Len(new)
    BY <1>1, <1>2, <1>3
  <2> QED
    BY <2>1, <2>2, <2>3 DEF Known
<1>6. TodoOf(T \cup {x}) = TodoOf(T) \cup {n} /\ OwedOf(T \cup {x}) = OwedOf(T)
  BY <1>2 DEF TodoOf, OwedOf
<1> QED
  BY <1>4, <1>5, <1>6

\* A message that stands for an input to be decided is known by its id.
LEMMA InputsById ==
    ASSUME NEW h \in Lists, Known(Tokens(h), inputs)
    PROVE  OfOneId(Tokens(h))
<1> SUFFICES ASSUME NEW y \in Tokens(h), NEW z \in Tokens(h),
                    y.via = "input", z.via = "input", y.id = z.id
             PROVE  y = z
  BY DEF OfOneId
<1>1. ASSUME NEW x \in Tokens(h), x.via = "input" PROVE x = Input(x.kind, x.id)
  <2>1. PICK p \in Place : x \in TokenSet(p, h[p])
    BY DEF Tokens
  <2>2. PICK m \in ToSet(h[p]) : x = Token(p, m)
    BY <2>1 DEF TokenSet
  <2>3. m \in Message
    BY Elements DEF Lists
  <2>4. Pending(p, m)
    BY <1>1, <2>2, <2>3, TokenVia
  <2> QED
    BY <2>2, <2>4 DEF Token, Input
<1>2. y.kind = z.kind
  BY DEF Known
<1> QED
  BY <1>1, <1>2

\* The first message of c goes and ms come to d.
LEMMA PassedTokens ==
    ASSUME TasksInv, ServiceInv, NEW c \in Channel, NEW d \in Place, c # d, chan[c] # << >>,
           NEW ms \in Seq(Message), Single(d, ms),
           TokenSet(d, ms) \cap (Tokens(Held) \ {Token(c, Head(chan[c]))}) = {},
           Held' = [Held EXCEPT ![c] = Tail(@), ![d] = @ \o ms]
    PROVE  /\ Once(Held') /\ Token(c, Head(chan[c])) \in Tokens(Held)
           /\ Tokens(Held') = (Tokens(Held) \ {Token(c, Head(chan[c]))}) \cup TokenSet(d, ms)
<1>1. Held \in Lists /\ Held[c] = chan[c] /\ c \in Place
  BY HeldFacts DEF TasksInv, WakeInv, Place
<1> DEFINE h == Held
           g == Held'
<1>2. /\ h \in Lists /\ Once(h) /\ c \in Place /\ h[c] # << >>
      /\ Moves(h, g, c, d, ms)
      /\ TokenSet(d, ms) \cap (Tokens(h) \ {Token(c, Head(h[c]))}) = {}
  BY <1>1 DEF ServiceInv, Moves
<1>3. /\ Once(g) /\ Token(c, Head(h[c])) \in Tokens(h)
      /\ Tokens(g) = (Tokens(h) \ {Token(c, Head(h[c]))}) \cup TokenSet(d, ms)
  <2> HIDE DEF h, g
  <2> QED
    BY <1>2, Moved
<1> QED
  BY <1>1, <1>3

LEMMA HeldPassed ==
    ASSUME TasksInv, NEW c \in Channel, NEW d \in Channel, c # d, NEW ms,
           Passed(Reader[c], c, d, ms)
    PROVE  Held' = [Held EXCEPT ![c] = Tail(@), ![d] = @ \o ms] /\ chan[c] # << >>
<1>1. /\ chan' = [chan EXCEPT ![c] = Tail(@), ![d] = @ \o ms] /\ kept' = kept
      /\ chan[c] # << >> /\ DOMAIN chan = Channel
  BY DEF Passed, TasksInv, WakeInv, TypeOK
<1>2. c \in Place /\ d \in Place
  BY DEF Place
<1> QED
  BY <1>1, <1>2 DEF Held

\* The first message of p goes.
LEMMA GoneTokens ==
    ASSUME TasksInv, TasksInv', ServiceInv, NEW p \in Place, Held[p] # << >>,
           Held'[p] = Tail(Held[p]), \A q \in Place \ {p} : Held'[q] = Held[q]
    PROVE  /\ Once(Held') /\ Token(p, Head(Held[p])) \in Tokens(Held)
           /\ Tokens(Held') = Tokens(Held) \ {Token(p, Head(Held[p]))}
<1>1. PICK q \in Place : q # p
  <2>1. "device" \in Place /\ "router" \in Place
    BY DEF Place, Task
  <2> QED
    BY <2>1
<1> DEFINE h == Held
           g == Held'
           none == << >>
<1>2. h \in Lists /\ g \in Lists /\ Once(h)
  BY HeldBothTimes DEF ServiceHeld, ServiceInv
<1>3. h[q] \o << >> = h[q]
  BY <1>2 DEF Lists
<1>4. Moves(h, g, p, q, << >>)
  <2>1. \A r \in Place : g[r] = [h EXCEPT ![p] = Tail(@), ![q] = @ \o << >>][r]
    BY <1>1, <1>2, <1>3 DEF Lists
  <2>2. DOMAIN g = Place /\ DOMAIN h = Place
    BY <1>2 DEF Lists
  <2>3. g = [r \in Place |-> g[r]]
    BY <1>2 DEF Lists
  <2> QED
    BY <2>1, <2>2, <2>3 DEF Moves
<1>5. /\ none \in Seq(Message) /\ Single(q, none) /\ TokenSet(q, none) = {}
      /\ TokenSet(q, none) \cap (Tokens(h) \ {Token(p, Head(h[p]))}) = {}
  BY TokenSetFacts
<1>6. /\ Once(g) /\ Token(p, Head(h[p])) \in Tokens(h)
      /\ Tokens(g) = (Tokens(h) \ {Token(p, Head(h[p]))}) \cup TokenSet(q, none)
  <2>1. h[p] # << >> /\ Moves(h, g, p, q, none)
    BY <1>4
  <2> HIDE DEF h, g, none
  <2> QED
    BY <1>1, <1>2, <1>5, <2>1, Moved
<1> QED
  BY <1>5, <1>6

LEMMA HeldCollected ==
    ASSUME TasksInv, NEW c \in Channel, NEW t \in Task, Keep(t, c)
    PROVE  /\ Held' = [Held EXCEPT ![c] = Tail(@), ![t] = @ \o <<Head(chan[c])>>]
           /\ chan[c] # << >> /\ c # t
<1>1. /\ DOMAIN chan = Channel /\ DOMAIN kept = Task /\ c \in Place /\ c # t /\ t \in Place
      /\ t \notin Channel /\ kept[t] \in Seq(Message) /\ c \notin Task
  BY PlaceFacts DEF TasksInv, WakeInv, TypeOK, Place
<1>2. Head(chan[c]) \in Message
  BY HeadAndTail DEF TasksInv, WakeInv, TypeOK, Keep
<1>3. Append(kept[t], Head(chan[c])) = kept[t] \o <<Head(chan[c])>>
  BY <1>1, <1>2, Appended
<1>4. /\ chan' = [chan EXCEPT ![c] = Tail(@)] /\ chan[c] # << >>
      /\ kept' = [kept EXCEPT ![t] = kept[t] \o <<Head(chan[c])>>]
  BY <1>1, <1>3 DEF Keep
<1>5. \A p \in Place : Held'[p] = [Held EXCEPT ![c] = Tail(@), ![t] = @ \o <<Head(chan[c])>>][p]
  BY <1>1, <1>4 DEF Held, Place
<1> QED
  BY <1>1, <1>4, <1>5 DEF Held

\* What a task hands on stands for the same as before.
LEMMA HandedToken ==
    ASSUME NEW w \in Ways, NEW m \in Carried(w[1]), HandedOn(w[1], m) \in Carried(w[2]),
           w[1] = "networkRouter" => m.kind # "DoNoting"
    PROVE  Token(w[2], HandedOn(w[1], m)) = Token(w[1], m)
<1>1. m \in Message
  BY WayFacts, CarriesMessages DEF Carried
<1>2. CASE w[1] \in {"v4", "v6", "tun"}
  <2>1. w[2] \in {"networkSocket", "networkDevice"}
    BY <1>2 DEF Ways
  <2>2. HandedOn(w[1], m) = m
    BY <1>2 DEF HandedOn
  <2> QED
    BY <1>2, <2>1, <2>2 DEF Token, Pending
<1>3. CASE w[1] = "networkSocket"
  <2>1. w[2] = "routerRx" /\ HandedOn(w[1], m) = m
    BY <1>3 DEF Ways, HandedOn
  <2>2. m.kind \notin Unroutable
    BY <1>3 DEF Carried, Carries, Plain, ReadKinds, Malformed, Unroutable
  <2> QED
    BY <1>3, <2>1, <2>2 DEF Token, Pending
<1>4. CASE w[1] = "networkDevice"
  <2>1. w[2] = "routerRx" /\ HandedOn(w[1], m) = Msg("InterfaceRead", m.id)
    BY <1>4 DEF Ways, HandedOn
  <2>2. m.kind = "Package"
    BY <1>4 DEF Carried, Carries, Plain
  <2>3. Msg("InterfaceRead", m.id).kind = "InterfaceRead" /\ Msg("InterfaceRead", m.id).id = m.id
    BY DEF Msg
  <2>4. Token("routerRx", Msg("InterfaceRead", m.id)) = Input("Package", m.id)
    BY <2>3 DEF Token, Pending, Unroutable
  <2>5. Token("networkDevice", m) = Input("Package", m.id)
    BY <2>2 DEF Token, Pending
  <2> QED
    BY <1>4, <2>1, <2>4, <2>5
<1>5. CASE w[1] = "networkRouter"
  <2>1. HandedOn(w[1], m) = m /\ w[2] \in {"deviceRx", "socketRx", "routerRx"}
    BY <1>5 DEF Ways, HandedOn
  <2>2. m.kind \in Unroutable
    BY <1>1, <1>5, OfTheRouter DEF Unroutable
  <2> QED
    BY <1>5, <2>1, <2>2 DEF Token, Pending
<1> QED
  BY <1>2, <1>3, <1>4, <1>5 DEF Ways

-----------------------------------------------------------------------------
(***************************************************************************)
(* Each effect is a step of the service, or none, and keeps the invariant. *)
(***************************************************************************)
Served == ServiceInv' /\ [Service!ServiceNext]_(Service!serviceVars)

\* Nothing but the places changes.
LEMMA SameServed ==
    ASSUME TasksInv, TasksInv', ServiceInv, Once(Held'), Tokens(Held') = Tokens(Held),
           UNCHANGED <<inputs, out, dead>>
    PROVE  Served
<1>1. Undecided' = Undecided /\ Unsent' = Unsent
  BY HeldBothTimes DEF ServiceHeld
<1>2. ServiceInv'
  BY DEF ServiceInv
<1> QED
  BY <1>1, <1>2 DEF Served, Service!serviceVars

LEMMA HandedServed ==
    ASSUME TasksInv, TasksInv', ServiceInv, Handed
    PROVE  Served /\ Undecided' = Undecided
<1>1. PICK w \in Ways :
          /\ Passed(Reader[w[1]], w[1], w[2], <<HandedOn(w[1], Head(chan[w[1]]))>>)
          /\ HandedOn(w[1], Head(chan[w[1]])) \in Carried(w[2])
          /\ w[1] = "networkRouter" => Head(chan[w[1]]).kind # "DoNoting"
  BY DEF Handed
<1> DEFINE c == w[1]
           d == w[2]
           m == Head(chan[c])
           n == HandedOn(c, m)
<1>2. c \in Channel /\ d \in Channel /\ c # d
  BY WayFacts
<1>3. Held' = [Held EXCEPT ![c] = Tail(@), ![d] = @ \o <<n>>] /\ chan[c] # << >>
  BY <1>1, <1>2, HeldPassed
<1>4. m \in Carried(c)
  BY <1>2, <1>3, FirstIsCarried
<1>5. Token(d, n) = Token(c, m)
  BY <1>1, <1>4, HandedToken
<1>6. <<n>> \in Seq(Message)
  <2>1. n \in Message
    BY <1>1, <1>2, CarriesMessages DEF Carried
  <2> QED
    BY <2>1
<1>7. Single(d, <<n>>) /\ TokenSet(d, <<n>>) = {Token(c, m)}
  BY <1>5, TokenSetFacts
<1>8. d \in Place /\ TokenSet(d, <<n>>) \cap (Tokens(Held) \ {Token(c, m)}) = {}
  BY <1>2, <1>7 DEF Place
<1>9. /\ Once(Held') /\ Token(c, m) \in Tokens(Held)
      /\ Tokens(Held') = (Tokens(Held) \ {Token(c, m)}) \cup TokenSet(d, <<n>>)
  BY <1>2, <1>3, <1>6, <1>7, <1>8, PassedTokens
<1>10. Tokens(Held') = Tokens(Held)
  BY <1>7, <1>9
<1>11. UNCHANGED <<inputs, out, dead>>
  BY <1>1 DEF Passed
<1>12. Undecided' = Undecided
  BY <1>10, HeldBothTimes DEF ServiceHeld
<1> QED
  BY <1>9, <1>10, <1>11, <1>12, SameServed

LEMMA CollectedServed ==
    ASSUME TasksInv, TasksInv', ServiceInv, Collected
    PROVE  Served
<1>1. PICK c \in {"deviceRx", "socketRx"} : Keep(Reader[c], c)
  BY DEF Collected, Collect, Reader
<1> DEFINE t == Reader[c]
           m == Head(chan[c])
<1>2. c \in Channel /\ t \in Task /\ t \in Place
  BY PlaceFacts, ChannelFacts DEF Place
<1>3. /\ Held' = [Held EXCEPT ![c] = Tail(@), ![t] = @ \o <<m>>]
      /\ chan[c] # << >> /\ c # t
  BY <1>1, <1>2, HeldCollected
<1>4. Token(t, m) = m /\ Token(c, m) = m
  <2>1. ~Pending(t, m) /\ ~Pending(c, m)
    BY <1>2, PlaceFacts DEF Pending
  <2> QED
    BY <2>1 DEF Token
<1>5. m \in Message
  BY <1>2, <1>3, FirstIsCarried, CarriesMessages
<1>6. <<m>> \in Seq(Message)
  BY <1>5
<1>7. Single(t, <<m>>) /\ TokenSet(t, <<m>>) = {Token(c, m)}
  <2>1. Single(t, <<m>>) /\ TokenSet(t, <<m>>) = {Token(t, m)}
    BY TokenSetFacts
  <2> QED
    BY <1>4, <2>1
<1>8. TokenSet(t, <<m>>) \cap (Tokens(Held) \ {Token(c, m)}) = {}
  BY <1>7
<1>9. /\ Once(Held') /\ Token(c, m) \in Tokens(Held)
      /\ Tokens(Held') = (Tokens(Held) \ {Token(c, m)}) \cup TokenSet(t, <<m>>)
  BY <1>2, <1>3, <1>6, <1>7, <1>8, PassedTokens
<1>10. Tokens(Held') = Tokens(Held)
  BY <1>7, <1>9
<1>11. UNCHANGED <<inputs, out, dead>>
  BY <1>1 DEF Keep
<1> QED
  BY <1>9, <1>10, <1>11, SameServed

LEMMA WaitedServed ==
    ASSUME TasksInv, TasksInv', ServiceInv, Waited
    PROVE  Served
<1>1. UNCHANGED <<inputs, out, dead, chan>>
  BY DEF Waited, Exhausted, BeginPoll, Spawn, WriteBlocked, WroteAll, Clog, Unclog
<1>2. CASE \E t \in {"device", "socket"} : WriteBlocked(t)
  <2>1. PICK t \in {"device", "socket"} : WriteBlocked(t)
    BY <1>2
  <2>2. /\ kept[t] # << >> /\ kept[t] \in Seq(Message) /\ t \in Task
        /\ kept' = [kept EXCEPT ![t] = Append(Tail(kept[t]), Head(kept[t]))]
    BY <2>1 DEF WriteBlocked, Task, TasksInv, WakeInv, TypeOK
  <2>3. t \in Place /\ t \notin Channel
    BY <2>2, PlaceFacts DEF Place
  <2>4. Held[t] = kept[t] /\ Held'[t] = Append(Tail(kept[t]), Head(kept[t]))
    BY <2>2, <2>3 DEF Held, TasksInv, WakeInv, TypeOK
  <2>5. \A p \in Place : p # t => Held'[p] = Held[p]
    BY <1>1, <2>2 DEF Held, TasksInv, WakeInv, TypeOK, Place
  <2>6. Single(t, Held'[t]) /\ TokenSet(t, Held'[t]) = TokenSet(t, Held[t])
    BY <2>2, <2>3, <2>4, SingleRotated DEF ServiceInv, Once
  <2>7. \A p \in Place : Single(p, Held'[p]) /\ TokenSet(p, Held'[p]) = TokenSet(p, Held[p])
    BY <2>5, <2>6 DEF ServiceInv, Once
  <2>8. Once(Held') /\ Tokens(Held') = Tokens(Held)
    BY <2>7 DEF ServiceInv, Once, Tokens
  <2> QED
    BY <1>1, <2>8, SameServed
<1>3. CASE ~\E t \in {"device", "socket"} : WriteBlocked(t)
  <2>1. kept' = kept
    BY <1>3 DEF Waited, Exhausted, BeginPoll, Spawn, WroteAll, Clog, Unclog
  <2>2. Held' = Held
    BY <1>1, <2>1 DEF Held
  <2> QED
    BY <1>1, <2>2, SameServed DEF ServiceInv
<1> QED
  BY <1>2, <1>3

\* The router's answers are as many things as they are messages.
LEMMA RoutedTokens ==
    ASSUME NEW m \in Message, m.kind \in ReadKinds \cup {"InterfaceRead"}, m.via = "none", m.nr = 0,
           NEW ms \in Routed(m), ms \in Seq(Message)
    PROVE  /\ \A y \in ToSet(ms) : y.id = m.id /\ y.via # "input"
           /\ Single("networkRouter", ms) /\ TokenSet("networkRouter", ms) = ToSet(ms)
           /\ ToSet(ms) \in AnswersTo(Token("routerRx", m).kind, m.id)
<1>1. \A y : Token("networkRouter", y) = y
  BY DEF Token, Pending
<1>2. TokenSet("networkRouter", ms) = ToSet(ms)
  BY <1>1 DEF TokenSet
<1>3. \A y \in ToSet(ms) : y.via # "input"
  <2>1. ToSet(ms) \subseteq Message
    BY Elements
  <2> QED
    BY <2>1 DEF Message, Kernel
<1> DEFINE note == Msg("DoNoting", m.id)
           share(via) == Write("PackageShareWrite", m.id, 1, via)
           packet == Write("InterfaceWrite", m.id, 1, "tun")
           pong == Write("PingPongWrite", m.id, 1, "v4")
<1>4. \/ \E y : ms = <<y>> /\ y.id = m.id
      \/ ms = << >>
      \/ \E f : ms = Announced(m.id, f)
  <2>1. CASE m.kind \in {"PackageShareRead", "InterfaceRead"}
    <3>1. ms \in {<<share(via)>> : via \in {"v4", "v6"}} \cup {<<packet>>, <<note>>}
      BY <2>1 DEF Routed
    <3> QED
      BY <3>1 DEF Write, Msg
  <2>2. CASE m.kind \in {"AddNodeRead", "BadNodeRead"}
    <3>1. \E f : ms = Announced(m.id, f)
      BY <2>2 DEF Routed
    <3> QED
      BY <3>1
  <2>3. CASE m.kind \in {"DelNodeRead", "DoNoting"}
    <3>1. ms = <<note>>
      BY <2>3 DEF Routed
    <3> QED
      BY <3>1 DEF Msg
  <2>4. CASE m.kind = "PingPongRead"
    <3>1. ms = <<pong>>
      BY <2>4 DEF Routed
    <3> QED
      BY <3>1 DEF Write
  <2>5. CASE m.kind = "BadPackageRead"
    BY <2>5 DEF Routed
  <2> QED
    BY <2>1, <2>2, <2>3, <2>4, <2>5 DEF ReadKinds, Malformed
<1>5. (\A y \in ToSet(ms) : y.id = m.id) /\ Single("networkRouter", ms)
  <2>1. CASE \E y : ms = <<y>> /\ y.id = m.id
    BY <2>1 DEF ToSet, Single
  <2>2. CASE ms = << >>
    BY <2>2 DEF ToSet, Single
  <2>3. ASSUME NEW f, ms = Announced(m.id, f)
        PROVE  (\A y \in ToSet(ms) : y.id = m.id) /\ Single("networkRouter", ms)
    <3>1. \A i \in DOMAIN ms : ms[i].id = m.id /\ ms[i].nr = i
      BY <2>3 DEF Announced, Write
    <3>2. \A i, k \in DOMAIN ms : ms[i] = ms[k] => i = k
      <4> TAKE i, k \in DOMAIN ms
      <4> HAVE ms[i] = ms[k]
      <4> QED
        BY <3>1
    <3> QED
      BY <1>1, <3>1, <3>2 DEF ToSet, Single
  <2> QED
    BY <1>4, <2>1, <2>2, <2>3
<1>6. ToSet(ms) \in AnswersTo(Token("routerRx", m).kind, m.id)
  <2> DEFINE kind == Token("routerRx", m).kind
  <2>1. /\ m.kind \notin Unroutable
        /\ kind = IF m.kind = "InterfaceRead" THEN "Package" ELSE m.kind
    BY DEF Token, Pending, Input, Unroutable, ReadKinds, Malformed
  <2>2. kind # "Error" /\ m.kind = IF kind = "Package" THEN "InterfaceRead" ELSE kind
    BY <2>1 DEF ReadKinds, Malformed
  <2>3. m = Msg(m.kind, m.id)
    BY DEF Message, Msg
  <2>4. ms \in Routed(Msg(IF kind = "Package" THEN "InterfaceRead" ELSE kind, m.id))
    BY <2>2, <2>3
  <2> HIDE DEF kind
  <2>5. ToSet(ms) \in AnswersTo(kind, m.id)
    BY <2>2, <2>4 DEF AnswersTo
  <2> QED
    BY <2>5 DEF kind
<1> QED
  BY <1>2, <1>3, <1>5, <1>6

LEMMA FirstHeld ==
    ASSUME TasksInv, ServiceInv, NEW c \in Channel, chan[c] # << >>
    PROVE  /\ Token(c, Head(chan[c])) \in Tokens(Held)
           /\ Head(chan[c]) \in Message
           /\ OfOneId(Tokens(Held)) /\ Known(Tokens(Held), inputs)
<1>1. Held \in Lists /\ Held[c] = chan[c] /\ c \in Place
  BY HeldFacts DEF TasksInv, WakeInv, Place
<1>2. chan[c] \in Seq(Message) /\ Single(c, chan[c])
  BY <1>1 DEF TasksInv, WakeInv, TypeOK, ServiceInv, Once
<1>3. Token(c, Head(chan[c])) \in TokenSet(c, Held[c]) /\ Head(chan[c]) \in Message
  BY <1>1, <1>2, SingleTail, HeadAndTail
<1>4. OfOneId(Tokens(Held)) /\ Known(Tokens(Held), inputs)
  BY <1>1, InputsById DEF ServiceInv
<1> QED
  BY <1>1, <1>3, <1>4 DEF Tokens

\* A task ends, and what it had is lost.
LEMMA DiedServed ==
    ASSUME TasksInv, TasksInv', ServiceInv, NEW t \in Task, Die(t)
    PROVE  Served
<1>1. Held \in Lists /\ Held' \in Lists
  BY HeldBothTimes DEF ServiceHeld
<1>2. \A p \in Place : Held'[p] = Held[p] \/ Held'[p] = << >>
  BY DEF Die, Fall, Held, Place, TasksInv, WakeInv, TypeOK
<1>3. \A p \in Place : Single(p, Held'[p]) /\ TokenSet(p, Held'[p]) \subseteq TokenSet(p, Held[p])
  BY <1>2, TokenSetFacts DEF ServiceInv, Once
<1>4. Once(Held') /\ Tokens(Held') \subseteq Tokens(Held)
  BY <1>1, <1>3, Shrunk DEF ServiceInv
<1>5. Undecided' \subseteq Undecided /\ Unsent' \subseteq Unsent
  BY <1>4, HeldBothTimes DEF ServiceHeld, TodoOf, OwedOf
<1>6. dead' # {} /\ inputs' = inputs /\ out' = out
  BY DEF Die, Fall
<1>7. Service!Lose
  BY <1>5, <1>6 DEF Service!Lose
<1>8. ServiceInv'
  BY <1>4, <1>6, KnownLess DEF ServiceInv
<1> QED
  BY <1>7, <1>8 DEF Served, Service!ServiceNext

\* The first message of p goes and ms come to q, and some places lose all.
LEMMA FallenTokens ==
    ASSUME NEW h \in Lists, Once(h), NEW p \in Place, NEW q \in Place, p # q, h[p] # << >>,
           NEW ms \in Seq(Message), Single(q, ms),
           TokenSet(q, ms) \cap (Tokens(h) \ {Token(p, Head(h[p]))}) = {},
           NEW g \in Lists,
           \A r \in Place : \/ g[r] = << >>
                            \/ r # p /\ g[r] = IF r = q THEN h[q] \o ms ELSE h[r]
    PROVE  Once(g) /\ Tokens(g) \subseteq (Tokens(h) \ {Token(p, Head(h[p]))}) \cup TokenSet(q, ms)
<1> DEFINE k == [h EXCEPT ![p] = Tail(@), ![q] = @ \o ms]
<1>1. /\ k \in Lists /\ Once(k)
      /\ Tokens(k) = (Tokens(h) \ {Token(p, Head(h[p]))}) \cup TokenSet(q, ms)
  <2>1. Moves(h, k, p, q, ms)
    BY DEF Moves
  <2> HIDE DEF k
  <2> QED
    BY <2>1, Moved
<1>2. \A r \in Place : r # p => k[r] = IF r = q THEN h[q] \o ms ELSE h[r]
  BY DEF Lists
<1> HIDE DEF k
<1>3. \A r \in Place : g[r] = << >> \/ g[r] = k[r]
  BY <1>2
<1>4. \A r \in Place : Single(r, g[r]) /\ TokenSet(r, g[r]) \subseteq TokenSet(r, k[r])
  BY <1>1, <1>3, TokenSetFacts DEF Once
<1> QED
  BY <1>1, <1>4, Shrunk

\* The router panics on an input, after some of its answers.
LEMMA BrokenOffServed ==
    ASSUME TasksInv, TasksInv', ServiceInv, BrokenOff
    PROVE  Served
<1> DEFINE m == Head(chan["routerRx"])
           x == Token("routerRx", m)
           T == Tokens(Held)
<1>1. PICK ms \in Routed(m) : Fall("router", [chan EXCEPT !["networkRouter"] = @ \o ms])
  BY DEF BrokenOff
<1>2. /\ "routerRx" \in Channel /\ "networkRouter" \in Channel
      /\ "routerRx" \in Place /\ "networkRouter" \in Place
      /\ Reader["routerRx"] = "router" /\ chan["routerRx"] # << >> /\ m.kind \notin Unroutable
  BY DEF Channel, Reader, Place, BrokenOff
<1>3. m \in Carried("routerRx") /\ m \in Message
  BY <1>2, FirstIsCarried, FirstHeld
<1>4. m.kind \in ReadKinds \cup {"InterfaceRead"} /\ m.nr = 0 /\ m.via = "none"
  BY <1>2, <1>3, OfTheRouter DEF Unroutable
<1>5. ms \in Seq(Message)
  BY <1>1, <1>2, <1>3, RoutedIsCarried, CarriedMessages
<1>6. /\ \A y \in ToSet(ms) : y.id = m.id /\ y.via # "input"
      /\ Single("networkRouter", ms) /\ TokenSet("networkRouter", ms) = ToSet(ms)
      /\ ToSet(ms) \in AnswersTo(x.kind, m.id)
  BY <1>1, <1>3, <1>4, <1>5, RoutedTokens
<1>7. x.id = m.id /\ x.via = "input"
  BY <1>2, <1>3, TokenVia DEF Pending
<1>8. x \in T /\ OfOneId(T) /\ Known(T, inputs)
  BY <1>2, FirstHeld
<1> DEFINE A == ToSet(ms)
<1>9. /\ A \cap (T \ {x}) = {}
      /\ Known((T \ {x}) \cup A, inputs)
      /\ TodoOf((T \ {x}) \cup A) = TodoOf(T) \ {x.id}
      /\ OwedOf((T \ {x}) \cup A) = OwedOf(T) \cup A
  <2>1. \A y \in A : y.via # "input" /\ y.id = x.id
    BY <1>6, <1>7
  <2>2. x \in T /\ OfOneId(T) /\ Known(T, inputs) /\ x.via = "input"
    BY <1>7, <1>8
  <2> HIDE DEF x, T, A
  <2> QED
    BY <2>1, <2>2, Replaced
<1>10. ServiceHeld /\ ServiceHeld'
  BY HeldBothTimes
<1>11. Once(Held') /\ Tokens(Held') \subseteq (T \ {x}) \cup A
  <2> DEFINE h == Held
             g == Held'
             p == "routerRx"
             q == "networkRouter"
  <2>1. h \in Lists /\ g \in Lists /\ Once(h) /\ h[p] = chan[p] /\ h[q] = chan[q]
    BY <1>2, <1>10, HeldFacts DEF ServiceHeld, ServiceInv, TasksInv, WakeInv
  <2>2. \A r \in Place : \/ g[r] = << >>
                         \/ r # p /\ g[r] = IF r = q THEN h[q] \o ms ELSE h[r]
    BY <1>1, <1>2, PlaceFacts DEF Fall, Held, Place, TasksInv, WakeInv, TypeOK
  <2>3. /\ p \in Place /\ q \in Place /\ p # q /\ h[p] # << >>
        /\ Token(p, Head(h[p])) = x /\ Single(q, ms) /\ TokenSet(q, ms) = A
    BY <1>2, <1>6, <2>1
  <2>4. TokenSet(q, ms) \cap (Tokens(h) \ {Token(p, Head(h[p]))}) = {}
    BY <1>9, <2>3
  <2>5. /\ Once(g)
        /\ Tokens(g) \subseteq (Tokens(h) \ {Token(p, Head(h[p]))}) \cup TokenSet(q, ms)
    <3> HIDE DEF h, g, p, q, x, T, A
    <3> QED
      BY <1>5, <2>1, <2>2, <2>3, <2>4, FallenTokens
  <2> QED
    BY <2>3, <2>5
<1>12. /\ Undecided' \subseteq Undecided \ {m.id} /\ Unsent' \subseteq Unsent \cup A
       /\ m.id \in Undecided
  <2>1. Undecided = TodoOf(T) /\ Unsent = OwedOf(T)
    BY <1>10 DEF ServiceHeld
  <2>2. Undecided' = TodoOf(Tokens(Held')) /\ Unsent' = OwedOf(Tokens(Held'))
    BY <1>10 DEF ServiceHeld
  <2>3. \A S, R : S \subseteq R => TodoOf(S) \subseteq TodoOf(R) /\ OwedOf(S) \subseteq OwedOf(R)
    BY DEF TodoOf, OwedOf
  <2>4. x.id \in TodoOf(T)
    BY <1>7, <1>8 DEF TodoOf
  <2> HIDE DEF x, T, A
  <2> QED
    BY <1>7, <1>9, <1>11, <2>1, <2>2, <2>3, <2>4
<1>13. A \in AnswersTo(inputs[m.id], m.id)
  BY <1>6, <1>7, <1>8 DEF Known
<1>14. dead' # {} /\ UNCHANGED <<inputs, out>>
  BY <1>1 DEF Fall
<1>15. Service!Lose
  BY <1>12, <1>13, <1>14 DEF Service!Lose
<1>16. ServiceInv'
  BY <1>9, <1>11, <1>14, KnownLess DEF ServiceInv
<1> QED
  BY <1>15, <1>16 DEF Served, Service!ServiceNext

LEMMA EndedServed ==
    ASSUME TasksInv, TasksInv', ServiceInv, Ended
    PROVE  Served
BY DiedServed, BrokenOffServed DEF Ended

LEMMA AnsweredServed ==
    ASSUME TasksInv, TasksInv', ServiceInv, Answered
    PROVE  Served /\ Undecided' \subseteq Undecided /\ Undecided' # Undecided
<1> DEFINE m == Head(chan["routerRx"])
           x == Token("routerRx", m)
           T == Tokens(Held)
<1>1. PICK ms \in Routed(m) : /\ m.kind \notin Unroutable
                              /\ Passed("router", "routerRx", "networkRouter", ms)
  BY DEF Answered
<1>2. /\ "routerRx" \in Channel /\ "networkRouter" \in Channel
      /\ Reader["routerRx"] = "router" /\ "networkRouter" \in Place
  BY DEF Channel, Reader, Place
<1>3. /\ Held' = [Held EXCEPT !["routerRx"] = Tail(@), !["networkRouter"] = @ \o ms]
      /\ chan["routerRx"] # << >> /\ UNCHANGED <<inputs, out, dead>>
  <2>1. Passed(Reader["routerRx"], "routerRx", "networkRouter", ms)
    BY <1>1, <1>2
  <2>2. UNCHANGED <<inputs, out, dead>>
    BY <2>1 DEF Passed
  <2>3. /\ Held' = [Held EXCEPT !["routerRx"] = Tail(@), !["networkRouter"] = @ \o ms]
        /\ chan["routerRx"] # << >>
    <3> DEFINE c == "routerRx"
               d == "networkRouter"
    <3>1. c \in Channel /\ d \in Channel /\ c # d /\ Passed(Reader[c], c, d, ms)
      BY <1>2, <2>1
    <3>2. Held' = [Held EXCEPT ![c] = Tail(@), ![d] = @ \o ms] /\ chan[c] # << >>
      <4> HIDE DEF c, d
      <4> QED
        BY <3>1, HeldPassed
    <3> QED
      BY <3>2
  <2> QED
    BY <2>2, <2>3
<1>4. m \in Carried("routerRx") /\ m \in Message
  BY <1>2, <1>3, FirstIsCarried, FirstHeld
<1>5. m.kind \in ReadKinds \cup {"InterfaceRead"} /\ m.nr = 0 /\ m.via = "none"
  BY <1>1, <1>4, OfTheRouter DEF Unroutable
<1>6. ms \in Seq(Message)
  BY <1>1, <1>2, <1>4, RoutedIsCarried, CarriedMessages
<1>7. /\ \A y \in ToSet(ms) : y.id = m.id /\ y.via # "input"
      /\ Single("networkRouter", ms) /\ TokenSet("networkRouter", ms) = ToSet(ms)
      /\ ToSet(ms) \in AnswersTo(x.kind, m.id)
  BY <1>1, <1>4, <1>5, <1>6, RoutedTokens
<1>8. x.id = m.id /\ x.via = "input"
  BY <1>1, <1>4, TokenVia DEF Pending
<1>9. x \in T /\ OfOneId(T) /\ Known(T, inputs)
  BY <1>2, <1>3, FirstHeld
<1> DEFINE A == ToSet(ms)
<1>10. /\ A \cap (T \ {x}) = {}
       /\ Known((T \ {x}) \cup A, inputs)
       /\ TodoOf((T \ {x}) \cup A) = TodoOf(T) \ {x.id}
       /\ OwedOf((T \ {x}) \cup A) = OwedOf(T) \cup A
  <2>1. \A y \in A : y.via # "input" /\ y.id = x.id
    BY <1>7, <1>8
  <2>2. x \in T /\ OfOneId(T) /\ Known(T, inputs) /\ x.via = "input"
    BY <1>8, <1>9
  <2> HIDE DEF x, T, A
  <2> QED
    BY <2>1, <2>2, Replaced
<1>11. Once(Held') /\ Tokens(Held') = (T \ {x}) \cup A
  BY <1>2, <1>3, <1>6, <1>7, <1>10, PassedTokens
<1>12. /\ Undecided' = Undecided \ {m.id} /\ Unsent' = Unsent \cup A
       /\ m.id \in Undecided
  BY <1>8, <1>9, <1>10, <1>11, HeldBothTimes DEF ServiceHeld, TodoOf
<1>13. A \in AnswersTo(inputs[m.id], m.id)
  BY <1>7, <1>8, <1>9 DEF Known
<1>14. Service!Decide(m.id)
  BY <1>3, <1>12, <1>13 DEF Service!Decide
<1>15. ServiceInv'
  BY <1>3, <1>10, <1>11 DEF ServiceInv
<1> QED
  BY <1>12, <1>14, <1>15 DEF Served, Service!ServiceNext

\* An error of a receive is discarded; a decision to do nothing is delivered.
LEMMA FinishedServed ==
    ASSUME TasksInv, TasksInv', ServiceInv, Finished
    PROVE  Served
<1>1. PICK c \in {"v4", "v6", "networkRouter"} :
          Dropped(c) /\ Head(chan[c]).kind = IF c = "networkRouter" THEN "DoNoting" ELSE "Error"
  BY DEF Finished
<1> DEFINE m == Head(chan[c])
           x == Token(c, m)
           T == Tokens(Held)
<1>2. /\ c \in Channel /\ c \in Place /\ chan[c] # << >>
      /\ chan' = [chan EXCEPT ![c] = Tail(@)] /\ out' = out \cup {m}
      /\ UNCHANGED <<inputs, dead, kept>>
  BY <1>1, PlaceFacts DEF Dropped, Place
<1>3. Held[c] = chan[c] /\ Held'[c] = Tail(chan[c]) /\ \A q \in Place \ {c} : Held'[q] = Held[q]
  BY <1>2 DEF Held, TasksInv, WakeInv, TypeOK
<1>4. Once(Held') /\ Tokens(Held') = T \ {x}
  BY <1>2, <1>3, GoneTokens
<1>5. x \in T /\ m \in Message /\ OfOneId(T) /\ Known(T, inputs)
  BY <1>2, FirstHeld
<1>6. ServiceInv'
  BY <1>2, <1>4, <1>5, KnownLess DEF ServiceInv
<1>7. ServiceHeld /\ ServiceHeld'
  BY HeldBothTimes
<1>8. CASE c = "networkRouter"
  <2>1. x = m /\ x.via # "input"
    BY <1>5, <1>8, TokenVia DEF Pending
  <2>2. x \in OwedOf(T) /\ TodoOf(T \ {x}) = TodoOf(T) /\ OwedOf(T \ {x}) = OwedOf(T) \ {x}
    <3> HIDE DEF x, T
    <3> QED
      BY <1>5, <2>1, Left
  <2>3. m \in Unsent /\ Unsent' = Unsent \ {m} /\ Undecided' = Undecided
    BY <1>4, <1>7, <2>1, <2>2 DEF ServiceHeld
  <2>4. Service!Deliver(m)
    BY <1>2, <2>3 DEF Service!Deliver, SentOrRefused
  <2> QED
    BY <1>6, <2>3, <2>4 DEF Served, Service!ServiceNext
<1>9. CASE c \in {"v4", "v6"}
  <2>1. Pending(c, m) /\ m.kind = "Error" /\ m.nr = 0 /\ m.via = "none"
    <3>1. m \in Carries[c]
      BY <1>2, FirstIsCarried
    <3> QED
      BY <1>1, <1>9, <3>1 DEF Pending, Carries, Plain
  <2>2. x.via = "input" /\ x.id = m.id /\ x.kind = "Error" /\ m = Msg("Error", m.id)
    BY <1>5, <2>1, TokenVia DEF Token, Input, Msg, Message
  <2>3. TodoOf(T \ {x}) = TodoOf(T) \ {x.id} /\ OwedOf(T \ {x}) = OwedOf(T)
    <3> HIDE DEF x, T
    <3> DEFINE A == {}
    <3>1. \A y \in A : y.via # "input" /\ y.id = x.id
      OBVIOUS
    <3> HIDE DEF A
    <3>2. /\ TodoOf((T \ {x}) \cup A) = TodoOf(T) \ {x.id}
          /\ OwedOf((T \ {x}) \cup A) = OwedOf(T) \cup A
      BY <1>5, <2>2, <3>1, Replaced
    <3> QED
      BY <3>2 DEF A
  <2>4. m.id \in Undecided /\ Undecided' = Undecided \ {m.id} /\ Unsent' = Unsent
    BY <1>4, <1>5, <1>7, <2>2, <2>3 DEF ServiceHeld, TodoOf
  <2>5. m \in EndedBy(inputs[m.id], m.id)
    BY <1>5, <2>2 DEF Known, EndedBy
  <2>6. Service!Discard(m.id)
    BY <1>2, <2>4, <2>5 DEF Service!Discard
  <2> QED
    BY <1>6, <2>4, <2>6 DEF Served, Service!ServiceNext
<1> QED
  BY <1>8, <1>9

LEMMA WrittenServed ==
    ASSUME TasksInv, TasksInv', ServiceInv, Written
    PROVE  Served
<1>1. PICK t \in {"device", "socket"} : TakenOff(t)
  BY DEF Written
<1> DEFINE m == Head(kept[t])
           T == Tokens(Held)
<1>2. /\ t \in Task /\ t \in Place /\ t \notin Channel /\ kept[t] # << >> /\ kept[t] \in Seq(Message)
      /\ kept' = [kept EXCEPT ![t] = Tail(@)] /\ \E x \in SentOrRefused(m) : out' = out \cup {x}
      /\ UNCHANGED <<inputs, dead, chan>>
  BY <1>1, PlaceFacts DEF TakenOff, Task, Place, TasksInv, WakeInv, TypeOK
<1>3. Held[t] = kept[t] /\ Held'[t] = Tail(kept[t]) /\ \A q \in Place \ {t} : Held'[q] = Held[q]
  BY <1>2 DEF Held, TasksInv, WakeInv, TypeOK, Place
<1>4. ~Pending(t, m) /\ m \in Message
  BY <1>2, HeadAndTail, PlaceFacts DEF Pending
<1>5. Token(t, m) = m /\ m.via # "input"
  BY <1>4, TokenVia
<1>6. Once(Held') /\ m \in T /\ Tokens(Held') = T \ {m}
  BY <1>2, <1>3, <1>5, GoneTokens
<1>7. m \in OwedOf(T) /\ TodoOf(T \ {m}) = TodoOf(T) /\ OwedOf(T \ {m}) = OwedOf(T) \ {m}
  BY <1>5, <1>6, Left
<1>8. m \in Unsent /\ Unsent' = Unsent \ {m} /\ Undecided' = Undecided
  BY <1>6, <1>7, HeldBothTimes DEF ServiceHeld
<1>9. Service!Deliver(m)
  BY <1>2, <1>8 DEF Service!Deliver
<1>10. ServiceInv'
  BY <1>2, <1>6, KnownLess DEF ServiceInv
<1> QED
  BY <1>8, <1>9, <1>10 DEF Served, Service!ServiceNext

LEMMA ArrivedServed ==
    ASSUME TasksInv, TasksInv', ServiceInv, Arrived
    PROVE  Served
<1>1. PICK c \in Kernel, kind \in MessageKinds :
          Arrive(c, kind) /\ Msg(kind, Len(inputs) + 1) \in Carries[c]
  BY DEF Arrived
<1> DEFINE n == Len(inputs) + 1
           m == Msg(kind, n)
           x == Input(kind, n)
           T == Tokens(Held)
<1>2. /\ c \in Channel /\ c \in Place /\ inputs \in Seq(MessageKinds) /\ chan[c] \in Seq(Message)
      /\ inputs' = Append(inputs, kind) /\ UNCHANGED <<out, dead, kept>>
      /\ chan' = [chan EXCEPT ![c] = @ \o <<m>>]
  BY <1>1, ChannelFacts DEF Arrive, TasksInv, WakeInv, TypeOK, Place
<1>3. m \in Message /\ m.kind = kind /\ m.id = n
  BY <1>2, MessageFields
<1>4. Token(c, m) = x
  <2>1. kind # "InterfaceRead" /\ Pending(c, m)
    BY <1>1, <1>3 DEF Carries, Plain, ReadKinds, Malformed, Pending, Kernel
  <2> QED
    BY <1>3, <2>1 DEF Token
<1>5. Comes(Held, Held', c, <<m>>)
  <2>1. \A p \in Place : Held'[p] = IF p = c THEN Held[c] \o <<m>> ELSE Held[p]
    BY <1>2 DEF Held, TasksInv, WakeInv, TypeOK
  <2> QED
    BY <1>2, <2>1 DEF Comes, Held
<1>6. /\ <<m>> \in Seq(Message) /\ Single(c, <<m>>) /\ TokenSet(c, <<m>>) = {x}
  <2>1. Single(c, <<m>>) /\ TokenSet(c, <<m>>) = {Token(c, m)}
    BY TokenSetFacts
  <2> QED
    BY <1>3, <1>4, <2>1
<1>7. Held \in Lists /\ Once(Held) /\ Known(T, inputs)
  BY HeldBothTimes DEF ServiceHeld, ServiceInv
<1>8. \A y \in T : y.id \in Int
  <2> SUFFICES ASSUME NEW y \in T PROVE y.id \in Int
    OBVIOUS
  <2>1. PICK p \in Place : y \in TokenSet(p, Held[p])
    BY DEF Tokens
  <2>2. PICK z \in ToSet(Held[p]) : y = Token(p, z)
    BY <2>1 DEF TokenSet
  <2>3. z \in Message
    BY <1>7, <2>2, Elements DEF Lists
  <2> QED
    BY <2>2, <2>3 DEF Token, Input, Message
<1>9. /\ x \notin T /\ Known(T \cup {x}, inputs')
      /\ TodoOf(T \cup {x}) = TodoOf(T) \cup {n} /\ OwedOf(T \cup {x}) = OwedOf(T)
  <2> DEFINE new == inputs'
  <2>1. /\ Known(T, inputs) /\ \A y \in T : y.id \in Int
        /\ Grows(inputs, new, kind, n, x)
    BY <1>2, <1>7, <1>8 DEF Grows
  <2> HIDE DEF T, x, n, new
  <2> QED
    BY <2>1, Accepted DEF new
<1>10. Once(Held') /\ Tokens(Held') = T \cup {x}
  <2> DEFINE h == Held
             g == Held'
             ms == <<m>>
  <2>1. /\ h \in Lists /\ Once(h) /\ c \in Place /\ ms \in Seq(Message) /\ Single(c, ms)
        /\ TokenSet(c, ms) \cap Tokens(h) = {} /\ Comes(h, g, c, ms) /\ TokenSet(c, ms) = {x}
    BY <1>2, <1>5, <1>6, <1>7, <1>9
  <2>2. Once(g) /\ Tokens(g) = Tokens(h) \cup TokenSet(c, ms)
    <3> HIDE DEF h, g, ms
    <3> QED
      BY <2>1, Joined
  <2> QED
    BY <2>1, <2>2
<1>11. Undecided' = Undecided \cup {n} /\ Unsent' = Unsent
  BY <1>9, <1>10, HeldBothTimes DEF ServiceHeld
<1>12. kind \in {i[2] : i \in UNION ToSet(Inputs)} /\ n = Len(inputs')
  <2>1. n \in 1 .. Len(Inputs) /\ <<c, kind>> \in Inputs[n] /\ n = Len(inputs')
    BY <1>1, <1>2, TasksAssumption DEF Arrive
  <2>2. <<c, kind>> \in UNION ToSet(Inputs) /\ <<c, kind>>[2] = kind
    BY <2>1, TasksAssumption DEF ToSet
  <2> QED
    BY <2>1, <2>2
<1>13. Service!Accept
  BY <1>2, <1>11, <1>12 DEF Service!Accept
<1>14. ServiceInv'
  BY <1>9, <1>10 DEF ServiceInv
<1> QED
  BY <1>13, <1>14 DEF Served, Service!ServiceNext

-----------------------------------------------------------------------------
(***************************************************************************)
(* The refinement.                                                         *)
(***************************************************************************)
LEMMA StepServed ==
    ASSUME TasksInv, TasksInv', ServiceInv, Next
    PROVE  Served
<1>1. Effect
  BY StepsHaveEffects
<1> QED
  BY <1>1, EndedServed, AnsweredServed, HandedServed, FinishedServed, CollectedServed,
     WaitedServed, WrittenServed, ArrivedServed DEF Effect

\* Before the first step the hellos are all there is.
LEMMA InitialServed ==
    ASSUME NEW hellos \in {<< >>, Greetings}, InitWith(hellos)
    PROVE  ServiceInv /\ Undecided = {} /\ Unsent = ToSet(hellos)
<1>1. TypeOK /\ hellos \in Seq(Carried("socketRx")) /\ "socketRx" \in Place
  <2>1. << >> \in Seq(Carried("socketRx"))
    OBVIOUS
  <2> QED
    BY <2>1, InitialInv, GreetingsCarried, PlaceFacts DEF TasksInv, WakeInv, Place
<1>2. \A p \in Place : Held[p] = IF p = "socketRx" THEN hellos ELSE << >>
  BY PlaceFacts DEF InitWith, Held, Place
<1>3. \A y : Token("socketRx", y) = y
  BY DEF Token, Pending
<1>4. TokenSet("socketRx", hellos) = ToSet(hellos)
  BY <1>3 DEF TokenSet
<1>5. Single("socketRx", hellos) /\ \A y \in ToSet(hellos) : y.via # "input" /\ y.id <= 0
  <2>1. CASE hellos = << >>
    BY <2>1 DEF Single, ToSet
  <2>2. CASE hellos = Greetings
    <3>1. DOMAIN hellos = 1 .. Len(Hellos) /\ Len(Hellos) \in Nat
      BY <2>2, TasksAssumption DEF Greetings
    <3>2. \A i \in DOMAIN hellos : hellos[i] = Write("AddNodeWrite", -i, 1, Hellos[i])
      BY <2>2 DEF Greetings
    <3>3. \A i \in DOMAIN hellos : hellos[i].id = -i /\ hellos[i].via = Hellos[i]
      BY <3>2 DEF Write
    <3>4. \A i \in DOMAIN hellos : Hellos[i] \in {"v4", "v6"} /\ i \in Nat
      BY <3>1, TasksAssumption
    <3>5. \A i, j \in DOMAIN hellos : hellos[i] = hellos[j] => i = j
      <4> SUFFICES ASSUME NEW i \in DOMAIN hellos, NEW j \in DOMAIN hellos, hellos[i] = hellos[j]
                   PROVE  i = j
        OBVIOUS
      <4>1. -i = -j /\ i \in Nat /\ j \in Nat
        BY <3>3, <3>4
      <4> QED
        BY <4>1
    <3>6. \A i \in DOMAIN hellos : hellos[i].via # "input" /\ hellos[i].id <= 0
      BY <3>3, <3>4
    <3> QED
      BY <1>3, <3>5, <3>6 DEF Single, ToSet
  <2> QED
    BY <2>1, <2>2
<1>6. /\ \A p \in Place : p # "socketRx" => TokenSet(p, Held[p]) = {} /\ Single(p, Held[p])
      /\ TokenSet("socketRx", Held["socketRx"]) = ToSet(hellos)
      /\ Single("socketRx", Held["socketRx"])
  BY <1>1, <1>2, <1>4, <1>5, TokenSetFacts
<1>7. Once(Held) /\ Tokens(Held) = ToSet(hellos)
  BY <1>1, <1>6 DEF Once, Tokens
<1>8. inputs = << >> /\ Len(inputs) = 0
  BY DEF InitWith
<1>9. Known(Tokens(Held), inputs)
  BY <1>5, <1>7, <1>8 DEF Known
<1>10. TodoOf(Tokens(Held)) = {} /\ OwedOf(Tokens(Held)) = ToSet(hellos)
  BY <1>5, <1>7 DEF TodoOf, OwedOf
<1> QED
  BY <1>1, <1>7, <1>9, <1>10, AllHeld DEF ServiceInv, ServiceHeld

LEMMA EmptyServed == InitWith(<< >>) => ServiceInv /\ Undecided = {} /\ Unsent = {}
<1>1. ToSet(<< >>) = {}
  BY DEF ToSet
<1> QED
  BY <1>1, InitialServed

\* The hellos are all there is.
HellosOwed == ServiceInv /\ Undecided = {} /\ Unsent = ToSet(Greetings)

LEMMA GreetedServed == InitWith(Greetings) => HellosOwed
BY InitialServed DEF HellosOwed

LEMMA SetupServed ==
    ASSUME StartInv, StartInv', ServiceInv, Setup
    PROVE  Served
<1>1. CASE UNCHANGED vars
  <2>1. UNCHANGED <<inputs, out, dead>> /\ Held' = Held
    BY <1>1 DEF vars, Held
  <2> QED
    BY <2>1, SameServed DEF StartInv, ServiceInv
<1>2. CASE ~UNCHANGED vars
  <2>1. QueueHellos /\ stage' = "running"
    BY <1>2 DEF Setup, ReadConfig, OpenInterface, RunIfup, BindSockets, QueueHellos, vars
  <2>2. InitWith(<< >>)
    BY <2>1 DEF QueueHellos, StartInv, SetupInv
  <2>3. chan' = [c \in Channel |-> IF c = "socketRx" THEN Greetings ELSE << >>]
    BY <2>1, <2>2 DEF QueueHellos, InitWith, Channel, Reader
  <2>4. InitWith(Greetings)'
    BY <2>1, <2>2, <2>3 DEF QueueHellos, InitWith, Greetings
  <2>5. ServiceInv' /\ Undecided' = {} /\ Unsent' = ToSet(Greetings)
    <3>1. HellosOwed'
      BY <2>4, GreetedServed, PTL
    <3> QED
      BY <3>1 DEF HellosOwed, Greetings
  <2>6. Undecided = {} /\ Unsent = {} /\ inputs = << >> /\ out = {}
    BY <2>2, EmptyServed DEF InitWith
  <2>7. UNCHANGED <<inputs, out, dead>>
    BY <2>1 DEF QueueHellos
  <2>8. Service!Greet
    BY <2>5, <2>6, <2>7 DEF Service!Greet
  <2> QED
    BY <2>5, <2>8 DEF Served, Service!ServiceNext
<1> QED
  BY <1>1, <1>2

LEMMA StartServed == StartInv /\ StartInv' /\ ServiceInv /\ [StartNext]_startVars => Served
<1> SUFFICES ASSUME StartInv, StartInv', ServiceInv, [StartNext]_startVars PROVE Served
  OBVIOUS
<1>1. CASE Setup
  BY <1>1, SetupServed
<1>2. CASE Run(Next)
  BY <1>2, StepServed DEF Run, StartInv
<1>3. CASE UNCHANGED startVars
  <2>1. UNCHANGED <<inputs, out, dead>> /\ Held' = Held
    BY <1>3 DEF startVars, vars, Held
  <2> QED
    BY <2>1, SameServed DEF StartInv, ServiceInv
<1> QED
  BY <1>1, <1>2, <1>3 DEF StartNext

\* The four tasks, their channels and their lists, from the setup on, implement
\* the service: each input is decided once, each of its answers, however many,
\* leaves once or is refused once by the kernel, and a node that stops loses
\* messages but makes none up.
THEOREM TasksKeepService == StartSpec => KeepsService
<1>1. StartInit => ServiceInv /\ Service!ServiceInit
  BY EmptyServed DEF StartInit, InitWith, Service!ServiceInit
<1>2. StartInv /\ StartInv' /\ ServiceInv /\ [StartNext]_startVars
          => ServiceInv' /\ [Service!ServiceNext]_(Service!serviceVars)
  BY StartServed DEF Served
<1> QED
  BY <1>1, <1>2, StartInvariant, PTL DEF StartSpec, KeepsService, Service!ServiceSpec

-----------------------------------------------------------------------------
(***************************************************************************)
(* No task spins: each effect but an input's, a spawn's and a kernel       *)
(* queue's takes from the first of the remaining sets it changes.          *)
(***************************************************************************)
LEMMA RemainingFacts ==
    /\ DOMAIN Remaining = 1 .. 9
    /\ Remaining[1] = Task \ dead /\ Remaining[2] = Waiting(Kernel)
    /\ Remaining[3] = Waiting({"networkSocket", "networkDevice"})
    /\ Remaining[4] = Undecided
    /\ Remaining[5] = Waiting({"networkRouter"})
    /\ Remaining[6] = Waiting({"deviceRx", "socketRx"})
    /\ Remaining[7] = Unwritten /\ Remaining[8] = woken /\ Remaining[9] = Ahead
BY DEF Remaining

LEMMA RemainingNext ==
    /\ Remaining'[1] = Task \ dead' /\ Remaining'[2] = Waiting(Kernel)'
    /\ Remaining'[3] = Waiting({"networkSocket", "networkDevice"})'
    /\ Remaining'[4] = Undecided'
    /\ Remaining'[5] = Waiting({"networkRouter"})'
    /\ Remaining'[6] = Waiting({"deviceRx", "socketRx"})'
    /\ Remaining'[7] = Unwritten' /\ Remaining'[8] = woken' /\ Remaining'[9] = Ahead'
BY DEF Remaining

LEMMA FallsAt ==
    ASSUME NEW i \in 1 .. 9, Remaining'[i] \subseteq Remaining[i], Remaining'[i] # Remaining[i],
           \A j \in 1 .. i - 1 : Remaining'[j] = Remaining[j]
    PROVE  Below(Remaining', Remaining)
BY RemainingFacts DEF Below

Pairs(f) == UNION {{x} \X f[x] : x \in DOMAIN f}

LEMMA PairsFall ==
    ASSUME NEW f, NEW g, DOMAIN g = DOMAIN f, NEW x \in DOMAIN f, g[x] \subseteq f[x], g[x] # f[x],
           \A y \in DOMAIN f \ {x} : g[y] = f[y]
    PROVE  Pairs(g) \subseteq Pairs(f) /\ Pairs(g) # Pairs(f)
<1>1. Pairs(g) \subseteq Pairs(f)
  <2>1. \A y \in DOMAIN f : g[y] \subseteq f[y]
    OBVIOUS
  <2>2. \A y \in DOMAIN f : {y} \X g[y] \subseteq {y} \X f[y]
    BY <2>1
  <2> QED
    BY <2>2 DEF Pairs
<1>2. PICK z \in f[x] : z \notin g[x]
  OBVIOUS
<1>3. <<x, z>> \in Pairs(f)
  BY <1>2 DEF Pairs
<1>4. <<x, z>> \notin Pairs(g)
  <2> SUFFICES ASSUME NEW y \in DOMAIN g, <<x, z>> \in {y} \X g[y] PROVE FALSE
    BY DEF Pairs
  <2>1. x = y /\ z \in g[y]
    OBVIOUS
  <2> QED
    BY <1>2, <2>1
<1> QED
  BY <1>1, <1>3, <1>4

LEMMA ShorterTail ==
    ASSUME NEW S, NEW s \in Seq(S), s # << >>
    PROVE  DOMAIN Tail(s) \subseteq DOMAIN s /\ DOMAIN Tail(s) # DOMAIN s
<1>1. Len(s) \in Nat \ {0} /\ DOMAIN s = 1 .. Len(s) /\ DOMAIN Tail(s) = 1 .. Len(s) - 1
  OBVIOUS
<1>2. Len(s) \in DOMAIN s /\ Len(s) \notin DOMAIN Tail(s)
  BY <1>1
<1>3. DOMAIN Tail(s) \subseteq DOMAIN s
  BY <1>1
<1> QED
  BY <1>2, <1>3

LEMMA WaitingSame ==
    ASSUME NEW cs, \A c \in cs : chan'[c] = chan[c]
    PROVE  Waiting(cs)' = Waiting(cs)
<1>1. {{c} \X DOMAIN chan'[c] : c \in cs} = {{c} \X DOMAIN chan[c] : c \in cs}
  OBVIOUS
<1> QED
  BY <1>1 DEF Waiting

LEMMA WaitingFalls ==
    ASSUME TypeOK, NEW cs, NEW c \in Channel, c \in cs, chan[c] # << >>, chan'[c] = Tail(chan[c]),
           \A e \in cs \ {c} : chan'[e] = chan[e]
    PROVE  Waiting(cs)' \subseteq Waiting(cs) /\ Waiting(cs)' # Waiting(cs)
<1> DEFINE f == [e \in cs |-> DOMAIN chan[e]]
           g == [e \in cs |-> DOMAIN chan'[e]]
<1>1. chan[c] \in Seq(Message)
  BY DEF TypeOK
<1>2. /\ DOMAIN g = DOMAIN f /\ c \in DOMAIN f
      /\ g[c] \subseteq f[c] /\ g[c] # f[c] /\ \A e \in DOMAIN f \ {c} : g[e] = f[e]
  BY <1>1, ShorterTail
<1>3. Waiting(cs) = Pairs(f) /\ Waiting(cs)' = Pairs(g)
  BY DEF Waiting, Pairs
<1> HIDE DEF f, g
<1> QED
  BY <1>2, <1>3, PairsFall

\* What waits before the router does not depend on the other channels.
LEMMA UndecidedSame ==
    ASSUME \A c \in Kernel \cup {"networkSocket", "networkDevice", "routerRx"} : chan'[c] = chan[c]
    PROVE  Undecided' = Undecided
BY DEF Undecided, Kernel

LEMMA EndedFalls ==
    ASSUME TasksInv, Ended
    PROVE  Below(Remaining', Remaining)
<1>1. PICK t \in Task \ dead : dead' = dead \cup {t}
  BY DEF Ended, Die, BrokenOff, Fall
<1>2. Task \ dead' \subseteq Task \ dead /\ Task \ dead' # Task \ dead
  BY <1>1
<1>3. Remaining'[1] \subseteq Remaining[1] /\ Remaining'[1] # Remaining[1]
  BY <1>2, RemainingFacts, RemainingNext
<1> QED
  BY <1>3, FallsAt

\* The first message of c goes, whatever comes to the channels further on.
LEMMA PlaceFalls ==
    ASSUME TypeOK, UNCHANGED dead, NEW c \in Channel, chan[c] # << >>, chan'[c] = Tail(chan[c]),
           c # "routerRx",
           \/ /\ c \in Kernel
              /\ \A e \in Kernel \ {c} : chan'[e] = chan[e]
           \/ /\ c \in {"networkSocket", "networkDevice"}
              /\ \A e \in (Kernel \cup {"networkSocket", "networkDevice"}) \ {c} : chan'[e] = chan[e]
           \/ /\ \A e \in Channel \ {c, "routerRx", "deviceRx", "socketRx"} : chan'[e] = chan[e]
              /\ c = "networkRouter" /\ Undecided' = Undecided
           \/ /\ \A e \in Channel \ {c} : chan'[e] = chan[e]
              /\ c \in {"deviceRx", "socketRx"}
    PROVE  Below(Remaining', Remaining)
<1>0. /\ Remaining'[1] = Remaining[1]
      /\ (\A e \in Kernel : chan'[e] = chan[e]) => Remaining'[2] = Remaining[2]
      /\ (\A e \in {"networkSocket", "networkDevice"} : chan'[e] = chan[e])
            => Remaining'[3] = Remaining[3]
      /\ chan'["networkRouter"] = chan["networkRouter"] => Remaining'[5] = Remaining[5]
  BY WaitingSame, RemainingFacts, RemainingNext
<1>f. /\ Kernel \subseteq Channel /\ {"networkSocket", "networkDevice"} \subseteq Channel
      /\ "networkRouter" \in Channel /\ "routerRx" \in Channel
      /\ Kernel \cap {"networkSocket", "networkDevice", "networkRouter", "routerRx", "deviceRx",
                      "socketRx"} = {}
  BY DEF Kernel, Channel, Reader
<1>1. CASE c \in Kernel /\ \A e \in Kernel \ {c} : chan'[e] = chan[e]
  <2>1. Remaining'[2] \subseteq Remaining[2] /\ Remaining'[2] # Remaining[2]
    BY <1>1, WaitingFalls, RemainingFacts, RemainingNext
  <2>2. \A j \in 1 .. 2 - 1 : Remaining'[j] = Remaining[j]
    BY <1>0
  <2> QED
    BY <2>1, <2>2, FallsAt
<1>2. CASE /\ c \in {"networkSocket", "networkDevice"}
           /\ \A e \in (Kernel \cup {"networkSocket", "networkDevice"}) \ {c} : chan'[e] = chan[e]
  <2>1. Remaining'[3] \subseteq Remaining[3] /\ Remaining'[3] # Remaining[3]
    <3> DEFINE cs == {"networkSocket", "networkDevice"}
    <3>1. c \in cs /\ \A e \in cs \ {c} : chan'[e] = chan[e]
      BY <1>2
    <3>2. Waiting(cs)' \subseteq Waiting(cs) /\ Waiting(cs)' # Waiting(cs)
      <4> HIDE DEF cs
      <4> QED
        BY <3>1, WaitingFalls
    <3> QED
      BY <3>2, RemainingFacts, RemainingNext
  <2>2. \A j \in 1 .. 3 - 1 : Remaining'[j] = Remaining[j]
    BY <1>0, <1>2, <1>f
  <2> QED
    BY <2>1, <2>2, FallsAt
<1>3. CASE /\ \A e \in Channel \ {c, "routerRx", "deviceRx", "socketRx"} : chan'[e] = chan[e]
           /\ c = "networkRouter" /\ Undecided' = Undecided
  <2>1. Remaining'[5] \subseteq Remaining[5] /\ Remaining'[5] # Remaining[5]
    <3> DEFINE cs == {"networkRouter"}
    <3>1. c \in cs /\ \A e \in cs \ {c} : chan'[e] = chan[e]
      BY <1>3
    <3>2. Waiting(cs)' \subseteq Waiting(cs) /\ Waiting(cs)' # Waiting(cs)
      <4> HIDE DEF cs
      <4> QED
        BY <3>1, WaitingFalls
    <3> QED
      BY <3>2, RemainingFacts, RemainingNext
  <2>2. \A e \in Kernel \cup {"networkSocket", "networkDevice"} : chan'[e] = chan[e]
    BY <1>3, <1>f
  <2>3. Remaining'[4] = Remaining[4]
    BY <1>3, RemainingFacts, RemainingNext
  <2>4. \A j \in 1 .. 5 - 1 : Remaining'[j] = Remaining[j]
    BY <1>0, <2>2, <2>3
  <2> QED
    BY <2>1, <2>4, FallsAt
<1>4. CASE c \in {"deviceRx", "socketRx"} /\ \A e \in Channel \ {c} : chan'[e] = chan[e]
  <2>1. Remaining'[6] \subseteq Remaining[6] /\ Remaining'[6] # Remaining[6]
    <3> DEFINE cs == {"deviceRx", "socketRx"}
    <3>1. c \in cs /\ \A e \in cs \ {c} : chan'[e] = chan[e]
      BY <1>4 DEF Channel, Reader
    <3>2. Waiting(cs)' \subseteq Waiting(cs) /\ Waiting(cs)' # Waiting(cs)
      <4> HIDE DEF cs
      <4> QED
        BY <3>1, WaitingFalls
    <3> QED
      BY <3>2, RemainingFacts, RemainingNext
  <2>2. /\ \A e \in Kernel \cup {"networkSocket", "networkDevice", "routerRx"} : chan'[e] = chan[e]
        /\ chan'["networkRouter"] = chan["networkRouter"]
    BY <1>4, <1>f
  <2>3. Remaining'[4] = Remaining[4]
    BY <2>2, UndecidedSame, RemainingFacts, RemainingNext
  <2>4. \A j \in 1 .. 6 - 1 : Remaining'[j] = Remaining[j]
    BY <1>0, <2>2, <2>3
  <2> QED
    BY <2>1, <2>4, FallsAt
<1> QED
  BY <1>1, <1>2, <1>3, <1>4

LEMMA HandedFalls ==
    ASSUME TasksInv, TasksInv', ServiceInv, Handed
    PROVE  Below(Remaining', Remaining)
<1>1. PICK w \in Ways : Passed(Reader[w[1]], w[1], w[2], <<HandedOn(w[1], Head(chan[w[1]]))>>)
  BY DEF Handed
<1>2. w[1] \in Channel /\ w[2] \in Channel /\ w[1] # w[2] /\ DOMAIN chan = Channel /\ TypeOK
  BY WayFacts DEF TasksInv, WakeInv, TypeOK
<1>3. /\ chan[w[1]] # << >> /\ UNCHANGED dead
      /\ chan'[w[1]] = Tail(chan[w[1]]) /\ \A e \in Channel \ {w[1], w[2]} : chan'[e] = chan[e]
  BY <1>1, <1>2 DEF Passed
<1>4. Undecided' = Undecided
  BY HandedServed
<1>5. \/ w[1] \in Kernel /\ w[2] \notin Kernel
      \/ w[1] \in {"networkSocket", "networkDevice"} /\ w[2] = "routerRx"
      \/ w[1] = "networkRouter" /\ w[2] \in {"routerRx", "deviceRx", "socketRx"}
  BY DEF Ways, Kernel
<1>6. Kernel \cup {"networkSocket", "networkDevice"} \subseteq Channel /\ "routerRx" \notin Kernel
  BY DEF Kernel, Channel, Reader
<1> DEFINE c == w[1]
<1>7. CASE c \in Kernel /\ w[2] \notin Kernel
  <2>1. c # "routerRx" /\ \A e \in Kernel \ {c} : chan'[e] = chan[e]
    BY <1>3, <1>6, <1>7
  <2>2. c \in Channel /\ UNCHANGED dead /\ chan[c] # << >> /\ chan'[c] = Tail(chan[c])
    BY <1>2, <1>3
  <2> HIDE DEF c
  <2> QED
    BY <1>2, <1>7, <2>1, <2>2, PlaceFalls
<1>8. CASE c \in {"networkSocket", "networkDevice"} /\ w[2] = "routerRx"
  <2>1. /\ c # "routerRx"
        /\ \A e \in (Kernel \cup {"networkSocket", "networkDevice"}) \ {c} : chan'[e] = chan[e]
    BY <1>3, <1>6, <1>8
  <2>2. c \in Channel /\ UNCHANGED dead /\ chan[c] # << >> /\ chan'[c] = Tail(chan[c])
    BY <1>2, <1>3
  <2> HIDE DEF c
  <2> QED
    BY <1>2, <1>8, <2>1, <2>2, PlaceFalls
<1>9. CASE c = "networkRouter" /\ w[2] \in {"routerRx", "deviceRx", "socketRx"}
  <2>1. /\ c # "routerRx"
        /\ \A e \in Channel \ {c, "routerRx", "deviceRx", "socketRx"} : chan'[e] = chan[e]
    BY <1>3, <1>9
  <2>2. c \in Channel /\ UNCHANGED dead /\ chan[c] # << >> /\ chan'[c] = Tail(chan[c])
    BY <1>2, <1>3
  <2> HIDE DEF c
  <2> QED
    BY <1>2, <1>4, <1>9, <2>1, <2>2, PlaceFalls
<1> QED
  BY <1>5, <1>7, <1>8, <1>9

LEMMA AnsweredFalls ==
    ASSUME TasksInv, TasksInv', ServiceInv, Answered
    PROVE  Below(Remaining', Remaining)
<1>1. PICK ms : Passed("router", "routerRx", "networkRouter", ms)
  BY DEF Answered
<1>2. UNCHANGED dead /\ \A e \in Channel \ {"routerRx", "networkRouter"} : chan'[e] = chan[e]
  BY <1>1 DEF Passed, TasksInv, WakeInv, TypeOK
<1>3. \A e \in Kernel \cup {"networkSocket", "networkDevice"} : chan'[e] = chan[e]
  BY <1>2 DEF Kernel, Channel, Reader
<1>4. Remaining'[1] = Remaining[1] /\ Remaining'[2] = Remaining[2] /\ Remaining'[3] = Remaining[3]
  BY <1>2, <1>3, WaitingSame, RemainingFacts, RemainingNext
<1>5. Remaining'[4] \subseteq Remaining[4] /\ Remaining'[4] # Remaining[4]
  BY AnsweredServed, RemainingFacts, RemainingNext
<1>6. \A j \in 1 .. 4 - 1 : Remaining'[j] = Remaining[j]
  BY <1>4
<1> QED
  BY <1>5, <1>6, FallsAt

LEMMA FinishedFalls ==
    ASSUME TasksInv, Finished
    PROVE  Below(Remaining', Remaining)
<1>1. PICK c \in {"v4", "v6", "networkRouter"} : Dropped(c)
  BY DEF Finished
<1>2. /\ c \in Channel /\ TypeOK /\ UNCHANGED dead
      /\ chan[c] # << >> /\ chan'[c] = Tail(chan[c]) /\ \A e \in Channel \ {c} : chan'[e] = chan[e]
  BY <1>1, PlaceFacts DEF Dropped, TasksInv, WakeInv, TypeOK
<1>3. Kernel \cup {"networkSocket", "networkDevice", "routerRx"} \subseteq Channel
  BY DEF Kernel, Channel, Reader
<1>4. CASE c \in {"v4", "v6"}
  <2>1. c \in Kernel /\ c # "routerRx" /\ \A e \in Kernel \ {c} : chan'[e] = chan[e]
    BY <1>2, <1>3, <1>4 DEF Kernel
  <2> QED
    BY <1>2, <2>1, PlaceFalls
<1>5. CASE c = "networkRouter"
  <2>1. \A e \in Kernel \cup {"networkSocket", "networkDevice", "routerRx"} : chan'[e] = chan[e]
    BY <1>2, <1>3, <1>5 DEF Kernel
  <2>2. Undecided' = Undecided
    BY <2>1, UndecidedSame
  <2> QED
    BY <1>2, <1>5, <2>2, PlaceFalls
<1> QED
  BY <1>4, <1>5

LEMMA CollectedFalls ==
    ASSUME TasksInv, Collected
    PROVE  Below(Remaining', Remaining)
<1>1. PICK c \in {"deviceRx", "socketRx"} : Keep(Reader[c], c)
  BY DEF Collected, Collect, Reader
<1>2. /\ c \in Channel /\ c # "routerRx" /\ TypeOK /\ UNCHANGED dead
      /\ chan[c] # << >> /\ chan'[c] = Tail(chan[c]) /\ \A e \in Channel \ {c} : chan'[e] = chan[e]
  BY <1>1, PlaceFacts DEF Keep, TasksInv, WakeInv, TypeOK
<1> QED
  BY <1>2, PlaceFalls

\* Where nothing happens to the channels, the first six sets stay.
LEMMA ChannelsStay ==
    ASSUME UNCHANGED <<chan, dead>>
    PROVE  \A j \in 1 .. 6 : Remaining'[j] = Remaining[j]
<1>1. \A cs : Waiting(cs)' = Waiting(cs)
  BY DEF Waiting
<1>2. Undecided' = Undecided
  BY DEF Undecided
<1> QED
  BY <1>1, <1>2, RemainingFacts, RemainingNext

LEMMA WrittenFalls ==
    ASSUME TasksInv, Written
    PROVE  Below(Remaining', Remaining)
<1>1. PICK t \in Task : TakenOff(t)
  BY DEF Written, Task
<1> DEFINE f == [u \in Task |-> DOMAIN kept[u]]
           g == [u \in Task |-> DOMAIN kept'[u]]
<1>2. /\ UNCHANGED <<chan, dead>> /\ kept[t] # << >> /\ kept[t] \in Seq(Message)
      /\ kept'[t] = Tail(kept[t]) /\ \A u \in Task \ {t} : kept'[u] = kept[u]
  BY <1>1 DEF TakenOff, TasksInv, WakeInv, TypeOK
<1>3. /\ DOMAIN g = DOMAIN f /\ t \in DOMAIN f
      /\ g[t] \subseteq f[t] /\ g[t] # f[t] /\ \A u \in DOMAIN f \ {t} : g[u] = f[u]
  BY <1>2, ShorterTail
<1>4. Unwritten = Pairs(f) /\ Unwritten' = Pairs(g)
  BY DEF Unwritten, Pairs
<1>5. Unwritten' \subseteq Unwritten /\ Unwritten' # Unwritten
  <2> HIDE DEF f, g
  <2> QED
    BY <1>3, <1>4, PairsFall
<1>6. Remaining'[7] \subseteq Remaining[7] /\ Remaining'[7] # Remaining[7]
  BY <1>5, RemainingFacts, RemainingNext
<1>7. \A j \in 1 .. 7 - 1 : Remaining'[j] = Remaining[j]
  BY <1>2, ChannelsStay
<1> QED
  BY <1>6, <1>7, FallsAt

\* A poll that was begun comes nearer to its end.
LEMMA LoopFalls ==
    ASSUME TasksInv, NEW t \in Task, UNCHANGED <<chan, dead, woken>>,
           \A u \in Task : DOMAIN kept'[u] = DOMAIN kept[u],
           loop[t] \in 1 .. Len(Loops[t]), loop' = [loop EXCEPT ![t] = loop'[t]],
           loop'[t] = 0 \/ loop'[t] = loop[t] + 1
    PROVE  Below(Remaining', Remaining)
<1> DEFINE f == [u \in Task |-> {i \in DOMAIN Loops[u] : 0 < loop[u] /\ loop[u] <= i}]
           g == [u \in Task |-> {i \in DOMAIN Loops[u] : 0 < loop'[u] /\ loop'[u] <= i}]
<1>1. DOMAIN Loops[t] = 1 .. Len(Loops[t]) /\ Len(Loops[t]) \in Nat
  <2>1. \A a, b, c, d : /\ DOMAIN <<a>> = 1 .. Len(<<a>>) /\ Len(<<a>>) \in Nat
                       /\ DOMAIN <<a, b, c>> = 1 .. Len(<<a, b, c>>) /\ Len(<<a, b, c>>) \in Nat
                       /\ DOMAIN <<a, b, c, d>> = 1 .. Len(<<a, b, c, d>>)
                       /\ Len(<<a, b, c, d>>) \in Nat
    OBVIOUS
  <2>2. \/ Loops[t] = <<"deviceRx", "tun", "send">>
        \/ Loops[t] = <<"networkRouter", "networkSocket", "networkDevice">>
        \/ Loops[t] = <<"routerRx">>
        \/ Loops[t] = <<"v4", "v6", "socketRx", "send">>
    BY DEF Loops, Task
  <2> QED
    BY <2>1, <2>2
<1>2. loop \in [Task -> Nat] /\ \A u \in Task \ {t} : loop'[u] = loop[u]
  BY DEF TasksInv, WakeInv, TypeOK
<1>3. loop[t] \in f[t] /\ loop[t] \notin g[t] /\ g[t] \subseteq f[t]
  BY <1>1, <1>2
<1>4. DOMAIN g = DOMAIN f /\ t \in DOMAIN f /\ \A u \in DOMAIN f \ {t} : g[u] = f[u]
  BY <1>2
<1>5. Ahead = Pairs(f) /\ Ahead' = Pairs(g)
  BY DEF Ahead, Pairs
<1>6. Ahead' \subseteq Ahead /\ Ahead' # Ahead
  <2> HIDE DEF f, g
  <2> QED
    BY <1>3, <1>4, <1>5, PairsFall
<1>7. Remaining'[9] \subseteq Remaining[9] /\ Remaining'[9] # Remaining[9]
  BY <1>6, RemainingFacts, RemainingNext
<1>8. Unwritten' = Unwritten
  <2>1. {{u} \X DOMAIN kept'[u] : u \in Task} = {{u} \X DOMAIN kept[u] : u \in Task}
    OBVIOUS
  <2> QED
    BY <2>1 DEF Unwritten
<1>9. Remaining'[7] = Remaining[7] /\ Remaining'[8] = Remaining[8]
  BY <1>8, RemainingFacts, RemainingNext
<1>10. \A j \in 1 .. 9 - 1 : Remaining'[j] = Remaining[j]
  BY <1>9, ChannelsStay
<1> QED
  BY <1>7, <1>10, FallsAt

LEMMA BegunFalls ==
    ASSUME NEW t \in Task, BeginPoll(t)
    PROVE  Below(Remaining', Remaining)
<1>1. UNCHANGED <<chan, dead, kept>> /\ woken' \subseteq woken /\ woken' # woken
  BY DEF BeginPoll
<1>2. Unwritten' = Unwritten
  BY <1>1 DEF Unwritten
<1>3. Remaining'[8] \subseteq Remaining[8] /\ Remaining'[8] # Remaining[8]
  BY <1>1, RemainingFacts, RemainingNext
<1>4. Remaining'[7] = Remaining[7]
  BY <1>2, RemainingFacts, RemainingNext
<1>5. \A j \in 1 .. 8 - 1 : Remaining'[j] = Remaining[j]
  BY <1>1, <1>4, ChannelsStay
<1> QED
  BY <1>3, <1>5, FallsAt

LEMMA WaitedFalls ==
    ASSUME TasksInv, Waited, UNCHANGED <<spawned, room>>
    PROVE  Below(Remaining', Remaining)
<1>0. loop \in [Task -> Nat] /\ kept \in [Task -> Seq(Message)] /\ TypeOK /\ Polled
  BY DEF TasksInv, WakeInv, TypeOK
<1>1. ASSUME NEW c \in Channel, Exhausted(Reader[c], c), Alive(Writer[c])
      PROVE  Below(Remaining', Remaining)
  <2> DEFINE t == Reader[c]
  <2>1. t \in Task /\ loop[t] \in 1 .. Len(Loops[t])
    BY <1>0, <1>1, ChannelFacts, AtALoop DEF Exhausted
  <2>2. UNCHANGED <<chan, dead, woken, kept>> /\ loop' = NextLoop(t)
    BY <1>1 DEF Exhausted
  <2>3. loop' = [loop EXCEPT ![t] = loop'[t]] /\ (loop'[t] = 0 \/ loop'[t] = loop[t] + 1)
    BY <1>0, <2>1, <2>2 DEF NextLoop
  <2> HIDE DEF t
  <2> QED
    BY <2>1, <2>2, <2>3, LoopFalls
<1>2. ASSUME NEW t \in {"device", "socket"}, WriteBlocked(t) \/ WroteAll(t)
      PROVE  Below(Remaining', Remaining)
  <2>1. t \in Task /\ At(t, "send")
    BY <1>2 DEF WriteBlocked, WroteAll, Task
  <2>2. loop[t] \in 1 .. Len(Loops[t])
    BY <1>0, <2>1, AtALoop
  <2>3. UNCHANGED <<chan, dead, woken>> /\ loop' = [loop EXCEPT ![t] = 0]
    BY <1>2 DEF WriteBlocked, WroteAll
  <2>4. loop' = [loop EXCEPT ![t] = loop'[t]] /\ loop'[t] = 0
    BY <1>0, <2>1, <2>3
  <2>5. \A u \in Task : DOMAIN kept'[u] = DOMAIN kept[u]
    <3>1. CASE WroteAll(t)
      BY <3>1 DEF WroteAll
    <3>2. CASE WriteBlocked(t)
      <4>1. /\ kept[t] # << >> /\ kept'[t] = Append(Tail(kept[t]), Head(kept[t]))
            /\ \A u \in Task \ {t} : kept'[u] = kept[u]
        BY <1>0, <2>1, <3>2 DEF WriteBlocked
      <4>2. kept[t] \in Seq(Message)
        BY <1>0, <2>1
      <4>3. DOMAIN kept'[t] = DOMAIN kept[t]
        <5> DEFINE s == kept[t]
                   r == Append(Tail(s), Head(s))
        <5>1. Tail(s) \in Seq(Message) /\ Head(s) \in Message /\ Len(Tail(s)) = Len(s) - 1
              /\ Len(s) \in Nat /\ DOMAIN s = 1 .. Len(s)
          BY <4>1, <4>2
        <5>2. r \in Seq(Message) /\ Len(r) = Len(Tail(s)) + 1
          BY <5>1
        <5>3. DOMAIN r = 1 .. Len(s)
          BY <5>1, <5>2
        <5> QED
          BY <4>1, <5>1, <5>3
      <4> QED
        BY <4>1, <4>3
    <3> QED
      BY <1>2, <3>1, <3>2
  <2> QED
    BY <2>1, <2>2, <2>3, <2>4, <2>5, LoopFalls
<1>3. ASSUME NEW t \in Task, Spawn(t)
      PROVE  FALSE
  BY <1>3 DEF Spawn
<1>4. ASSUME NEW s \in Kernel, Clog(s) \/ Unclog(s)
      PROVE  FALSE
  BY <1>4 DEF Clog, Unclog
<1> QED
  BY <1>1, <1>2, <1>3, <1>4, BegunFalls DEF Waited

\* No task spins: polls that only wake one another come to an end, since every
\* step without an input leaves less to do.
THEOREM PollsEnd == StartSpec => NoTaskSpins
<1> DEFINE Falls == spawned # {} /\ UNCHANGED <<spawned, room, inputs>> => Below(Remaining', Remaining)
<1>1. StartInit => ServiceInv
  BY EmptyServed DEF StartInit
<1>2. StartInv /\ StartInv' /\ ServiceInv /\ [StartNext]_startVars => ServiceInv'
  BY StartServed DEF Served
<1>3. StartInv /\ StartInv' /\ ServiceInv /\ [StartNext]_startVars => [Falls]_vars
  <2> SUFFICES ASSUME StartInv, StartInv', ServiceInv, StartNext, ~UNCHANGED vars,
                      spawned # {}, UNCHANGED <<spawned, room, inputs>>
               PROVE  Below(Remaining', Remaining)
    BY DEF startVars
  <2>1. CASE Setup
    <3>1. stage # "running"
      BY <2>1 DEF Setup, ReadConfig, OpenInterface, RunIfup, BindSockets, QueueHellos
    <3> QED
      BY <2>1, <3>1 DEF StartInv, SetupInv, InitWith, Setup, ReadConfig, OpenInterface, RunIfup,
                        BindSockets, QueueHellos
  <2>2. CASE Run(Next)
    <3>1. TasksInv /\ TasksInv' /\ Next
      BY <2>2 DEF Run, StartInv
    <3>2. Effect
      BY <3>1, StepsHaveEffects
    <3>3. ~Arrived
      <4> SUFFICES ASSUME NEW kind, inputs' = Append(inputs, kind) PROVE FALSE
        BY DEF Arrived, Arrive
      <4>1. Len(inputs') = Len(inputs) + 1 /\ Len(inputs) \in Nat
        BY <3>1 DEF TasksInv, WakeInv, TypeOK
      <4> QED
        BY <4>1
    <3> QED
      BY <3>1, <3>2, <3>3, EndedFalls, AnsweredFalls, HandedFalls, FinishedFalls, CollectedFalls,
         WaitedFalls, WrittenFalls DEF Effect
  <2> QED
    BY <2>1, <2>2 DEF StartNext
<1> QED
  BY <1>1, <1>2, <1>3, StartInvariant, PTL DEF StartSpec, NoTaskSpins
=============================================================================
