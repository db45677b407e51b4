----------------------------- MODULE StreamProofs -----------------------------
(***************************************************************************)
(* Proofs about the two ends of the daemon's channels: the Worker's        *)
(* session, for any generations, and the UI's state stream, for any        *)
(* topics, values, connections and buffer sizes.                           *)
(***************************************************************************)
EXTENDS MCStream, TLAPS, SequenceTheorems, Integers

-----------------------------------------------------------------------------
(* The Worker channel                                                      *)

\* Every step of the adapter keeps the types.
LEMMA ChannelTypesKept ==
    ASSUME TypeOK, [Next]_vars
    PROVE  TypeOK'
<1> USE DEF TypeOK, Life
<1>1. ASSUME NEW g \in Generation, Prepare(g)
      PROVE  TypeOK'
  BY <1>1 DEF Prepare
<1>2. ASSUME NEW g \in Generation, Cancel(g)
      PROVE  TypeOK'
  BY <1>2 DEF Cancel
<1>3. ASSUME NEW g \in Generation, Activate(g)
      PROVE  TypeOK'
  BY <1>3 DEF Activate
<1>4. ASSUME NEW g \in Generation, CloseBegin(g)
      PROVE  TypeOK'
  BY <1>4 DEF CloseBegin, Retract
<1>5. ASSUME NEW g \in Generation, CloseEnd(g)
      PROVE  TypeOK'
  BY <1>5 DEF CloseEnd
<1>6. ASSUME NEW g \in Generation, CloseAgain(g)
      PROVE  TypeOK'
  BY <1>6 DEF CloseAgain, vars
<1>7. CASE UNCHANGED vars
  BY <1>7 DEF vars
<1>8. QED
  BY <1>1, <1>2, <1>3, <1>4, <1>5, <1>6, <1>7 DEF Next, AfterFunc

\* Every reachable state of the channel adapter is well typed (channel.go).
THEOREM ChannelTyped == Spec => []TypeOK
<1>1. Init => TypeOK
  BY DEF Init, TypeOK, Life
<1>2. TypeOK /\ [Next]_vars => TypeOK'
  BY ChannelTypesKept
<1>3. QED
  BY <1>1, <1>2, PTL DEF Spec

\* Activate publishes an open session, and a session that closes leaves.
LEMMA ChannelOpenKept ==
    ASSUME TypeOK, CurrentIsOpen, [Next]_vars
    PROVE  CurrentIsOpen'
<1> USE NoSessionAssumption DEF TypeOK, CurrentIsOpen, Life
<1>1. ASSUME NEW g \in Generation, Prepare(g)
      PROVE  CurrentIsOpen'
  BY <1>1 DEF Prepare
<1>2. ASSUME NEW g \in Generation, Cancel(g)
      PROVE  CurrentIsOpen'
  BY <1>2 DEF Cancel
<1>3. ASSUME NEW g \in Generation, Activate(g)
      PROVE  CurrentIsOpen'
  BY <1>3 DEF Activate, CanActivate
<1>4. ASSUME NEW g \in Generation, CloseBegin(g)
      PROVE  CurrentIsOpen'
  BY <1>4 DEF CloseBegin, Retract
<1>5. ASSUME NEW g \in Generation, CloseEnd(g)
      PROVE  CurrentIsOpen'
  BY <1>5 DEF CloseEnd
<1>6. ASSUME NEW g \in Generation, CloseAgain(g)
      PROVE  CurrentIsOpen'
  BY <1>6 DEF CloseAgain, vars
<1>7. CASE UNCHANGED vars
  BY <1>7 DEF vars
<1>8. QED
  BY <1>1, <1>2, <1>3, <1>4, <1>5, <1>6, <1>7 DEF Next, AfterFunc

\* The adapter never publishes a closed session, whatever the generations and
\* however their Activate and Close calls interleave (channel.go).
THEOREM ChannelCurrentIsOpen == Spec => []CurrentIsOpen
<1>1. Init => CurrentIsOpen
  BY DEF Init, CurrentIsOpen
<1>2. TypeOK /\ CurrentIsOpen /\ [Next]_vars => CurrentIsOpen'
  BY ChannelOpenKept
<1>3. QED
  BY <1>1, <1>2, ChannelTyped, PTL DEF Spec

\* Only a session's own Close takes it out of Adapter.current: the end of one generation
\* leaves the session of another where it is (channel.go, Close).
THEOREM ChannelRetractsOwn == Spec => OnlyOwnCloseRetracts
<1>1. TypeOK /\ [Next]_vars =>
          [current # NoSession /\ current' = NoSession => session'[current] # "open"]_vars
  <2> SUFFICES ASSUME TypeOK, Next, current # NoSession, current' = NoSession
               PROVE  session'[current] # "open"
    OBVIOUS
  <2>1. PICK g \in Generation :
            Prepare(g) \/ Cancel(g) \/ Activate(g) \/ CloseBegin(g) \/ CloseEnd(g) \/ CloseAgain(g)
    BY DEF Next, AfterFunc
  <2>2. ~Prepare(g) /\ ~Cancel(g) /\ ~Activate(g) /\ ~CloseEnd(g) /\ ~CloseAgain(g)
    BY NoSessionAssumption DEF Prepare, Cancel, Activate, CloseEnd, CloseAgain, vars
  <2>3. CloseBegin(g) /\ current = g
    BY <2>1, <2>2 DEF CloseBegin, Retract
  <2>4. QED
    BY <2>3 DEF CloseBegin, TypeOK
<1>2. QED
  BY <1>1, ChannelTyped, PTL DEF Spec, OnlyOwnCloseRetracts
-----------------------------------------------------------------------------
(* The lines on their way to a UI                                          *)

Lines == Seq(Stream!Messages)

\* The last line about topic t carries x; no line is about t; command n is among them.
Tells(s, t, x) ==
    \E i \in 1 .. Len(s) : /\ s[i] = Stream!State(t, x)
                           /\ \A j \in i + 1 .. Len(s) : ~Stream!About(s[j], t)
Silent(s, t) == \A i \in 1 .. Len(s) : ~Stream!About(s[i], t)
Carries(s, n) == \E i \in 1 .. Len(s) : s[i] = Stream!Command(n)

\* States, commands and pings are told apart.
LEMMA MessageKinds ==
    /\ \A t, u, x : Stream!About(Stream!State(t, x), u) <=> t = u
    /\ \A t, x : Stream!State(t, x)[1] = "state" /\ Stream!State(t, x)[2] = t
                 /\ Stream!State(t, x)[3] = x
    /\ \A n : Stream!Command(n)[1] = "command" /\ Stream!Command(n)[2] = n
    /\ Stream!Ping[1] = "ping"
    /\ \A n, t : ~Stream!About(Stream!Command(n), t)
    /\ \A t : ~Stream!About(Stream!Ping, t)
    /\ \A n, t, x : Stream!State(t, x) # Stream!Command(n)
    /\ \A n : Stream!Ping # Stream!Command(n)
    /\ \A n, m : Stream!Command(n) = Stream!Command(m) <=> n = m
<1>1. /\ \A t, x : Stream!State(t, x)[1] = "state" /\ Stream!State(t, x)[2] = t
                   /\ Stream!State(t, x)[3] = x
      /\ \A n : Stream!Command(n)[1] = "command" /\ Stream!Command(n)[2] = n
      /\ Stream!Ping[1] = "ping"
  BY DEF Stream!State, Stream!Command, Stream!Ping
<1>2. /\ \A t, u, x : Stream!About(Stream!State(t, x), u) <=> t = u
      /\ \A n, t : ~Stream!About(Stream!Command(n), t)
      /\ \A t : ~Stream!About(Stream!Ping, t)
  BY <1>1 DEF Stream!About
<1>3. /\ \A n, t, x : Stream!State(t, x) # Stream!Command(n)
      /\ \A n : Stream!Ping # Stream!Command(n)
  BY <1>1
<1>4. \A n, m : Stream!Command(n) = Stream!Command(m) <=> n = m
  BY <1>1
<1>5. QED
  BY <1>1, <1>2, <1>3, <1>4

\* What a line can be.
LEMMA MessageForms ==
    /\ \A m \in Stream!Messages :
          \/ \E t \in Topics, v \in Values : m = Stream!State(t, v)
          \/ \E n \in 1 .. MaxCommands : m = Stream!Command(n)
          \/ m = Stream!Ping
    /\ \A t \in Topics, v \in Values : Stream!State(t, v) \in Stream!Messages
    /\ \A n \in 1 .. MaxCommands : Stream!Command(n) \in Stream!Messages
    /\ Stream!Ping \in Stream!Messages
  BY DEF Stream!Messages

\* Lines behind lines: the later ones count.
LEMMA ConcatTells ==
    ASSUME NEW a \in Lines, NEW b \in Lines, NEW t, NEW x
    PROVE  /\ a \o b \in Lines
           /\ Tells(b, t, x) => Tells(a \o b, t, x)
           /\ Silent(b, t) /\ Tells(a, t, x) => Tells(a \o b, t, x)
           /\ Silent(a \o b, t) <=> Silent(a, t) /\ Silent(b, t)
<1>1. /\ a \o b \in Lines /\ Len(a) \in Nat /\ Len(b) \in Nat /\ Len(a \o b) = Len(a) + Len(b)
      /\ \A i \in 1 .. Len(a) : (a \o b)[i] = a[i]
      /\ \A i \in Len(a) + 1 .. Len(a) + Len(b) : (a \o b)[i] = b[i - Len(a)]
      /\ \A i \in 1 .. Len(b) : (a \o b)[i + Len(a)] = b[i]
  BY ConcatProperties, LenProperties DEF Lines
<1> DEFINE c == a \o b
<1> HIDE DEF c
<1>2. Silent(c, t) <=> Silent(a, t) /\ Silent(b, t)
  <2>1. ASSUME Silent(c, t) PROVE Silent(a, t) /\ Silent(b, t)
    BY <1>1, <2>1 DEF Silent, c
  <2>2. ASSUME Silent(a, t), Silent(b, t), NEW i \in 1 .. Len(c) PROVE ~Stream!About(c[i], t)
    <3>1. CASE i <= Len(a)
      BY <1>1, <2>2, <3>1 DEF Silent, c
    <3>2. CASE i > Len(a)
      <4>1. i - Len(a) \in 1 .. Len(b) /\ c[i] = b[i - Len(a)]
        BY <1>1, <3>2 DEF c
      <4>2. QED
        BY <2>2, <4>1 DEF Silent
    <3>3. QED
      BY <1>1, <3>1, <3>2
  <2>3. QED
    BY <2>1, <2>2 DEF Silent
<1>3. ASSUME Tells(b, t, x) PROVE Tells(c, t, x)
  <2>1. PICK i \in 1 .. Len(b) : /\ b[i] = Stream!State(t, x)
                                 /\ \A j \in i + 1 .. Len(b) : ~Stream!About(b[j], t)
    BY <1>3 DEF Tells
  <2>2. i + Len(a) \in 1 .. Len(c) /\ c[i + Len(a)] = Stream!State(t, x)
    BY <1>1, <2>1 DEF c
  <2>3. ASSUME NEW j \in i + Len(a) + 1 .. Len(c) PROVE ~Stream!About(c[j], t)
    <3>1. j - Len(a) \in i + 1 .. Len(b) /\ c[j] = b[j - Len(a)]
      BY <1>1, <2>1 DEF c
    <3>2. QED
      BY <2>1, <3>1
  <2>4. QED
    BY <2>2, <2>3 DEF Tells
<1>4. ASSUME Silent(b, t), Tells(a, t, x) PROVE Tells(c, t, x)
  <2>1. PICK i \in 1 .. Len(a) : /\ a[i] = Stream!State(t, x)
                                 /\ \A j \in i + 1 .. Len(a) : ~Stream!About(a[j], t)
    BY <1>4 DEF Tells
  <2>2. i \in 1 .. Len(c) /\ c[i] = Stream!State(t, x)
    BY <1>1, <2>1 DEF c
  <2>3. ASSUME NEW j \in i + 1 .. Len(c) PROVE ~Stream!About(c[j], t)
    <3>1. CASE j <= Len(a)
      BY <1>1, <2>1, <3>1 DEF c
    <3>2. CASE j > Len(a)
      <4>1. j - Len(a) \in 1 .. Len(b) /\ c[j] = b[j - Len(a)]
        BY <1>1, <2>1, <3>2 DEF c
      <4>2. QED
        BY <1>4, <4>1 DEF Silent
    <3>3. QED
      BY <1>1, <2>1, <3>1, <3>2
  <2>4. QED
    BY <2>2, <2>3 DEF Tells
<1>5. QED
  BY <1>1, <1>2, <1>3, <1>4 DEF c

\* Commands of lines behind lines.
LEMMA ConcatCarries ==
    ASSUME NEW a \in Lines, NEW b \in Lines, NEW n
    PROVE  Carries(a \o b, n) <=> Carries(a, n) \/ Carries(b, n)
<1>1. /\ Len(a) \in Nat /\ Len(b) \in Nat /\ Len(a \o b) = Len(a) + Len(b)
      /\ \A i \in 1 .. Len(a) : (a \o b)[i] = a[i]
      /\ \A i \in Len(a) + 1 .. Len(a) + Len(b) : (a \o b)[i] = b[i - Len(a)]
      /\ \A i \in 1 .. Len(b) : (a \o b)[i + Len(a)] = b[i]
  BY ConcatProperties, LenProperties DEF Lines
<1> DEFINE c == a \o b
<1> HIDE DEF c
<1>2. ASSUME Carries(c, n) PROVE Carries(a, n) \/ Carries(b, n)
  <2>1. PICK i \in 1 .. Len(c) : c[i] = Stream!Command(n)
    BY <1>2 DEF Carries
  <2>2. CASE i <= Len(a)
    BY <1>1, <2>1, <2>2 DEF Carries, c
  <2>3. CASE i > Len(a)
    <3>1. i - Len(a) \in 1 .. Len(b) /\ c[i] = b[i - Len(a)]
      BY <1>1, <2>3 DEF c
    <3>2. QED
      BY <2>1, <3>1 DEF Carries
  <2>4. QED
    BY <1>1, <2>2, <2>3
<1>3. ASSUME Carries(a, n) PROVE Carries(c, n)
  <2>1. PICK i \in 1 .. Len(a) : a[i] = Stream!Command(n)
    BY <1>3 DEF Carries
  <2>2. i \in 1 .. Len(c) /\ c[i] = Stream!Command(n)
    BY <1>1, <2>1 DEF c
  <2>3. QED
    BY <2>2 DEF Carries
<1>4. ASSUME Carries(b, n) PROVE Carries(c, n)
  <2>1. PICK i \in 1 .. Len(b) : b[i] = Stream!Command(n)
    BY <1>4 DEF Carries
  <2>2. i + Len(a) \in 1 .. Len(c) /\ c[i + Len(a)] = Stream!Command(n)
    BY <1>1, <2>1 DEF c
  <2>3. QED
    BY <2>2 DEF Carries
<1>5. QED
  BY <1>2, <1>3, <1>4 DEF c

\* No line, and one line.
LEMMA FewLines ==
    /\ <<>> \in Lines
    /\ \A t, x : Silent(<<>>, t) /\ ~Tells(<<>>, t, x)
    /\ \A n : ~Carries(<<>>, n)
    /\ \A m \in Stream!Messages : <<m>> \in Lines /\ Len(<<m>>) = 1
    /\ \A m \in Stream!Messages : \A t : Silent(<<m>>, t) <=> ~Stream!About(m, t)
    /\ \A m \in Stream!Messages : \A t, x : Tells(<<m>>, t, x) <=> m = Stream!State(t, x)
    /\ \A m \in Stream!Messages : \A n : Carries(<<m>>, n) <=> m = Stream!Command(n)
<1>1. /\ <<>> \in Lines
      /\ \A t, x : Silent(<<>>, t) /\ ~Tells(<<>>, t, x)
      /\ \A n : ~Carries(<<>>, n)
  BY DEF Lines, Silent, Tells, Carries
<1>2. ASSUME NEW m \in Stream!Messages
      PROVE  /\ <<m>> \in Lines /\ Len(<<m>>) = 1 /\ <<m>>[1] = m
  BY DEF Lines
<1>3. ASSUME NEW m \in Stream!Messages
      PROVE  /\ \A t : Silent(<<m>>, t) <=> ~Stream!About(m, t)
             /\ \A t, x : Tells(<<m>>, t, x) <=> m = Stream!State(t, x)
             /\ \A n : Carries(<<m>>, n) <=> m = Stream!Command(n)
  <2> DEFINE s == <<m>>
  <2>1. Len(s) = 1 /\ s[1] = m
    BY <1>2
  <2> HIDE DEF s
  <2>2. QED
    BY <2>1 DEF Silent, Tells, Carries, s
<1>4. QED
  BY <1>1, <1>2, <1>3

\* The first line of several.
LEMMA HeadTells ==
    ASSUME NEW s \in Lines, s # <<>>
    PROVE  /\ Head(s) \in Stream!Messages /\ Tail(s) \in Lines /\ Len(Tail(s)) = Len(s) - 1
           /\ Len(s) \in Nat \ {0}
           /\ \A t, x : Tells(s, t, x) => \/ Tells(Tail(s), t, x)
                                          \/ Silent(Tail(s), t) /\ Head(s) = Stream!State(t, x)
           /\ \A t : Silent(s, t) => Silent(Tail(s), t) /\ ~Stream!About(Head(s), t)
           /\ \A n : Carries(s, n) <=> Carries(Tail(s), n) \/ Head(s) = Stream!Command(n)
<1>1. /\ Head(s) \in Stream!Messages /\ Tail(s) \in Lines /\ Len(Tail(s)) = Len(s) - 1
      /\ \A i \in 1 .. Len(s) - 1 : Tail(s)[i] = s[i + 1]
      /\ Head(s) = s[1] /\ Len(s) \in Nat \ {0}
  BY HeadTailProperties, LenProperties, EmptySeq DEF Lines
<1> DEFINE r == Tail(s)
           h == Head(s)
<1> HIDE DEF r, h
<1>2. /\ Len(r) = Len(s) - 1 /\ h = s[1] /\ Len(s) \in Nat \ {0}
      /\ \A i \in 1 .. Len(s) - 1 : r[i] = s[i + 1]
  BY <1>1 DEF r, h
<1>3. \A i \in 2 .. Len(s) : i - 1 \in 1 .. Len(r) /\ r[i - 1] = s[i]
  BY <1>2
<1>4. ASSUME NEW t, NEW x, Tells(s, t, x)
      PROVE  Tells(r, t, x) \/ (Silent(r, t) /\ h = Stream!State(t, x))
  <2>1. PICK i \in 1 .. Len(s) : /\ s[i] = Stream!State(t, x)
                                 /\ \A j \in i + 1 .. Len(s) : ~Stream!About(s[j], t)
    BY <1>4 DEF Tells
  <2>2. ASSUME NEW j \in i .. Len(r), j # 0 PROVE ~Stream!About(r[j], t)
    <3>1. j + 1 \in i + 1 .. Len(s) /\ r[j] = s[j + 1]
      BY <1>2, <2>2
    <3>2. QED
      BY <2>1, <3>1
  <2>3. CASE i = 1
    BY <1>2, <2>1, <2>2, <2>3 DEF Silent
  <2>4. CASE i # 1
    <3>1. i - 1 \in 1 .. Len(r) /\ r[i - 1] = Stream!State(t, x)
      BY <1>3, <2>1, <2>4
    <3>2. \A j \in i .. Len(r) : ~Stream!About(r[j], t)
      BY <2>2
    <3>3. QED
      BY <1>2, <3>1, <3>2 DEF Tells
  <2>5. QED
    BY <2>3, <2>4
<1>5. ASSUME NEW t, Silent(s, t) PROVE Silent(r, t) /\ ~Stream!About(h, t)
  BY <1>2, <1>5 DEF Silent
<1>6. ASSUME NEW n PROVE Carries(s, n) <=> Carries(r, n) \/ h = Stream!Command(n)
  <2>1. ASSUME Carries(r, n) PROVE Carries(s, n)
    BY <1>2, <2>1 DEF Carries
  <2>2. ASSUME h = Stream!Command(n) PROVE Carries(s, n)
    <3>1. 1 \in 1 .. Len(s) /\ s[1] = Stream!Command(n)
      BY <1>2, <2>2
    <3>2. QED
      BY <3>1 DEF Carries
  <2>3. ASSUME Carries(s, n) PROVE Carries(r, n) \/ h = Stream!Command(n)
    <3>1. PICK i \in 1 .. Len(s) : s[i] = Stream!Command(n)
      BY <2>3 DEF Carries
    <3>2. CASE i = 1
      BY <1>2, <3>1, <3>2
    <3>3. CASE i # 1
      BY <1>2, <1>3, <3>1, <3>3 DEF Carries
    <3>4. QED
      BY <3>2, <3>3
  <2>4. QED
    BY <2>1, <2>2, <2>3
<1>7. QED
  BY <1>1, <1>4, <1>5, <1>6 DEF r, h

\* A line behind the others.
LEMMA AppendTells ==
    ASSUME NEW s \in Lines, NEW m \in Stream!Messages
    PROVE  /\ Append(s, m) \in Lines /\ Len(Append(s, m)) = Len(s) + 1 /\ Len(s) \in Nat
           /\ \A t, x : m = Stream!State(t, x) => Tells(Append(s, m), t, x)
           /\ \A t, x : ~Stream!About(m, t) /\ Tells(s, t, x) => Tells(Append(s, m), t, x)
           /\ \A t : ~Stream!About(m, t) /\ Silent(s, t) => Silent(Append(s, m), t)
           /\ \A n : Carries(Append(s, m), n) <=> Carries(s, n) \/ m = Stream!Command(n)
<1>1. /\ Append(s, m) = s \o <<m>> /\ Append(s, m) \in Lines
      /\ Len(Append(s, m)) = Len(s) + 1 /\ Len(s) \in Nat
  BY AppendProperties, AppendIsConcat, LenProperties DEF Lines
<1>2. <<m>> \in Lines
  BY FewLines
<1>3. QED
  BY <1>1, <1>2, ConcatTells, ConcatCarries, FewLines
-----------------------------------------------------------------------------
(* What a connection will have seen, and the moves of its lines            *)

\* The wire, the line being written, the initial lines and the queue, in that order,
\* end with value x of topic t for a UI whose copy is v; command n is among them or in g.
ToldOf(w, p, i, q, v, t, x) ==
    \/ Tells(q, t, x)
    \/ Silent(q, t) /\ \/ Tells(i, t, x)
                       \/ Silent(i, t) /\ \/ Tells(p, t, x)
                                          \/ Silent(p, t) /\ \/ Tells(w, t, x)
                                                             \/ Silent(w, t) /\ v[t] = x
HoldsOf(w, p, i, q, g, n) ==
    n \in g \/ Carries(w, n) \/ Carries(p, n) \/ Carries(i, n) \/ Carries(q, n)

\* Pick takes the first initial line, or the first of the queue, or makes a ping.
LEMMA PickMoves ==
    ASSUME NEW w \in Lines, NEW i \in Lines, NEW q \in Lines, NEW v, NEW g
    PROVE  /\ i # <<>> =>
                /\ \A t, x : ToldOf(w, <<>>, i, q, v, t, x) =>
                             ToldOf(w, <<Head(i)>>, Tail(i), q, v, t, x)
                /\ \A n : HoldsOf(w, <<>>, i, q, g, n) <=>
                          HoldsOf(w, <<Head(i)>>, Tail(i), q, g, n)
           /\ q # <<>> =>
                /\ \A t, x : ToldOf(w, <<>>, <<>>, q, v, t, x) =>
                             ToldOf(w, <<Head(q)>>, <<>>, Tail(q), v, t, x)
                /\ \A n : HoldsOf(w, <<>>, <<>>, q, g, n) <=>
                          HoldsOf(w, <<Head(q)>>, <<>>, Tail(q), g, n)
           /\ \A t, x : ToldOf(w, <<>>, i, q, v, t, x) =>
                        ToldOf(w, <<Stream!Ping>>, i, q, v, t, x)
           /\ \A n : HoldsOf(w, <<>>, i, q, g, n) <=>
                     HoldsOf(w, <<Stream!Ping>>, i, q, g, n)
<1>1. ASSUME i # <<>>
      PROVE  /\ \A t, x : ToldOf(w, <<>>, i, q, v, t, x) =>
                          ToldOf(w, <<Head(i)>>, Tail(i), q, v, t, x)
             /\ \A n : HoldsOf(w, <<>>, i, q, g, n) <=>
                       HoldsOf(w, <<Head(i)>>, Tail(i), q, g, n)
  <2>1. \A t, x : ToldOf(w, <<>>, i, q, v, t, x) =>
                  ToldOf(w, <<Head(i)>>, Tail(i), q, v, t, x)
    BY <1>1, HeadTells, FewLines DEF ToldOf
  <2>2. \A n : HoldsOf(w, <<>>, i, q, g, n) <=>
               HoldsOf(w, <<Head(i)>>, Tail(i), q, g, n)
    BY <1>1, HeadTells, FewLines DEF HoldsOf
  <2>3. QED
    BY <2>1, <2>2
<1>2. ASSUME q # <<>>
      PROVE  /\ \A t, x : ToldOf(w, <<>>, <<>>, q, v, t, x) =>
                          ToldOf(w, <<Head(q)>>, <<>>, Tail(q), v, t, x)
             /\ \A n : HoldsOf(w, <<>>, <<>>, q, g, n) <=>
                       HoldsOf(w, <<Head(q)>>, <<>>, Tail(q), g, n)
  <2>1. \A t, x : ToldOf(w, <<>>, <<>>, q, v, t, x) =>
                  ToldOf(w, <<Head(q)>>, <<>>, Tail(q), v, t, x)
    BY <1>2, HeadTells, FewLines DEF ToldOf
  <2>2. \A n : HoldsOf(w, <<>>, <<>>, q, g, n) <=>
               HoldsOf(w, <<Head(q)>>, <<>>, Tail(q), g, n)
    BY <1>2, HeadTells, FewLines DEF HoldsOf
  <2>3. QED
    BY <2>1, <2>2
<1>3. \A t, x : ToldOf(w, <<>>, i, q, v, t, x) => ToldOf(w, <<Stream!Ping>>, i, q, v, t, x)
  BY FewLines, MessageKinds, MessageForms DEF ToldOf
<1>4. \A n : HoldsOf(w, <<>>, i, q, g, n) <=> HoldsOf(w, <<Stream!Ping>>, i, q, g, n)
  BY FewLines, MessageKinds, MessageForms DEF HoldsOf
<1>5. QED
  BY <1>1, <1>2, <1>3, <1>4

\* WriteDone puts the line on the wire.
LEMMA WriteMoves ==
    ASSUME NEW w \in Lines, NEW p \in Lines, NEW i \in Lines, NEW q \in Lines, NEW v, NEW g
    PROVE  /\ \A t, x : ToldOf(w, p, i, q, v, t, x) => ToldOf(w \o p, <<>>, i, q, v, t, x)
           /\ \A n : HoldsOf(w, p, i, q, g, n) <=> HoldsOf(w \o p, <<>>, i, q, g, n)
<1>1. \A t, x : /\ Tells(p, t, x) => Tells(w \o p, t, x)
                /\ Silent(p, t) /\ Tells(w, t, x) => Tells(w \o p, t, x)
                /\ Silent(w \o p, t) <=> Silent(w, t) /\ Silent(p, t)
  BY ConcatTells
<1>2. \A n : Carries(w \o p, n) <=> Carries(w, n) \/ Carries(p, n)
  BY ConcatCarries
<1>3. \A t, x : ToldOf(w, p, i, q, v, t, x) => ToldOf(w \o p, <<>>, i, q, v, t, x)
  BY <1>1, FewLines DEF ToldOf
<1>4. \A n : HoldsOf(w, p, i, q, g, n) <=> HoldsOf(w \o p, <<>>, i, q, g, n)
  BY <1>2, FewLines DEF HoldsOf
<1>5. QED
  BY <1>3, <1>4

\* Read applies the first line of the wire: a state to the copy, a command to what the UI got.
LEMMA ReadMoves ==
    ASSUME NEW w \in Lines, w # <<>>, NEW p, NEW i, NEW q, NEW v \in [Topics -> Values \cup {"unset"}],
           NEW g
    PROVE  LET h == Head(w)
               u == Stream!Apply(v, h)
               k == IF h[1] = "command" THEN g \cup {h[2]} ELSE g
           IN  /\ u \in [Topics -> Values \cup {"unset"}]
               /\ \A t \in Topics : \A x :
                     ToldOf(w, p, i, q, v, t, x) => ToldOf(Tail(w), p, i, q, u, t, x)
               /\ \A n : HoldsOf(w, p, i, q, g, n) <=> HoldsOf(Tail(w), p, i, q, k, n)
               /\ h[1] = "command" => h[2] \in 1 .. MaxCommands
<1> DEFINE h == Head(w)
           r == Tail(w)
           u == Stream!Apply(v, h)
           k == IF h[1] = "command" THEN g \cup {h[2]} ELSE g
<1>1. /\ h \in Stream!Messages /\ r \in Lines
      /\ \A t, x : Tells(w, t, x) => Tells(r, t, x) \/ (Silent(r, t) /\ h = Stream!State(t, x))
      /\ \A t : Silent(w, t) => Silent(r, t) /\ ~Stream!About(h, t)
      /\ \A n : Carries(w, n) <=> Carries(r, n) \/ h = Stream!Command(n)
  BY HeadTells
<1> HIDE DEF h, r
<1>2. /\ u \in [Topics -> Values \cup {"unset"}]
      /\ \A t \in Topics : \A x : h = Stream!State(t, x) => u[t] = x
      /\ \A t \in Topics : ~Stream!About(h, t) => u[t] = v[t]
      /\ h[1] = "command" => h[2] \in 1 .. MaxCommands
  <2>1. CASE \E t \in Topics, x \in Values : h = Stream!State(t, x)
    <3>1. PICK t \in Topics, x \in Values : h = Stream!State(t, x)
      BY <2>1
    <3>2. h[1] = "state" /\ h[2] = t /\ h[3] = x
      BY <3>1, MessageKinds
    <3>3. u = [v EXCEPT ![t] = x]
      BY <3>2 DEF Stream!Apply
    <3>4. \A s \in Topics : \A y : h = Stream!State(s, y) => s = t /\ y = x
      BY <3>2, MessageKinds
    <3>5. \A s \in Topics : ~Stream!About(h, s) => s # t
      BY <3>1, MessageKinds
    <3>6. QED
      BY <3>2, <3>3, <3>4, <3>5
  <2>2. CASE \E n \in 1 .. MaxCommands : h = Stream!Command(n)
    <3>1. PICK n \in 1 .. MaxCommands : h = Stream!Command(n)
      BY <2>2
    <3>2. h[1] = "command" /\ h[2] = n /\ \A t, x : h # Stream!State(t, x)
      BY <3>1, MessageKinds
    <3>3. u = v
      BY <3>2 DEF Stream!Apply
    <3>4. QED
      BY <3>2, <3>3
  <2>3. CASE h = Stream!Ping
    <3>1. h[1] = "ping" /\ \A t, x : h # Stream!State(t, x)
      BY <2>3, MessageKinds
    <3>2. u = v
      BY <3>1 DEF Stream!Apply
    <3>3. QED
      BY <3>1, <3>2
  <2>4. QED
    BY <1>1, <2>1, <2>2, <2>3, MessageForms
<1>3. \A n : n \in k <=> n \in g \/ h = Stream!Command(n)
  <2>1. CASE h[1] = "command"
    <3>1. PICK m \in 1 .. MaxCommands : h = Stream!Command(m)
      BY <1>1, <2>1, MessageForms, MessageKinds
    <3>2. h[2] = m /\ \A n : h = Stream!Command(n) <=> n = m
      BY <3>1, MessageKinds
    <3>3. k = g \cup {m}
      BY <2>1, <3>2
    <3>4. QED
      BY <3>2, <3>3
  <2>2. CASE h[1] # "command"
    BY <2>2, MessageKinds
  <2>3. QED
    BY <2>1, <2>2
<1> HIDE DEF u, k
<1>4. \A t \in Topics : \A x : ToldOf(w, p, i, q, v, t, x) => ToldOf(r, p, i, q, u, t, x)
  BY <1>1, <1>2 DEF ToldOf
<1>5. \A n : HoldsOf(w, p, i, q, g, n) <=> HoldsOf(r, p, i, q, k, n)
  BY <1>1, <1>3 DEF HoldsOf
<1>6. QED
  BY <1>2, <1>4, <1>5 DEF h, r, u, k

\* Broadcast puts a line behind the queue.
LEMMA QueueMoves ==
    ASSUME NEW w, NEW p, NEW i, NEW q \in Lines, NEW v, NEW g, NEW m \in Stream!Messages
    PROVE  /\ \A t, x : ~Stream!About(m, t) /\ ToldOf(w, p, i, q, v, t, x) =>
                        ToldOf(w, p, i, Append(q, m), v, t, x)
           /\ \A t, x : m = Stream!State(t, x) => ToldOf(w, p, i, Append(q, m), v, t, x)
           /\ \A n : HoldsOf(w, p, i, Append(q, m), g, n) <=>
                     HoldsOf(w, p, i, q, g, n) \/ m = Stream!Command(n)
<1>1. \A t, x : ~Stream!About(m, t) /\ ToldOf(w, p, i, q, v, t, x) =>
                ToldOf(w, p, i, Append(q, m), v, t, x)
  BY AppendTells DEF ToldOf
<1>2. \A t, x : m = Stream!State(t, x) => ToldOf(w, p, i, Append(q, m), v, t, x)
  BY AppendTells DEF ToldOf
<1>3. \A n : HoldsOf(w, p, i, Append(q, m), g, n) <=>
             HoldsOf(w, p, i, q, g, n) \/ m = Stream!Command(n)
  BY AppendTells DEF HoldsOf
<1>4. QED
  BY <1>1, <1>2, <1>3
-----------------------------------------------------------------------------
(* The inductive invariant of the stream                                   *)

Conns == Stream!Conns
Live == {"serving", "locking", "writing", "closing"}
Fresh == {"none", "starting", "replacing"}
Copies == [Topics -> Values \cup {"unset"}]

StreamTyped ==
    /\ topics \in Copies /\ topicOrder \in Seq(Topics)
    /\ commands \in Lines /\ Len(commands) <= CommandBuffer
    /\ subscribers \subseteq Conns /\ ctxDone \subseteq Conns
    /\ queue \in [Conns -> Lines] /\ initial \in [Conns -> Lines]
    /\ pending \in [Conns -> Lines] /\ wire \in [Conns -> Lines]
    /\ \A c \in Conns : Len(queue[c]) <= SubscriberBuffer
    /\ sent \in 0 .. MaxCommands /\ sets \in Nat
    /\ startMu \in Conns \cup {0} /\ writeMu \in Conns \cup {0}
    /\ streamID \in Conns \cup {0} /\ streamSub \in Conns \cup {0}
    /\ handler \in [Conns -> Live \cup Fresh \cup {"ended"}]
    /\ client \in [Conns -> {"none", "reading", "stalled", "gone"}]
    /\ view \in [Conns -> Copies] /\ got \in [Conns -> SUBSET Nat]

\* The order holds each topic that was set, once.
Ordered ==
    /\ \A i, j \in 1 .. Len(topicOrder) : topicOrder[i] = topicOrder[j] => i = j
    /\ \A t \in Topics : topics[t] # "unset" <=> \E i \in 1 .. Len(topicOrder) : topicOrder[i] = t

\* Nothing is on its way before the subscription, and no line is in hand between writes.
Unstarted(c) ==
    /\ wire[c] = <<>> /\ pending[c] = <<>> /\ initial[c] = <<>> /\ queue[c] = <<>>
    /\ view[c] = Stream!NoView /\ got[c] = {}
Handlers ==
    \A c \in Conns :
        /\ handler[c] \in Fresh => Unstarted(c)
        /\ handler[c] \in {"serving", "closing", "ended"} => pending[c] = <<>>
        /\ handler[c] = "none" <=> client[c] = "none"

\* One handler writes, one replaces, and one that was not cancelled is the stream.
OneStream ==
    /\ \A c \in Conns :
        /\ handler[c] = "writing" => writeMu = c /\ streamID = c
        /\ handler[c] = "replacing" => startMu = c
        /\ handler[c] \in Live /\ c \notin ctxDone => streamID = c /\ streamSub = c
        /\ c \in subscribers => streamSub = c /\ handler[c] \in Live
    /\ streamSub # 0 => streamSub = streamID
    /\ startMu # 0 => /\ handler[startMu] = "replacing" /\ subscribers = {}
                      /\ streamSub \in ctxDone \cup {0}
    /\ \A c \in subscribers : client[c] = "gone" \/ c \notin ctxDone

\* A subscriber has been or will be told every topic.
Told(c) ==
    \A t \in Topics :
        ToldOf(wire[c], pending[c], initial[c], queue[c], view[c], t, topics[t])
Gapless == \A c \in subscribers : client[c] # "gone" => Told(c)

\* A command was sent, and is in one place.
Holds(c, n) == HoldsOf(wire[c], pending[c], initial[c], queue[c], got[c], n)
Once ==
    /\ \A t : Silent(commands, t)
    /\ \A n : Carries(commands, n) => n \in 1 .. sent /\ \A c \in Conns : ~Holds(c, n)
    /\ \A c \in Conns : \A n : Holds(c, n) => n \in 1 .. sent
    /\ \A c, d \in Conns : \A n : Holds(c, n) /\ Holds(d, n) => c = d

StreamInv == StreamTyped /\ Ordered /\ Handlers /\ OneStream /\ Gapless /\ Once

-----------------------------------------------------------------------------
(* What the invariant says of the properties                               *)

\* The last of the lines about a topic is the one Settled takes.
LEMMA LastCounts ==
    ASSUME NEW s \in Lines, NEW t, NEW x, NEW y
    PROVE  LET about == {i \in DOMAIN s : Stream!About(s[i], t)}
               value == IF about = {} THEN y ELSE s[Stream!Max(about)][3]
           IN  /\ Tells(s, t, x) => value = x
               /\ Silent(s, t) => value = y
<1> DEFINE about == {i \in DOMAIN s : Stream!About(s[i], t)}
<1>1. DOMAIN s = 1 .. Len(s) /\ Len(s) \in Nat
  BY LenProperties DEF Lines
<1>2. ASSUME Silent(s, t) PROVE about = {}
  BY <1>1, <1>2 DEF Silent
<1>3. ASSUME Tells(s, t, x) PROVE about # {} /\ s[Stream!Max(about)][3] = x
  <2>1. PICK i \in 1 .. Len(s) : /\ s[i] = Stream!State(t, x)
                                 /\ \A j \in i + 1 .. Len(s) : ~Stream!About(s[j], t)
    BY <1>3 DEF Tells
  <2>2. Stream!About(s[i], t) /\ s[i][3] = x
    BY <2>1, MessageKinds
  <2>3. i \in about /\ about \subseteq 1 .. Len(s)
    BY <1>1, <2>1, <2>2
  <2>4. \A j \in about : i >= j
    <3>1. ASSUME NEW j \in about, j > i PROVE FALSE
      <4>1. j \in i + 1 .. Len(s) /\ Stream!About(s[j], t)
        BY <1>1, <3>1
      <4>2. QED
        BY <2>1, <4>1
    <3>2. QED
      BY <1>1, <2>3, <3>1
  <2> HIDE DEF about
  <2>5. Stream!Max(about) \in about /\ \A j \in about : Stream!Max(about) >= j
    BY <2>3, <2>4 DEF Stream!Max
  <2>6. Stream!Max(about) = i
    <3> DEFINE m == Stream!Max(about)
    <3>1. m \in about /\ \A j \in about : m >= j
      BY <2>5
    <3> HIDE DEF m
    <3>2. m \in 1 .. Len(s) /\ i >= m /\ m >= i
      BY <2>3, <2>4, <3>1
    <3>3. m = i
      BY <1>1, <3>2
    <3>4. QED
      BY <3>3 DEF m
  <2>7. QED
    BY <2>2, <2>3, <2>6
<1>4. QED
  BY <1>2, <1>3

\* The invariant implies that a subscribed UI misses nothing.
LEMMA InvNoGap ==
    ASSUME StreamInv
    PROVE  Stream!NoGap
<1> SUFFICES ASSUME NEW c \in subscribers, client[c] # "gone"
             PROVE  Stream!Settled(c) = topics
  BY DEF Stream!NoGap
<1> DEFINE w == wire[c]
           p == pending[c]
           i == initial[c]
           q == queue[c]
           s == w \o p \o i \o q
<1>1. /\ c \in Conns /\ w \in Lines /\ p \in Lines /\ i \in Lines /\ q \in Lines
      /\ topics \in Copies /\ Told(c)
  BY DEF StreamInv, StreamTyped, Gapless
<1>2. Stream!OnItsWay(c) = s
  BY DEF Stream!OnItsWay
<1> HIDE DEF w, p, i, q
<1>3. w \o p \in Lines /\ w \o p \o i \in Lines /\ s \in Lines
  <2>1. w \o p \in Lines
    BY <1>1, ConcatTells
  <2>2. w \o p \o i \in Lines
    BY <1>1, <2>1, ConcatTells
  <2>3. QED
    BY <1>1, <2>1, <2>2, ConcatTells
<1>4. ASSUME NEW t \in Topics
      PROVE  Tells(s, t, topics[t]) \/ (Silent(s, t) /\ view[c][t] = topics[t])
  <2> DEFINE x == topics[t]
  <2>1. /\ Tells(p, t, x) => Tells(w \o p, t, x)
        /\ Silent(p, t) /\ Tells(w, t, x) => Tells(w \o p, t, x)
        /\ Silent(w \o p, t) <=> Silent(w, t) /\ Silent(p, t)
    BY <1>1, ConcatTells
  <2>2. /\ Tells(i, t, x) => Tells(w \o p \o i, t, x)
        /\ Silent(i, t) /\ Tells(w \o p, t, x) => Tells(w \o p \o i, t, x)
        /\ Silent(w \o p \o i, t) <=> Silent(w \o p, t) /\ Silent(i, t)
    BY <1>1, <1>3, ConcatTells
  <2>3. /\ Tells(q, t, x) => Tells(s, t, x)
        /\ Silent(q, t) /\ Tells(w \o p \o i, t, x) => Tells(s, t, x)
        /\ Silent(s, t) <=> Silent(w \o p \o i, t) /\ Silent(q, t)
    BY <1>1, <1>3, ConcatTells
  <2>4. ToldOf(w, p, i, q, view[c], t, x)
    BY <1>1 DEF Told, w, p, i, q
  <2>5. QED
    BY <2>1, <2>2, <2>3, <2>4 DEF ToldOf
<1> HIDE DEF s
<1> DEFINE about(t) == {k \in DOMAIN s : Stream!About(s[k], t)}
           value(t) == IF about(t) = {} THEN view[c][t] ELSE s[Stream!Max(about(t))][3]
<1>5. ASSUME NEW t \in Topics PROVE value(t) = topics[t]
  <2>1. CASE Tells(s, t, topics[t])
    BY <1>3, <2>1, LastCounts
  <2>2. CASE Silent(s, t) /\ view[c][t] = topics[t]
    BY <1>3, <2>2, LastCounts
  <2>3. QED
    BY <1>4, <2>1, <2>2
<1>6. Stream!Settled(c) = [t \in Topics |-> value(t)]
  BY <1>2 DEF Stream!Settled, s
<1> HIDE DEF value
<1>7. QED
  BY <1>1, <1>5, <1>6 DEF Copies

\* And that a command is in one place.
LEMMA InvOnce ==
    ASSUME StreamInv
    PROVE  Stream!OnceDelivered
<1> DEFINE has(c, n) == n \in got[c] \/ Stream!Command(n) \in Stream!Range(Stream!OnItsWay(c))
<1>1. \A s \in Lines : \A n : Stream!Command(n) \in Stream!Range(s) <=> Carries(s, n)
  <2>1. ASSUME NEW s \in Lines, NEW n
        PROVE  Stream!Command(n) \in Stream!Range(s) <=> Carries(s, n)
    <3>1. DOMAIN s = 1 .. Len(s)
      BY LenProperties DEF Lines
    <3>2. QED
      BY <3>1 DEF Stream!Range, Carries
  <2>2. QED
    BY <2>1
<1>2. ASSUME NEW c \in Conns, NEW n PROVE has(c, n) <=> Holds(c, n)
  <2> DEFINE w == wire[c]
             p == pending[c]
             i == initial[c]
             q == queue[c]
  <2>1. w \in Lines /\ p \in Lines /\ i \in Lines /\ q \in Lines
    BY DEF StreamInv, StreamTyped
  <2>2. Stream!OnItsWay(c) = w \o p \o i \o q
    BY DEF Stream!OnItsWay
  <2> HIDE DEF w, p, i, q
  <2>3. w \o p \in Lines /\ w \o p \o i \in Lines /\ w \o p \o i \o q \in Lines
    <3>1. w \o p \in Lines
      BY <2>1, ConcatTells
    <3>2. w \o p \o i \in Lines
      BY <2>1, <3>1, ConcatTells
    <3>3. QED
      BY <2>1, <3>1, <3>2, ConcatTells
  <2>4. Carries(w \o p, n) <=> Carries(w, n) \/ Carries(p, n)
    BY <2>1, ConcatCarries
  <2>5. Carries(w \o p \o i, n) <=> Carries(w \o p, n) \/ Carries(i, n)
    BY <2>1, <2>3, ConcatCarries
  <2>6. Carries(w \o p \o i \o q, n) <=> Carries(w \o p \o i, n) \/ Carries(q, n)
    BY <2>1, <2>3, ConcatCarries
  <2>7. Stream!Command(n) \in Stream!Range(Stream!OnItsWay(c)) <=> Carries(w \o p \o i \o q, n)
    BY <1>1, <2>2, <2>3
  <2>8. QED
    BY <2>4, <2>5, <2>6, <2>7 DEF Holds, HoldsOf, w, p, i, q
<1>3. ASSUME NEW n \in 1 .. sent
      PROVE  /\ \A c, d \in Conns : has(c, n) /\ has(d, n) => c = d
             /\ Stream!Command(n) \in Stream!Range(commands) => \A c \in Conns : ~has(c, n)
  <2>1. commands \in Lines
    BY DEF StreamInv, StreamTyped
  <2>2. QED
    BY <1>1, <1>2, <2>1 DEF StreamInv, Once
<1>4. QED
  BY <1>3 DEF Stream!OnceDelivered, Conns

\* And the types the runs check.
LEMMA InvTypes ==
    ASSUME StreamInv
    PROVE  Stream!TypeOK
<1>1. /\ topics \in [Topics -> Values \cup {Stream!Unset}] /\ topicOrder \in Seq(Topics)
      /\ commands \in Seq(Stream!Messages) /\ Len(commands) <= CommandBuffer
      /\ subscribers \subseteq Stream!Conns /\ ctxDone \subseteq Stream!Conns
      /\ \A c \in Stream!Conns : queue[c] \in Seq(Stream!Messages) /\ Len(queue[c]) <= SubscriberBuffer
      /\ {startMu, writeMu, streamID, streamSub} \subseteq Stream!Conns \cup {Stream!NoConn}
      /\ view \in [Stream!Conns -> [Topics -> Values \cup {Stream!Unset}]]
  BY DEF StreamInv, StreamTyped, Copies, Conns, Lines, Stream!Unset, Stream!NoConn
<1>2. /\ handler \in [Stream!Conns -> {"none", "starting", "replacing", "serving", "locking",
                                       "writing", "closing", "ended"}]
      /\ client \in [Stream!Conns -> {"none", "reading", "stalled", "gone"}]
  BY DEF StreamInv, StreamTyped, Conns, Live, Fresh
<1>3. Stream!IsInjective(topicOrder)
  <2>1. DOMAIN topicOrder = 1 .. Len(topicOrder)
    BY LenProperties DEF StreamInv, StreamTyped
  <2>2. QED
    BY <2>1 DEF StreamInv, Ordered, Stream!IsInjective
<1>4. QED
  BY <1>1, <1>2, <1>3 DEF Stream!TypeOK
-----------------------------------------------------------------------------
(* Steps of one handler or one UI                                          *)

\* Lines of a connection that changed nothing of its own.
LEMMA SameLines ==
    ASSUME NEW d \in Conns, topics' = topics,
           wire'[d] = wire[d], pending'[d] = pending[d], initial'[d] = initial[d],
           queue'[d] = queue[d], view'[d] = view[d], got'[d] = got[d]
    PROVE  /\ Told(d)' <=> Told(d)
           /\ \A n : Holds(d, n)' <=> Holds(d, n)
  BY DEF Told, Holds

\* Steps that only move or lose lines keep what the hub promised.
LEMMA LinesKept ==
    ASSUME StreamInv, UNCHANGED <<topics, topicOrder, commands, sent>>,
           \A d \in subscribers' : client'[d] # "gone" =>
               d \in subscribers /\ client[d] # "gone" /\ (Told(d) => Told(d)'),
           \A d \in Conns : \A n : Holds(d, n)' => Holds(d, n)
    PROVE  Ordered' /\ Gapless' /\ Once'
<1>1. Ordered'
  BY DEF StreamInv, Ordered
<1>2. Gapless'
  BY DEF StreamInv, Gapless
<1>3. Once'
  BY DEF StreamInv, Once
<1>4. QED
  BY <1>1, <1>2, <1>3

\* A UI opens its stream.
LEMMA ConnectKeeps ==
    ASSUME StreamInv, NEW c \in Conns, Stream!Connect(c)
    PROVE  StreamInv'
<1> USE DEF Stream!Connect, Stream!hub, Stream!server, Conns
<1>1. StreamTyped'
  BY DEF StreamInv, StreamTyped, Live, Fresh
<1>2. Handlers'
  BY DEF StreamInv, StreamTyped, Handlers, Unstarted, Live, Fresh
<1>3. OneStream'
  BY DEF StreamInv, StreamTyped, Handlers, OneStream, Live, Fresh
<1>4. \A d \in Conns : (Told(d)' <=> Told(d)) /\ \A n : Holds(d, n)' <=> Holds(d, n)
  BY SameLines
<1>5. Ordered' /\ Gapless' /\ Once'
  BY <1>4, LinesKept DEF StreamInv, StreamTyped
<1>6. QED
  BY <1>1, <1>2, <1>3, <1>5 DEF StreamInv

\* streamStartMu: the previous stream is cancelled and unsubscribed.
LEMMA ReplaceKeeps ==
    ASSUME StreamInv, NEW c \in Conns, Stream!Replace(c)
    PROVE  StreamInv'
<1> USE DEF Stream!Replace, Stream!ui, Stream!NoConn, Conns
<1>1. StreamTyped'
  BY DEF StreamInv, StreamTyped, Live, Fresh
<1>2. Handlers'
  BY DEF StreamInv, StreamTyped, Handlers, Unstarted, Live, Fresh
<1>3. OneStream'
  <2>1. CASE c \in ctxDone
    <3>1. /\ handler[c] = "starting" /\ handler' = [handler EXCEPT ![c] = "ended"]
          /\ UNCHANGED <<subscribers, ctxDone, startMu, writeMu, streamID, streamSub, client>>
      BY <2>1
    <3>2. \A d \in Conns : handler'[d] = IF d = c THEN "ended" ELSE handler[d]
      BY <3>1 DEF StreamInv, StreamTyped
    <3> HIDE DEF Stream!Replace, Conns
    <3>3. QED
      BY <3>1, <3>2 DEF StreamInv, StreamTyped, OneStream, Live
  <2>2. CASE c \notin ctxDone
    <3>1. /\ handler' = [handler EXCEPT ![c] = "replacing"] /\ handler[c] = "starting"
          /\ startMu = 0 /\ startMu' = c /\ ctxDone' = ctxDone \cup ({streamSub} \ {0})
          /\ subscribers' = {} /\ UNCHANGED <<writeMu, streamID, streamSub, client>>
      BY <2>2 DEF StreamInv, StreamTyped, OneStream
    <3>2. \A d \in Conns : handler'[d] = IF d = c THEN "replacing" ELSE handler[d]
      BY <3>1 DEF StreamInv, StreamTyped
    <3>3. c # 0 /\ streamSub \in Conns \cup {0}
      BY StreamAssumption DEF StreamInv, StreamTyped, Stream!Conns
    <3> HIDE DEF Stream!Replace, Conns
    <3>4. \A d \in Conns : handler'[d] = "replacing" => d = c
      BY <3>1, <3>2, StreamAssumption DEF StreamInv, OneStream, Stream!Conns, Conns
    <3>5. QED
      BY <3>1, <3>2, <3>3, <3>4 DEF StreamInv, OneStream, Live
  <2>3. QED
    BY <2>1, <2>2
<1>4. \A d \in Conns : (Told(d)' <=> Told(d)) /\ \A n : Holds(d, n)' <=> Holds(d, n)
  BY SameLines
<1>5. Ordered' /\ Gapless' /\ Once'
  BY <1>4, LinesKept DEF StreamInv, StreamTyped
<1>6. QED
  BY <1>1, <1>2, <1>3, <1>5 DEF StreamInv

\* The next line is taken from the initial lines or from the queue.
LEMMA PickKeeps ==
    ASSUME StreamInv, NEW c \in Conns, Stream!Pick(c)
    PROVE  StreamInv'
<1> USE DEF Stream!Pick, Stream!server, Stream!ui, Conns
<1>1. /\ wire[c] \in Lines /\ initial[c] \in Lines /\ queue[c] \in Lines /\ pending[c] = <<>>
      /\ Len(queue[c]) <= SubscriberBuffer
  BY DEF StreamInv, StreamTyped, Handlers
<1>2. \A d \in Conns \ {c} : /\ pending'[d] = pending[d] /\ initial'[d] = initial[d]
                             /\ queue'[d] = queue[d]
  BY DEF StreamInv, StreamTyped
<1>3. \/ /\ initial[c] # <<>> /\ pending'[c] = <<Head(initial[c])>>
         /\ initial'[c] = Tail(initial[c]) /\ queue' = queue
      \/ /\ initial[c] = <<>> /\ queue[c] # <<>> /\ pending'[c] = <<Head(queue[c])>>
         /\ queue'[c] = Tail(queue[c]) /\ initial' = initial
  BY DEF StreamInv, StreamTyped
<1>4. /\ pending'[c] \in Lines /\ initial'[c] \in Lines /\ queue'[c] \in Lines
      /\ Len(queue'[c]) <= SubscriberBuffer
  <2>1. CASE initial[c] # <<>>
    <3>1. Head(initial[c]) \in Stream!Messages /\ Tail(initial[c]) \in Lines
      BY <1>1, <2>1, HeadTells
    <3>2. <<Head(initial[c])>> \in Lines
      BY <3>1, FewLines
    <3>3. QED
      BY <1>1, <1>3, <2>1, <3>1, <3>2
  <2>2. CASE initial[c] = <<>>
    <3>1. queue[c] # <<>>
      BY <1>3, <2>2
    <3>2. /\ Len(queue[c]) \in Nat \ {0} /\ Len(Tail(queue[c])) = Len(queue[c]) - 1
          /\ Head(queue[c]) \in Stream!Messages /\ Tail(queue[c]) \in Lines
      BY <1>1, <3>1, HeadTells
    <3>3. <<Head(queue[c])>> \in Lines
      BY <3>2, FewLines
    <3>4. Len(Tail(queue[c])) <= SubscriberBuffer
      BY <1>1, <3>2, StreamAssumption
    <3>5. QED
      BY <1>1, <1>3, <2>2, <3>2, <3>3, <3>4
  <2>3. QED
    BY <2>1, <2>2
<1>5. StreamTyped'
  BY <1>2, <1>4 DEF StreamInv, StreamTyped, Live, Fresh
<1>6. Handlers'
  BY <1>2 DEF StreamInv, StreamTyped, Handlers, Unstarted, Live, Fresh
<1>7. OneStream'
  BY DEF StreamInv, StreamTyped, Handlers, OneStream, Live, Fresh
<1>8. (Told(c) => Told(c)') /\ \A n : Holds(c, n)' <=> Holds(c, n)
  <2> DEFINE w == wire[c]
             i == initial[c]
             q == queue[c]
             v == view[c]
             g == got[c]
  <2>1. w \in Lines /\ i \in Lines /\ q \in Lines
    BY <1>1
  <2>2. /\ w = wire'[c] /\ v = view'[c] /\ g = got'[c] /\ topics' = topics
        /\ \/ i # <<>> /\ pending'[c] = <<Head(i)>> /\ initial'[c] = Tail(i) /\ queue'[c] = q
           \/ i = <<>> /\ q # <<>> /\ pending'[c] = <<Head(q)>> /\ initial'[c] = <<>> /\ queue'[c] = Tail(q)
    BY <1>3
  <2>3. /\ Told(c) <=> \A t \in Topics : ToldOf(w, <<>>, i, q, v, t, topics[t])
        /\ Told(c)' <=> \A t \in Topics : ToldOf(w, pending'[c], initial'[c], queue'[c], v, t, topics[t])
    BY <1>1, <2>2 DEF Told
  <2>4. ASSUME NEW n
        PROVE  /\ Holds(c, n) <=> HoldsOf(w, <<>>, i, q, g, n)
               /\ Holds(c, n)' <=> HoldsOf(w, pending'[c], initial'[c], queue'[c], g, n)
    BY <1>1, <2>2 DEF Holds
  <2> HIDE DEF w, i, q, v, g
  <2>5. CASE i # <<>>
    <3>1. /\ \A t, x : ToldOf(w, <<>>, i, q, v, t, x) =>
                        ToldOf(w, <<Head(i)>>, Tail(i), q, v, t, x)
          /\ \A n : HoldsOf(w, <<>>, i, q, g, n) <=>
                     HoldsOf(w, <<Head(i)>>, Tail(i), q, g, n)
      BY <2>1, <2>5, PickMoves
    <3>2. ASSUME Told(c) PROVE Told(c)'
      <4>1. pending'[c] = <<Head(i)>> /\ initial'[c] = Tail(i) /\ queue'[c] = q
        BY <2>2, <2>5
      <4>2. \A t \in Topics : ToldOf(w, <<Head(i)>>, Tail(i), q, v, t, topics[t])
        BY <2>3, <3>1, <3>2
      <4>3. QED
        BY <2>3, <4>1, <4>2
    <3>3. ASSUME NEW n PROVE Holds(c, n)' <=> Holds(c, n)
      <4>1. HoldsOf(w, pending'[c], initial'[c], queue'[c], g, n) <=> HoldsOf(w, <<>>, i, q, g, n)
        BY <2>2, <2>5, <3>1
      <4>2. QED
        BY <2>4, <4>1
    <3>4. QED
      BY <3>2, <3>3
  <2>6. CASE i = <<>>
    <3>1. /\ \A t, x : ToldOf(w, <<>>, <<>>, q, v, t, x) =>
                        ToldOf(w, <<Head(q)>>, <<>>, Tail(q), v, t, x)
          /\ \A n : HoldsOf(w, <<>>, <<>>, q, g, n) <=>
                     HoldsOf(w, <<Head(q)>>, <<>>, Tail(q), g, n)
      BY <2>1, <2>2, <2>6, PickMoves
    <3>2. ASSUME Told(c) PROVE Told(c)'
      <4>1. pending'[c] = <<Head(q)>> /\ initial'[c] = <<>> /\ queue'[c] = Tail(q)
        BY <2>2, <2>6
      <4>2. \A t \in Topics : ToldOf(w, <<Head(q)>>, <<>>, Tail(q), v, t, topics[t])
        BY <2>3, <3>1, <3>2, <2>6
      <4>3. QED
        BY <2>3, <4>1, <4>2
    <3>3. ASSUME NEW n PROVE Holds(c, n)' <=> Holds(c, n)
      <4>1. HoldsOf(w, pending'[c], initial'[c], queue'[c], g, n) <=> HoldsOf(w, <<>>, i, q, g, n)
        BY <2>2, <2>6, <3>1
      <4>2. QED
        BY <2>4, <4>1
    <3>4. QED
      BY <3>2, <3>3
  <2>7. QED
    BY <2>5, <2>6
<1>9. \A d \in Conns : (Told(d) => Told(d)') /\ \A n : Holds(d, n)' => Holds(d, n)
  <2>1. ASSUME NEW d \in Conns \ {c}
        PROVE (Told(d) => Told(d)') /\ \A n : Holds(d, n)' => Holds(d, n)
    BY <1>2, SameLines
  <2>2. QED
    BY <1>8, <2>1
<1>10. Ordered' /\ Gapless' /\ Once'
  BY <1>9, LinesKept DEF StreamInv, StreamTyped
<1>11. QED
  BY <1>5, <1>6, <1>7, <1>10 DEF StreamInv

\* The ticker's ping.
LEMMA PickPingKeeps ==
    ASSUME StreamInv, NEW c \in Conns, Stream!PickPing(c)
    PROVE  StreamInv'
<1> USE DEF Stream!PickPing, Stream!hub, Stream!server, Stream!ui, Conns
<1>1. /\ wire[c] \in Lines /\ initial[c] \in Lines /\ queue[c] \in Lines /\ pending[c] = <<>>
      /\ pending'[c] = <<Stream!Ping>> /\ <<Stream!Ping>> \in Lines
  BY FewLines, MessageForms DEF StreamInv, StreamTyped, Handlers
<1>2. \A d \in Conns \ {c} : pending'[d] = pending[d]
  BY DEF StreamInv, StreamTyped
<1>5. StreamTyped'
  BY <1>1, <1>2 DEF StreamInv, StreamTyped, Live, Fresh
<1>6. Handlers'
  BY <1>2 DEF StreamInv, StreamTyped, Handlers, Unstarted, Live, Fresh
<1>7. OneStream'
  BY DEF StreamInv, StreamTyped, Handlers, OneStream, Live, Fresh
<1>8. (Told(c) => Told(c)') /\ \A n : Holds(c, n)' <=> Holds(c, n)
  <2>1. /\ \A t, x : ToldOf(wire[c], <<>>, initial[c], queue[c], view[c], t, x) =>
                      ToldOf(wire[c], <<Stream!Ping>>, initial[c], queue[c], view[c], t, x)
        /\ \A n : HoldsOf(wire[c], <<>>, initial[c], queue[c], got[c], n) <=>
                   HoldsOf(wire[c], <<Stream!Ping>>, initial[c], queue[c], got[c], n)
    BY <1>1, PickMoves
  <2>2. /\ Told(c) <=> \A t \in Topics :
              ToldOf(wire[c], <<>>, initial[c], queue[c], view[c], t, topics[t])
        /\ Told(c)' <=> \A t \in Topics :
              ToldOf(wire[c], <<Stream!Ping>>, initial[c], queue[c], view[c], t, topics[t])
    BY <1>1 DEF Told
  <2>4. Told(c) => Told(c)'
    BY <2>1, <2>2
  <2>5. \A n : Holds(c, n)' <=> Holds(c, n)
    <3>1. ASSUME NEW n PROVE Holds(c, n)' <=> Holds(c, n)
      <4>1. Holds(c, n) <=> HoldsOf(wire[c], <<>>, initial[c], queue[c], got[c], n)
        BY <1>1 DEF Holds
      <4>2. Holds(c, n)' <=> HoldsOf(wire[c], <<Stream!Ping>>, initial[c], queue[c], got[c], n)
        BY <1>1 DEF Holds
      <4>3. QED
        BY <2>1, <4>1, <4>2
    <3>2. QED
      BY <3>1
  <2>6. QED
    BY <2>4, <2>5
<1>9. \A d \in Conns : (Told(d) => Told(d)') /\ \A n : Holds(d, n)' => Holds(d, n)
  <2>1. ASSUME NEW d \in Conns \ {c}
        PROVE (Told(d) => Told(d)') /\ \A n : Holds(d, n)' => Holds(d, n)
    BY <1>2, SameLines
  <2>2. QED
    BY <1>8, <2>1
<1>10. Ordered' /\ Gapless' /\ Once'
  BY <1>9, LinesKept DEF StreamInv, StreamTyped
<1>11. QED
  BY <1>5, <1>6, <1>7, <1>10 DEF StreamInv

\* The line is dropped: the context is done, or the write was interrupted.
LEMMA LineLost ==
    ASSUME StreamInv, NEW c \in Conns,
           handler[c] \in {"locking", "writing"}, c \in ctxDone \/ c \notin subscribers,
           handler' = [handler EXCEPT ![c] = "closing"],
           pending' = [pending EXCEPT ![c] = <<>>],
           writeMu' = IF handler[c] = "writing" THEN 0 ELSE writeMu,
           UNCHANGED <<topics, topicOrder, commands, subscribers, queue, sets, sent, startMu,
                       streamID, streamSub, initial, ctxDone, wire, view, got, client>>
    PROVE  StreamInv'
<1>1. /\ wire[c] \in Lines /\ initial[c] \in Lines /\ queue[c] \in Lines /\ pending[c] \in Lines
      /\ pending'[c] = <<>> /\ <<>> \in Lines
  BY FewLines DEF StreamInv, StreamTyped, Handlers
<1>2. \A d \in Conns \ {c} : pending'[d] = pending[d]
  BY DEF StreamInv, StreamTyped
<1>5. StreamTyped'
  BY <1>1, <1>2 DEF StreamInv, StreamTyped, Live, Fresh
<1>6. Handlers'
  BY <1>2 DEF StreamInv, StreamTyped, Handlers, Unstarted, Live, Fresh
<1>7. OneStream'
  BY DEF StreamInv, StreamTyped, Handlers, OneStream, Live, Fresh
<1>8. c \in subscribers => client[c] = "gone"
  BY DEF StreamInv, OneStream
<1>9. \A n : Holds(c, n)' => Holds(c, n)
  BY <1>1, FewLines DEF Holds, HoldsOf
<1>10. \A d \in Conns \ {c} : (Told(d)' <=> Told(d)) /\ \A n : Holds(d, n)' <=> Holds(d, n)
  BY <1>2, SameLines
<1>11. Ordered' /\ Gapless' /\ Once'
  <2>1. \A d \in subscribers' : client'[d] # "gone" =>
            d \in subscribers /\ client[d] # "gone" /\ (Told(d) => Told(d)')
    BY <1>8, <1>10 DEF StreamInv, StreamTyped
  <2>2. \A d \in Conns : \A n : Holds(d, n)' => Holds(d, n)
    BY <1>9, <1>10
  <2>3. QED
    BY <2>1, <2>2, LinesKept
<1>12. QED
  BY <1>5, <1>6, <1>7, <1>11 DEF StreamInv

\* write takes streamWriteMu and looks at the context.
LEMMA WriteBeginKeeps ==
    ASSUME StreamInv, NEW c \in Conns, Stream!WriteBegin(c)
    PROVE  StreamInv'
<1> USE DEF Stream!WriteBegin, Stream!hub, Stream!ui, Stream!NoConn
<1>1. CASE c \in ctxDone
  BY <1>1, LineLost
<1>2. CASE c \notin ctxDone
  <2>1. StreamTyped'
    BY <1>2 DEF StreamInv, StreamTyped, Live, Fresh
  <2>2. Handlers'
    BY <1>2 DEF StreamInv, StreamTyped, Handlers, Unstarted, Live, Fresh
  <2>3. OneStream'
    BY <1>2 DEF StreamInv, StreamTyped, Handlers, OneStream, Live, Fresh
  <2>4. \A d \in Conns : (Told(d)' <=> Told(d)) /\ \A n : Holds(d, n)' <=> Holds(d, n)
    BY <1>2, SameLines
  <2>5. Ordered' /\ Gapless' /\ Once'
    BY <1>2, <2>4, LinesKept DEF StreamInv, StreamTyped
  <2>6. QED
    BY <2>1, <2>2, <2>3, <2>5 DEF StreamInv
<1>3. QED
  BY <1>1, <1>2

\* The write is interrupted.
LEMMA WriteFailedKeeps ==
    ASSUME StreamInv, NEW c \in Conns, Stream!WriteFailed(c)
    PROVE  StreamInv'
  BY LineLost DEF Stream!WriteFailed, Stream!hub, Stream!ui, Stream!NoConn

\* The line is on the wire.
LEMMA WriteDoneKeeps ==
    ASSUME StreamInv, NEW c \in Conns, Stream!WriteDone(c)
    PROVE  StreamInv'
<1> USE DEF Stream!WriteDone, Stream!hub, Stream!NoConn
<1>1. /\ wire[c] \in Lines /\ initial[c] \in Lines /\ queue[c] \in Lines /\ pending[c] \in Lines
      /\ pending'[c] = <<>> /\ wire'[c] = wire[c] \o pending[c]
  BY DEF StreamInv, StreamTyped
<1>2. \A d \in Conns \ {c} : pending'[d] = pending[d] /\ wire'[d] = wire[d]
  BY DEF StreamInv, StreamTyped
<1>3. <<>> \in Lines /\ wire'[c] \in Lines
  <2>1. <<>> \in Lines
    BY FewLines
  <2>2. wire[c] \o pending[c] \in Lines
    BY <1>1, ConcatTells
  <2>3. QED
    BY <1>1, <2>1, <2>2
<1>5. StreamTyped'
  BY <1>1, <1>2, <1>3 DEF StreamInv, StreamTyped, Live, Fresh
<1>6. Handlers'
  BY <1>2 DEF StreamInv, StreamTyped, Handlers, Unstarted, Live, Fresh
<1>7. OneStream'
  BY DEF StreamInv, StreamTyped, Handlers, OneStream, Live, Fresh
<1>8. (Told(c) => Told(c)') /\ \A n : Holds(c, n)' <=> Holds(c, n)
  <2>1. /\ \A t, x : ToldOf(wire[c], pending[c], initial[c], queue[c], view[c], t, x) =>
                      ToldOf(wire[c] \o pending[c], <<>>, initial[c], queue[c], view[c], t, x)
        /\ \A n : HoldsOf(wire[c], pending[c], initial[c], queue[c], got[c], n) <=>
                   HoldsOf(wire[c] \o pending[c], <<>>, initial[c], queue[c], got[c], n)
    BY <1>1, WriteMoves
  <2>2. /\ Told(c) <=> \A t \in Topics :
              ToldOf(wire[c], pending[c], initial[c], queue[c], view[c], t, topics[t])
        /\ Told(c)' <=> \A t \in Topics :
              ToldOf(wire[c] \o pending[c], <<>>, initial[c], queue[c], view[c], t, topics[t])
    BY <1>1 DEF Told
  <2>4. Told(c) => Told(c)'
    BY <2>1, <2>2
  <2>5. \A n : Holds(c, n)' <=> Holds(c, n)
    <3>1. ASSUME NEW n PROVE Holds(c, n)' <=> Holds(c, n)
      <4>1. Holds(c, n) <=> HoldsOf(wire[c], pending[c], initial[c], queue[c], got[c], n)
        BY <1>1 DEF Holds
      <4>2. Holds(c, n)' <=> HoldsOf(wire[c] \o pending[c], <<>>, initial[c], queue[c], got[c], n)
        BY <1>1 DEF Holds
      <4>3. QED
        BY <2>1, <4>1, <4>2
    <3>2. QED
      BY <3>1
  <2>6. QED
    BY <2>4, <2>5
<1>9. \A d \in Conns : (Told(d) => Told(d)') /\ \A n : Holds(d, n)' => Holds(d, n)
  <2>1. ASSUME NEW d \in Conns \ {c}
        PROVE (Told(d) => Told(d)') /\ \A n : Holds(d, n)' => Holds(d, n)
    BY <1>2, SameLines
  <2>2. QED
    BY <1>8, <2>1
<1>10. Ordered' /\ Gapless' /\ Once'
  BY <1>9, LinesKept DEF StreamInv, StreamTyped
<1>11. QED
  BY <1>5, <1>6, <1>7, <1>10 DEF StreamInv

\* The select sees the context or Done.
LEMMA LeaveKeeps ==
    ASSUME StreamInv, NEW c \in Conns, Stream!Leave(c)
    PROVE  StreamInv'
<1> USE DEF Stream!Leave, Stream!hub, Stream!server, Stream!ui
<1>1. StreamTyped'
  BY DEF StreamInv, StreamTyped, Live, Fresh
<1>2. Handlers'
  BY DEF StreamInv, StreamTyped, Handlers, Unstarted, Live, Fresh
<1>3. OneStream'
  BY DEF StreamInv, StreamTyped, Handlers, OneStream, Live, Fresh
<1>4. \A d \in Conns : (Told(d)' <=> Told(d)) /\ \A n : Holds(d, n)' <=> Holds(d, n)
  BY SameLines
<1>5. Ordered' /\ Gapless' /\ Once'
  BY <1>4, LinesKept DEF StreamInv, StreamTyped
<1>6. QED
  BY <1>1, <1>2, <1>3, <1>5 DEF StreamInv

\* The deferred calls: what was not sent goes with the handler.
LEMMA CloseKeeps ==
    ASSUME StreamInv, NEW c \in Conns, Stream!Close(c)
    PROVE  StreamInv'
<1> USE DEF Stream!Close, Stream!ui, Stream!NoConn
<1>1. /\ wire[c] \in Lines /\ initial[c] \in Lines /\ queue[c] \in Lines /\ pending[c] \in Lines
      /\ queue'[c] = <<>> /\ initial'[c] = <<>> /\ <<>> \in Lines
      /\ UNCHANGED <<wire, pending, view, got, client, topics>>
  BY FewLines DEF StreamInv, StreamTyped
<1>2. \A d \in Conns \ {c} : queue'[d] = queue[d] /\ initial'[d] = initial[d]
  BY DEF StreamInv, StreamTyped
<1>3. Len(<<>>) <= SubscriberBuffer
  BY StreamAssumption
<1>4. StreamTyped'
  BY <1>1, <1>2, <1>3 DEF StreamInv, StreamTyped, Live, Fresh
<1>5. Handlers'
  BY <1>1, <1>2 DEF StreamInv, StreamTyped, Handlers, Unstarted, Live, Fresh
<1>6. OneStream'
  <2>1. /\ handler[c] = "closing" /\ subscribers' = subscribers \ {c}
        /\ ctxDone' = ctxDone \cup {c}
        /\ streamSub' = IF streamID = c THEN 0 ELSE streamSub
        /\ UNCHANGED <<startMu, writeMu, streamID, client>>
    OBVIOUS
  <2>2. \A d \in Conns : handler'[d] = IF d = c THEN "ended" ELSE handler[d]
    BY DEF StreamInv, StreamTyped
  <2> HIDE DEF Stream!Close
  <2>3. QED
    BY <2>1, <2>2 DEF StreamInv, StreamTyped, OneStream, Live
<1>7. \A n : Holds(c, n)' => Holds(c, n)
  BY <1>1, FewLines DEF Holds, HoldsOf
<1>8. \A d \in Conns \ {c} : (Told(d)' <=> Told(d)) /\ \A n : Holds(d, n)' <=> Holds(d, n)
  BY <1>1, <1>2, SameLines
<1>9. Ordered' /\ Gapless' /\ Once'
  <2>1. \A d \in subscribers' : client'[d] # "gone" =>
            d \in subscribers /\ client[d] # "gone" /\ (Told(d) => Told(d)')
    BY <1>8 DEF StreamInv, StreamTyped
  <2>2. \A d \in Conns : \A n : Holds(d, n)' => Holds(d, n)
    BY <1>7, <1>8
  <2>3. QED
    BY <2>1, <2>2, LinesKept
<1>10. QED
  BY <1>4, <1>5, <1>6, <1>9 DEF StreamInv

\* The UI reads one line.
LEMMA ReadKeeps ==
    ASSUME StreamInv, NEW c \in Conns, Stream!Read(c)
    PROVE  StreamInv'
<1> DEFINE w == wire[c]
           u == Stream!Apply(view[c], Head(w))
           k == IF Head(w)[1] = "command" THEN got[c] \cup {Head(w)[2]} ELSE got[c]
<1> USE DEF Stream!Read, Stream!hub, Stream!server, Stream!serve
<1>1. /\ w \in Lines /\ w # <<>> /\ view[c] \in Copies /\ got[c] \in SUBSET Nat
      /\ client[c] = "reading"
      /\ wire'[c] = Tail(w) /\ view'[c] = u /\ got'[c] = k
      /\ UNCHANGED <<pending, initial, queue, topics, topicOrder, commands, sent, client,
                     subscribers, handler>>
  BY DEF StreamInv, StreamTyped
<1>2. \A d \in Conns \ {c} : wire'[d] = wire[d] /\ view'[d] = view[d] /\ got'[d] = got[d]
  BY DEF StreamInv, StreamTyped
<1>3. /\ u \in Copies /\ Tail(w) \in Lines
      /\ \A t \in Topics : \A x : ToldOf(w, pending[c], initial[c], queue[c], view[c], t, x) =>
                              ToldOf(Tail(w), pending[c], initial[c], queue[c], u, t, x)
      /\ \A n : HoldsOf(w, pending[c], initial[c], queue[c], got[c], n) <=>
                HoldsOf(Tail(w), pending[c], initial[c], queue[c], k, n)
      /\ Head(w)[1] = "command" => Head(w)[2] \in 1 .. MaxCommands
  BY <1>1, ReadMoves, HeadTells DEF Copies
<1>4. k \in SUBSET Nat
  BY <1>1, <1>3
<1> HIDE DEF w, u, k
<1>5. StreamTyped'
  <2>1. wire' \in [Conns -> Lines] /\ view' \in [Conns -> Copies] /\ got' \in [Conns -> SUBSET Nat]
    BY <1>1, <1>2, <1>3, <1>4 DEF StreamInv, StreamTyped
  <2>2. QED
    BY <2>1 DEF StreamInv, StreamTyped
<1>6. Handlers'
  <2>1. handler[c] \notin Fresh
    BY <1>1 DEF StreamInv, Handlers, Unstarted, w
  <2>2. QED
    BY <1>1, <1>2, <2>1 DEF StreamInv, Handlers, Unstarted
<1>7. OneStream'
  BY DEF StreamInv, OneStream
<1>8. Told(c) => Told(c)'
  BY <1>1, <1>3 DEF Told, w
<1>9. ASSUME NEW n PROVE Holds(c, n)' <=> Holds(c, n)
  <2>1. Holds(c, n) <=> HoldsOf(w, pending[c], initial[c], queue[c], got[c], n)
    BY DEF Holds, w
  <2>2. Holds(c, n)' <=> HoldsOf(Tail(w), pending[c], initial[c], queue[c], k, n)
    BY <1>1 DEF Holds
  <2>3. QED
    BY <1>3, <2>1, <2>2
<1>10. \A d \in Conns : (Told(d) => Told(d)') /\ \A n : Holds(d, n)' => Holds(d, n)
  <2>1. ASSUME NEW d \in Conns \ {c}
        PROVE (Told(d) => Told(d)') /\ \A n : Holds(d, n)' => Holds(d, n)
    BY <1>1, <1>2, SameLines
  <2>2. QED
    BY <1>8, <1>9, <2>1
<1>11. Ordered' /\ Gapless' /\ Once'
  BY <1>1, <1>10, LinesKept DEF StreamInv, StreamTyped
<1>12. QED
  BY <1>5, <1>6, <1>7, <1>11 DEF StreamInv

\* The UI process goes away, at the end of the stream or before, or hangs.
LEMMA DropKeeps ==
    ASSUME StreamInv, NEW c \in Conns, Stream!Drop(c)
    PROVE  StreamInv'
<1> USE DEF Stream!Drop, Stream!hub, Stream!server
<1>1. /\ wire'[c] = <<>> /\ view'[c] = Stream!NoView /\ Stream!NoView \in Copies /\ <<>> \in Lines
      /\ client'[c] = "gone" /\ client[c] # "none"
      /\ UNCHANGED <<pending, initial, queue, got, topics, topicOrder, commands, sent,
                     subscribers, handler>>
  BY FewLines DEF StreamInv, StreamTyped, Stream!NoView, Stream!Unset, Copies
<1>2. \A d \in Conns \ {c} : wire'[d] = wire[d] /\ view'[d] = view[d] /\ client'[d] = client[d]
  BY DEF StreamInv, StreamTyped
<1>3. StreamTyped'
  <2>1. wire' \in [Conns -> Lines] /\ view' \in [Conns -> Copies]
    BY <1>1, <1>2 DEF StreamInv, StreamTyped
  <2>2. QED
    BY <2>1 DEF StreamInv, StreamTyped
<1>4. Handlers'
  BY <1>1, <1>2 DEF StreamInv, Handlers, Unstarted
<1>5. OneStream'
  BY <1>1, <1>2 DEF StreamInv, StreamTyped, OneStream
<1>6. \A n : Holds(c, n)' => Holds(c, n)
  BY <1>1, FewLines DEF Holds, HoldsOf
<1>7. \A d \in Conns \ {c} : (Told(d)' <=> Told(d)) /\ \A n : Holds(d, n)' <=> Holds(d, n)
  BY <1>1, <1>2, SameLines
<1>8. Ordered' /\ Gapless' /\ Once'
  <2>1. \A d \in subscribers' : client'[d] # "gone" =>
            d \in subscribers /\ client[d] # "gone" /\ (Told(d) => Told(d)')
    BY <1>1, <1>2, <1>7 DEF StreamInv, StreamTyped
  <2>2. \A d \in Conns : \A n : Holds(d, n)' => Holds(d, n)
    BY <1>6, <1>7
  <2>3. QED
    BY <1>1, <2>1, <2>2, LinesKept
<1>9. QED
  BY <1>3, <1>4, <1>5, <1>8 DEF StreamInv

\* The reader sees the end of the stream.
LEMMA EndOfStreamKeeps ==
    ASSUME StreamInv, NEW c \in Conns, Stream!EndOfStream(c)
    PROVE  StreamInv'
<1> USE DEF Stream!EndOfStream, Stream!hub, Stream!server, Stream!serve
<1>1. /\ view'[c] = Stream!NoView /\ Stream!NoView \in Copies
      /\ client'[c] = "gone" /\ client[c] # "none"
      /\ UNCHANGED <<wire, pending, initial, queue, got, topics, topicOrder, commands, sent,
                     subscribers, handler>>
  BY FewLines DEF StreamInv, StreamTyped, Stream!NoView, Stream!Unset, Copies
<1>2. \A d \in Conns \ {c} : view'[d] = view[d] /\ client'[d] = client[d]
  BY DEF StreamInv, StreamTyped
<1>3. StreamTyped'
  <2>1. view' \in [Conns -> Copies]
    BY <1>1, <1>2 DEF StreamInv, StreamTyped
  <2>2. QED
    BY <2>1 DEF StreamInv, StreamTyped
<1>4. Handlers'
  BY <1>1, <1>2 DEF StreamInv, Handlers, Unstarted
<1>5. OneStream'
  BY <1>1, <1>2 DEF StreamInv, StreamTyped, OneStream
<1>6. \A n : Holds(c, n)' => Holds(c, n)
  BY <1>1 DEF Holds, HoldsOf
<1>7. \A d \in Conns \ {c} : (Told(d)' <=> Told(d)) /\ \A n : Holds(d, n)' <=> Holds(d, n)
  BY <1>1, <1>2, SameLines
<1>8. Ordered' /\ Gapless' /\ Once'
  <2>1. \A d \in subscribers' : client'[d] # "gone" =>
            d \in subscribers /\ client[d] # "gone" /\ (Told(d) => Told(d)')
    BY <1>1, <1>2, <1>7 DEF StreamInv, StreamTyped
  <2>2. \A d \in Conns : \A n : Holds(d, n)' => Holds(d, n)
    BY <1>6, <1>7
  <2>3. QED
    BY <1>1, <2>1, <2>2, LinesKept
<1>9. QED
  BY <1>3, <1>4, <1>5, <1>8 DEF StreamInv

\* A hung UI reads nothing any more.
LEMMA StallKeeps ==
    ASSUME StreamInv, NEW c \in Conns, Stream!Stall(c)
    PROVE  StreamInv'
<1> USE DEF Stream!Stall, Stream!hub, Stream!server, Stream!serve
<1>1. StreamTyped'
  BY DEF StreamInv, StreamTyped
<1>2. Handlers'
  BY DEF StreamInv, StreamTyped, Handlers, Unstarted
<1>3. OneStream'
  BY DEF StreamInv, StreamTyped, OneStream
<1>4. \A d \in Conns : (Told(d)' <=> Told(d)) /\ \A n : Holds(d, n)' <=> Holds(d, n)
  BY SameLines
<1>5. Ordered' /\ Gapless' /\ Once'
  BY <1>4, LinesKept DEF StreamInv, StreamTyped
<1>6. QED
  BY <1>1, <1>2, <1>3, <1>5 DEF StreamInv

-----------------------------------------------------------------------------
(* Steps of the hub                                                        *)

\* A message joins the queues with room; the others lose their subscription.
LEMMA BroadcastKeeps ==
    ASSUME StreamInv, NEW m \in Stream!Messages, Stream!Broadcast(m),
           UNCHANGED <<startMu, writeMu, streamID, streamSub, handler, initial, pending, ctxDone,
                       wire, view, got, client>>
    PROVE  /\ subscribers' \subseteq subscribers
           /\ queue' \in [Conns -> Lines] /\ \A c \in Conns : Len(queue'[c]) <= SubscriberBuffer
           /\ Handlers' /\ OneStream'
           /\ \A c \in subscribers' : \A t, x :
                /\ m = Stream!State(t, x) =>
                     ToldOf(wire[c], pending[c], initial[c], queue'[c], view[c], t, x)
                /\ /\ ~Stream!About(m, t)
                   /\ ToldOf(wire[c], pending[c], initial[c], queue[c], view[c], t, x)
                   => ToldOf(wire[c], pending[c], initial[c], queue'[c], view[c], t, x)
           /\ \A c \in Conns : \A n :
                Holds(c, n)' => Holds(c, n) \/ (c \in subscribers /\ m = Stream!Command(n))
           /\ \A c \in Conns : \A n : (\A k : m # Stream!Command(k)) => (Holds(c, n)' => Holds(c, n))
<1> DEFINE fits == {c \in subscribers : Len(queue[c]) < SubscriberBuffer}
<1>1. /\ subscribers' = fits
      /\ \A c \in Conns : queue'[c] = IF c \in fits THEN Append(queue[c], m) ELSE queue[c]
      /\ DOMAIN queue' = Conns /\ queue' = [c \in Conns |-> queue'[c]]
  BY DEF Stream!Broadcast, Conns
<1>2. subscribers \subseteq Conns /\ queue \in [Conns -> Lines]
  BY DEF StreamInv, StreamTyped
<1>3. ASSUME NEW c \in Conns PROVE queue'[c] \in Lines /\ Len(queue'[c]) <= SubscriberBuffer
  <2>1. CASE c \in fits
    <3>1. queue[c] \in Lines /\ Len(queue[c]) < SubscriberBuffer /\ queue'[c] = Append(queue[c], m)
      BY <1>1, <1>2, <2>1
    <3>2. /\ Append(queue[c], m) \in Lines /\ Len(queue[c]) \in Nat
          /\ Len(Append(queue[c], m)) = Len(queue[c]) + 1
      BY <3>1, AppendTells
    <3>3. QED
      BY <3>1, <3>2, StreamAssumption
  <2>2. CASE c \notin fits
    BY <1>1, <2>2 DEF StreamInv, StreamTyped
  <2>3. QED
    BY <2>1, <2>2
<1>4. queue' \in [Conns -> Lines] /\ \A c \in Conns : Len(queue'[c]) <= SubscriberBuffer
  BY <1>1, <1>3
<1>5. Handlers'
  <2>1. \A c \in Conns : handler[c] \in Fresh => c \notin subscribers
    BY DEF StreamInv, OneStream, Live, Fresh
  <2>2. QED
    BY <1>1, <2>1 DEF StreamInv, Handlers, Unstarted
<1>6. OneStream'
  BY <1>1, <1>2 DEF StreamInv, OneStream
<1>7. ASSUME NEW c \in subscribers', NEW t, NEW x
      PROVE  /\ m = Stream!State(t, x) =>
                  ToldOf(wire[c], pending[c], initial[c], queue'[c], view[c], t, x)
             /\ /\ ~Stream!About(m, t)
                /\ ToldOf(wire[c], pending[c], initial[c], queue[c], view[c], t, x)
                => ToldOf(wire[c], pending[c], initial[c], queue'[c], view[c], t, x)
  <2>1. queue[c] \in Lines /\ queue'[c] = Append(queue[c], m)
    BY <1>1, <1>2
  <2>2. /\ m = Stream!State(t, x) =>
              ToldOf(wire[c], pending[c], initial[c], Append(queue[c], m), view[c], t, x)
        /\ /\ ~Stream!About(m, t)
           /\ ToldOf(wire[c], pending[c], initial[c], queue[c], view[c], t, x)
           => ToldOf(wire[c], pending[c], initial[c], Append(queue[c], m), view[c], t, x)
    BY <2>1, QueueMoves
  <2>3. QED
    BY <2>1, <2>2
<1>8. ASSUME NEW c \in Conns, NEW n
      PROVE  Holds(c, n)' => Holds(c, n) \/ (c \in subscribers /\ m = Stream!Command(n))
  <2>1. CASE c \in fits
    <3>1. queue[c] \in Lines /\ queue'[c] = Append(queue[c], m) /\ c \in subscribers
      BY <1>1, <1>2, <2>1
    <3>2. Holds(c, n) <=> HoldsOf(wire[c], pending[c], initial[c], queue[c], got[c], n)
      BY DEF Holds
    <3>3. Holds(c, n)' <=> HoldsOf(wire[c], pending[c], initial[c], Append(queue[c], m), got[c], n)
      BY <3>1 DEF Holds
    <3>4. QED
      BY <3>1, <3>2, <3>3, QueueMoves
  <2>2. CASE c \notin fits
    <3>1. queue'[c] = queue[c]
      BY <1>1, <2>2
    <3>2. QED
      BY <3>1 DEF Holds
  <2>3. QED
    BY <2>1, <2>2
<1>9. QED
  BY <1>1, <1>4, <1>5, <1>6, <1>7, <1>8

\* SetTopic: subscribers get the new value, and a first value joins the order.
LEMMA SetTopicKeeps ==
    ASSUME StreamInv, NEW t \in Topics, NEW v \in Values, Stream!SetTopic(t, v)
    PROVE  StreamInv'
<1> DEFINE m == Stream!State(t, v)
<1>1. /\ m \in Stream!Messages /\ \A k : m # Stream!Command(k)
      /\ \A u : Stream!About(m, u) <=> u = t
  BY MessageForms, MessageKinds
<1>2. /\ Stream!Broadcast(m) /\ topics[t] # v /\ topics' = [topics EXCEPT ![t] = v]
      /\ topicOrder' = IF topics[t] = "unset" THEN Append(topicOrder, t) ELSE topicOrder
      /\ sets' = sets + 1
      /\ UNCHANGED <<commands, sent, startMu, writeMu, streamID, streamSub, handler, initial,
                     pending, ctxDone, wire, view, got, client>>
  BY DEF Stream!SetTopic, Stream!server, Stream!serve, Stream!ui, Stream!Unset
<1>3. topics \in Copies /\ topicOrder \in Seq(Topics) /\ v # "unset"
  BY StreamAssumption DEF StreamInv, StreamTyped
<1> HIDE DEF m
<1>4. /\ subscribers' \subseteq subscribers
      /\ queue' \in [Conns -> Lines] /\ \A c \in Conns : Len(queue'[c]) <= SubscriberBuffer
      /\ Handlers' /\ OneStream'
      /\ \A c \in Conns : \A n : Holds(c, n)' => Holds(c, n)
  BY <1>1, <1>2, BroadcastKeeps
<1>5. ASSUME NEW c \in subscribers', NEW u, NEW x
      PROVE  /\ m = Stream!State(u, x) =>
                  ToldOf(wire[c], pending[c], initial[c], queue'[c], view[c], u, x)
             /\ /\ ~Stream!About(m, u)
                /\ ToldOf(wire[c], pending[c], initial[c], queue[c], view[c], u, x)
                => ToldOf(wire[c], pending[c], initial[c], queue'[c], view[c], u, x)
  BY <1>1, <1>2, BroadcastKeeps
<1>6. /\ topics' \in Copies /\ topics'[t] = v
      /\ \A u \in Topics \ {t} : topics'[u] = topics[u]
  BY <1>2, <1>3 DEF Copies
<1>7. topicOrder' \in Seq(Topics) /\ Ordered'
  <2>1. CASE topics[t] = "unset"
    <3> DEFINE o == topicOrder'
    <3>1. /\ o \in Seq(Topics) /\ Len(o) = Len(topicOrder) + 1 /\ Len(topicOrder) \in Nat
          /\ \A i \in 1 .. Len(topicOrder) : o[i] = topicOrder[i]
          /\ o[Len(topicOrder) + 1] = t
      BY <1>2, <1>3, <2>1, AppendProperties, LenProperties
    <3>2. \A i \in 1 .. Len(topicOrder) : topicOrder[i] # t
      BY <2>1 DEF StreamInv, Ordered
    <3> HIDE DEF o
    <3>3. \A i, j \in 1 .. Len(o) : o[i] = o[j] => i = j
      BY <3>1, <3>2 DEF StreamInv, Ordered
    <3>4. ASSUME NEW u \in Topics
          PROVE  topics'[u] # "unset" <=> \E i \in 1 .. Len(o) : o[i] = u
      <4>1. CASE u = t
        <5>1. Len(topicOrder) + 1 \in 1 .. Len(o)
          BY <3>1
        <5>2. QED
          BY <1>3, <1>6, <3>1, <4>1, <5>1
      <4>2. CASE u # t
        <5>1. (\E i \in 1 .. Len(o) : o[i] = u) <=> \E i \in 1 .. Len(topicOrder) : topicOrder[i] = u
          BY <3>1, <4>2
        <5>2. QED
          BY <1>6, <4>2, <5>1 DEF StreamInv, Ordered
      <4>3. QED
        BY <4>1, <4>2
    <3>5. QED
      BY <3>1, <3>3, <3>4 DEF Ordered, o
  <2>2. CASE topics[t] # "unset"
    <3>1. topicOrder' = topicOrder
      BY <1>2, <2>2
    <3>2. \A u \in Topics : topics'[u] # "unset" <=> topics[u] # "unset"
      BY <1>3, <1>6, <2>2
    <3>3. QED
      BY <1>3, <3>1, <3>2 DEF StreamInv, Ordered
  <2>3. QED
    BY <2>1, <2>2
<1>8. StreamTyped'
  <2>1. StreamTyped
    BY DEF StreamInv
  <2>2. subscribers' \subseteq Conns /\ sets' \in Nat
    BY <1>2, <1>4, <2>1 DEF StreamTyped
  <2>3. QED
    BY <1>2, <1>4, <1>6, <1>7, <2>1, <2>2 DEF StreamTyped
<1>9. Gapless'
  <2>1. ASSUME NEW c \in subscribers', client'[c] # "gone", NEW u \in Topics
        PROVE  ToldOf(wire[c], pending[c], initial[c], queue'[c], view[c], u, topics'[u])
    <3>1. CASE u = t
      BY <1>5, <1>6, <3>1 DEF m
    <3>2. CASE u # t
      <4>1. ToldOf(wire[c], pending[c], initial[c], queue[c], view[c], u, topics[u])
        BY <1>2, <1>4, <2>1 DEF StreamInv, Gapless, Told
      <4>2. QED
        BY <1>1, <1>5, <1>6, <3>2, <4>1
    <3>3. QED
      BY <3>1, <3>2
  <2>2. QED
    BY <1>2, <2>1 DEF Gapless, Told
<1>10. Once'
  BY <1>2, <1>4 DEF StreamInv, Once
<1>11. QED
  BY <1>4, <1>7, <1>8, <1>9, <1>10 DEF StreamInv

\* A command goes to the subscribers: there is one, and the command is new.
LEMMA CommandBroadcast ==
    ASSUME StreamInv, sent < MaxCommands, sent' = sent + 1,
           Stream!Broadcast(Stream!Command(sent + 1)),
           UNCHANGED <<topics, topicOrder, commands, sets, startMu, writeMu, streamID, streamSub,
                       handler, initial, pending, ctxDone, wire, view, got, client>>
    PROVE  StreamInv'
<1> DEFINE m == Stream!Command(sent + 1)
<1>1. sent \in Nat /\ MaxCommands \in Nat /\ sent + 1 \in 1 .. MaxCommands
  BY StreamAssumption DEF StreamInv, StreamTyped
<1>2. m \in Stream!Messages /\ \A t : ~Stream!About(m, t)
  BY <1>1, MessageForms, MessageKinds
<1>3. \A n : m = Stream!Command(n) <=> n = sent + 1
  BY MessageKinds
<1> HIDE DEF m
<1>4. /\ subscribers' \subseteq subscribers
      /\ queue' \in [Conns -> Lines] /\ \A c \in Conns : Len(queue'[c]) <= SubscriberBuffer
      /\ Handlers' /\ OneStream'
  BY <1>2, BroadcastKeeps DEF m
<1>5. ASSUME NEW c \in subscribers', NEW t, NEW x
      PROVE  ToldOf(wire[c], pending[c], initial[c], queue[c], view[c], t, x)
             => ToldOf(wire[c], pending[c], initial[c], queue'[c], view[c], t, x)
  BY <1>2, BroadcastKeeps DEF m
<1>6. ASSUME NEW c \in Conns, NEW n
      PROVE  Holds(c, n)' => Holds(c, n) \/ (c \in subscribers /\ n = sent + 1)
  BY <1>2, <1>3, BroadcastKeeps DEF m
<1>7. StreamTyped'
  <2>1. StreamTyped
    BY DEF StreamInv
  <2>2. subscribers' \subseteq Conns /\ sent' \in 0 .. MaxCommands
    BY <1>1, <1>4, <2>1 DEF StreamTyped
  <2>3. QED
    BY <1>4, <2>1, <2>2 DEF StreamTyped
<1>8. Ordered'
  BY DEF StreamInv, Ordered
<1>9. Gapless'
  BY <1>4, <1>5 DEF StreamInv, Gapless, Told
<1>10. Once'
  <2>1. \A n : n \in 1 .. sent => n \in 1 .. sent' /\ n # sent + 1
    BY <1>1
  <2>2. sent + 1 \in 1 .. sent'
    BY <1>1
  <2>3. \A c, d \in subscribers : c = d
    BY DEF StreamInv, StreamTyped, OneStream
  <2>4. ASSUME NEW n, Carries(commands, n)
        PROVE  n \in 1 .. sent' /\ \A c \in Conns : ~Holds(c, n)'
    BY <1>6, <2>1, <2>4 DEF StreamInv, Once
  <2>5. ASSUME NEW c \in Conns, NEW n, Holds(c, n)' PROVE n \in 1 .. sent'
    BY <1>6, <2>1, <2>2, <2>5 DEF StreamInv, Once
  <2>6. ASSUME NEW c \in Conns, NEW d \in Conns, NEW n, Holds(c, n)', Holds(d, n)' PROVE c = d
    <3>1. CASE n = sent + 1
      <4>1. ~Holds(c, n) /\ ~Holds(d, n)
        BY <2>1, <3>1 DEF StreamInv, Once
      <4>2. QED
        BY <1>6, <2>3, <2>6, <4>1
    <3>2. CASE n # sent + 1
      BY <1>6, <2>6, <3>2 DEF StreamInv, Once
    <3>3. QED
      BY <3>1, <3>2
  <2>7. QED
    BY <2>4, <2>5, <2>6 DEF StreamInv, Once
<1>11. QED
  BY <1>4, <1>7, <1>8, <1>9, <1>10 DEF StreamInv

\* SendCommand, with nobody listening: the command waits in the hub.
LEMMA SendCommandKeeps ==
    ASSUME StreamInv, Stream!SendCommand
    PROVE  StreamInv'
<1>1. CASE subscribers # {}
  BY <1>1, CommandBroadcast DEF Stream!SendCommand, Stream!server, Stream!serve, Stream!ui
<1>2. CASE subscribers = {}
  <2> DEFINE m == Stream!Command(sent + 1)
             rest == IF Len(commands) = CommandBuffer THEN Tail(commands) ELSE commands
  <2>1. sent \in Nat /\ MaxCommands \in Nat /\ sent + 1 \in 1 .. MaxCommands /\ sent' = sent + 1
    BY StreamAssumption DEF StreamInv, StreamTyped, Stream!SendCommand
  <2>2. /\ commands' = Append(rest, m)
        /\ UNCHANGED <<topics, topicOrder, subscribers, queue, sets, startMu, writeMu, streamID,
                       streamSub, handler, initial, pending, ctxDone, wire, view, got, client>>
    BY <1>2 DEF Stream!SendCommand, Stream!server, Stream!serve, Stream!ui
  <2>3. /\ rest \in Lines /\ Len(rest) \in Nat /\ Len(rest) + 1 <= CommandBuffer
        /\ \A t : Silent(rest, t)
        /\ \A n : Carries(rest, n) => Carries(commands, n)
    <3>1. /\ commands \in Lines /\ Len(commands) \in Nat /\ Len(commands) <= CommandBuffer
          /\ \A t : Silent(commands, t)
      BY LenProperties DEF StreamInv, StreamTyped, Once, Lines
    <3>2. CASE Len(commands) = CommandBuffer
      <4>1. commands # <<>>
        BY <3>2, StreamAssumption
      <4>2. /\ Tail(commands) \in Lines /\ Len(Tail(commands)) = Len(commands) - 1
            /\ \A t : Silent(Tail(commands), t)
            /\ \A n : Carries(Tail(commands), n) => Carries(commands, n)
        BY <3>1, <4>1, HeadTells
      <4>3. Len(Tail(commands)) \in Nat /\ Len(Tail(commands)) + 1 <= CommandBuffer
        BY <3>1, <3>2, <4>2, StreamAssumption
      <4>4. QED
        BY <3>2, <4>2, <4>3
    <3>3. CASE Len(commands) # CommandBuffer
      BY <3>1, <3>3, StreamAssumption
    <3>4. QED
      BY <3>2, <3>3
  <2>4. m \in Stream!Messages /\ \A t : ~Stream!About(m, t)
    BY <2>1, MessageForms, MessageKinds
  <2>5. \A n : m = Stream!Command(n) <=> n = sent + 1
    BY MessageKinds
  <2> HIDE DEF m, rest
  <2>6. /\ commands' \in Lines /\ Len(commands') <= CommandBuffer
        /\ \A t : Silent(commands', t)
        /\ \A n : Carries(commands', n) => Carries(commands, n) \/ n = sent + 1
    <3>1. /\ Append(rest, m) \in Lines /\ Len(Append(rest, m)) = Len(rest) + 1
          /\ \A t : Silent(Append(rest, m), t)
          /\ \A n : Carries(Append(rest, m), n) <=> Carries(rest, n) \/ m = Stream!Command(n)
      BY <2>3, <2>4, AppendTells
    <3>2. QED
      BY <2>2, <2>3, <2>5, <3>1
  <2>7. StreamTyped'
    BY <2>1, <2>2, <2>6 DEF StreamInv, StreamTyped
  <2>8. Ordered' /\ Handlers' /\ OneStream'
    BY <2>2 DEF StreamInv, Ordered, Handlers, Unstarted, OneStream
  <2>9. Gapless'
    BY <1>2, <2>2 DEF Gapless
  <2>10. \A c \in Conns : \A n : Holds(c, n)' <=> Holds(c, n)
    BY <2>2 DEF Holds
  <2>11. Once'
    <3>1. \A n : n \in 1 .. sent => n \in 1 .. sent' /\ n # sent + 1
      BY <2>1
    <3>2. sent + 1 \in 1 .. sent'
      BY <2>1
    <3>3. ASSUME NEW n, Carries(commands', n)
          PROVE  n \in 1 .. sent' /\ \A c \in Conns : ~Holds(c, n)'
      <4>1. CASE n = sent + 1
        <5>1. \A c \in Conns : ~Holds(c, n)
          BY <3>1, <4>1 DEF StreamInv, Once
        <5>2. QED
          BY <2>10, <3>2, <4>1, <5>1
      <4>2. CASE n # sent + 1
        BY <2>6, <2>10, <3>1, <3>3, <4>2 DEF StreamInv, Once
      <4>3. QED
        BY <4>1, <4>2
    <3>4. ASSUME NEW c \in Conns, NEW n, Holds(c, n)' PROVE n \in 1 .. sent'
      BY <2>10, <3>1, <3>4 DEF StreamInv, Once
    <3>5. ASSUME NEW c \in Conns, NEW d \in Conns, NEW n, Holds(c, n)', Holds(d, n)' PROVE c = d
      BY <2>10, <3>5 DEF StreamInv, Once
    <3>6. QED
      BY <2>6, <3>3, <3>4, <3>5 DEF Once
  <2>12. QED
    BY <2>7, <2>8, <2>9, <2>11 DEF StreamInv
<1>3. QED
  BY <1>1, <1>2

\* SendTransient.
LEMMA SendTransientKeeps ==
    ASSUME StreamInv, Stream!SendTransient
    PROVE  StreamInv'
  BY CommandBroadcast DEF Stream!SendTransient, Stream!server, Stream!serve, Stream!ui

\* What Subscribe hands over: the snapshot, then the commands that have not expired.
LEMMA StagedLines ==
    ASSUME StreamInv, NEW staged \in Stream!Unexpired
    PROVE  /\ Stream!Snapshot \in Lines /\ staged \in Lines
           /\ Stream!Snapshot \o staged \in Lines
           /\ \A t \in Topics : IF topics[t] = "unset"
                                THEN Silent(Stream!Snapshot \o staged, t)
                                ELSE Tells(Stream!Snapshot \o staged, t, topics[t])
           /\ \A n : Carries(Stream!Snapshot \o staged, n) => Carries(commands, n)
<1> DEFINE s == Stream!Snapshot
           N == Len(topicOrder)
<1>1. /\ topicOrder \in Seq(Topics) /\ N \in Nat /\ DOMAIN topicOrder = 1 .. N
      /\ \A i \in 1 .. N : topicOrder[i] \in Topics
      /\ topics \in Copies
  BY LenProperties, ElementOfSeq DEF StreamInv, StreamTyped
<1>2. /\ s \in [1 .. N -> Stream!Messages]
      /\ \A i \in 1 .. N : s[i] = Stream!State(topicOrder[i], topics[topicOrder[i]])
  <2>1. s = [i \in 1 .. N |-> Stream!State(topicOrder[i], topics[topicOrder[i]])]
    BY <1>1 DEF Stream!Snapshot
  <2>2. ASSUME NEW i \in 1 .. N
        PROVE  Stream!State(topicOrder[i], topics[topicOrder[i]]) \in Stream!Messages
    <3>1. topicOrder[i] \in Topics /\ topics[topicOrder[i]] \in Values
      BY <1>1 DEF StreamInv, Ordered, Copies
    <3>2. QED
      BY <3>1, MessageForms
  <2> HIDE DEF s
  <2>3. QED
    BY <2>1, <2>2
<1> HIDE DEF s
<1>3. s \in Lines /\ Len(s) = N
  <2>1. s \in Lines
    BY <1>1, <1>2, SeqDef DEF Lines
  <2>2. DOMAIN s = 1 .. Len(s) /\ DOMAIN s = 1 .. N /\ Len(s) \in Nat
    BY <1>2, <2>1, LenProperties DEF Lines
  <2>3. ASSUME NEW a \in Nat, NEW b \in Nat, 1 .. a = 1 .. b PROVE a = b
    <3>1. ~(a > b) /\ ~(b > a)
      <4>1. a > b => a \in 1 .. a /\ ~(a \in 1 .. b)
        OBVIOUS
      <4>2. b > a => b \in 1 .. b /\ ~(b \in 1 .. a)
        OBVIOUS
      <4>3. QED
        BY <2>3, <4>1, <4>2, Zenon
    <3>2. QED
      BY <3>1
  <2>4. Len(s) \in Nat /\ N \in Nat /\ 1 .. Len(s) = 1 .. N
    BY <1>1, <2>2
  <2>5. Len(s) = N
    BY <2>3, <2>4, Zenon
  <2>6. QED
    BY <2>1, <2>5
<1>4. /\ staged \in Lines
      /\ \A t : Silent(staged, t)
      /\ \A n : Carries(staged, n) => Carries(commands, n)
  <2>1. PICK k \in 1 .. Len(commands) + 1 : staged = SubSeq(commands, k, Len(commands))
    BY DEF Stream!Unexpired
  <2>2. /\ commands \in Lines /\ Len(commands) \in Nat
        /\ \A i \in 1 .. Len(commands) : commands[i] \in Stream!Messages
        /\ \A t : Silent(commands, t)
    BY LenProperties, ElementOfSeq DEF StreamInv, StreamTyped, Once, Lines
  <2>3. k \in Int /\ Len(commands) \in Int /\ \A i \in k .. Len(commands) : commands[i] \in Stream!Messages
    BY <2>1, <2>2
  <2>4. /\ SubSeq(commands, k, Len(commands)) \in Seq(Stream!Messages)
        /\ Len(SubSeq(commands, k, Len(commands))) =
              IF k <= Len(commands) THEN Len(commands) - k + 1 ELSE 0
        /\ \A i \in 1 .. Len(commands) - k + 1 :
              SubSeq(commands, k, Len(commands))[i] = commands[k + i - 1]
    BY <2>3, SubSeqProperties
  <2>5. \A i \in 1 .. Len(staged) :
            k + i - 1 \in 1 .. Len(commands) /\ staged[i] = commands[k + i - 1]
    BY <2>1, <2>2, <2>4
  <2>6. staged \in Lines
    BY <2>1, <2>4 DEF Lines
  <2>7. \A t : Silent(staged, t)
    BY <2>2, <2>5 DEF Silent
  <2>8. \A n : Carries(staged, n) => Carries(commands, n)
    BY <2>5 DEF Carries
  <2>9. QED
    BY <2>6, <2>7, <2>8
<1>5. ASSUME NEW t \in Topics
      PROVE  IF topics[t] = "unset" THEN Silent(s, t) ELSE Tells(s, t, topics[t])
  <2>1. CASE topics[t] = "unset"
    <3>1. \A i \in 1 .. N : topicOrder[i] # t
      BY <2>1 DEF StreamInv, Ordered
    <3>2. \A i \in 1 .. N : ~Stream!About(s[i], t)
      BY <1>2, <3>1, MessageKinds
    <3>3. QED
      BY <1>3, <2>1, <3>2 DEF Silent
  <2>2. CASE topics[t] # "unset"
    <3>1. PICK i \in 1 .. N : topicOrder[i] = t
      BY <2>2 DEF StreamInv, Ordered
    <3>2. \A j \in i + 1 .. N : topicOrder[j] # t
      BY <1>1, <3>1 DEF StreamInv, Ordered
    <3>3. s[i] = Stream!State(t, topics[t])
      BY <1>2, <3>1
    <3>4. ASSUME NEW j \in i + 1 .. N PROVE ~Stream!About(s[j], t)
      <4>1. j \in 1 .. N /\ topicOrder[j] # t
        BY <1>1, <3>1, <3>2
      <4>2. QED
        BY <1>2, <4>1, MessageKinds
    <3>5. QED
      BY <1>3, <2>2, <3>1, <3>3, <3>4 DEF Tells
  <2>3. QED
    BY <2>1, <2>2
<1>6. \A n : ~Carries(s, n)
  BY <1>2, <1>3, MessageKinds DEF Carries
<1>7. /\ s \o staged \in Lines
      /\ \A t, x : /\ Silent(staged, t) /\ Tells(s, t, x) => Tells(s \o staged, t, x)
                   /\ Silent(s \o staged, t) <=> Silent(s, t) /\ Silent(staged, t)
      /\ \A n : Carries(s \o staged, n) <=> Carries(s, n) \/ Carries(staged, n)
  BY <1>3, <1>4, ConcatTells, ConcatCarries
<1>8. ASSUME NEW t \in Topics
      PROVE  IF topics[t] = "unset" THEN Silent(s \o staged, t) ELSE Tells(s \o staged, t, topics[t])
  BY <1>4, <1>5, <1>7
<1>9. \A n : Carries(s \o staged, n) => Carries(commands, n)
  BY <1>4, <1>6, <1>7
<1>10. QED
  BY <1>3, <1>4, <1>7, <1>8, <1>9 DEF s

\* The connection becomes the stream.
LEMMA SubscribeKeeps ==
    ASSUME StreamInv, NEW c \in Conns, Stream!Subscribe(c)
    PROVE  StreamInv'
<1>1. /\ handler[c] = "replacing" /\ writeMu = 0 /\ startMu' = 0 /\ startMu = c /\ c # 0
      /\ UNCHANGED <<topics, topicOrder, queue, sets, sent, writeMu, pending, ctxDone, wire, view,
                     got, client>>
      /\ subscribers = {} /\ streamSub \in ctxDone \cup {0} /\ Unstarted(c)
  BY StreamAssumption DEF Stream!Subscribe, Stream!ui, Stream!NoConn, StreamInv, StreamTyped,
     OneStream, Handlers, Fresh, Conns, Stream!Conns
<1>2. CASE c \in ctxDone
  <2>1. /\ handler' = [handler EXCEPT ![c] = "ended"]
        /\ UNCHANGED <<streamID, streamSub, subscribers, commands, initial>>
    BY <1>2 DEF Stream!Subscribe
  <2>2. \A d \in Conns : handler'[d] = IF d = c THEN "ended" ELSE handler[d]
    BY <2>1 DEF StreamInv, StreamTyped
  <2>3. StreamTyped'
    BY <1>1, <2>1 DEF StreamInv, StreamTyped
  <2>4. Handlers'
    BY <1>1, <2>1, <2>2 DEF StreamInv, Handlers, Unstarted, Fresh
  <2>5. OneStream'
    BY <1>1, <2>1, <2>2 DEF StreamInv, OneStream, Live
  <2>6. \A d \in Conns : (Told(d)' <=> Told(d)) /\ \A n : Holds(d, n)' <=> Holds(d, n)
    BY <1>1, <2>1, SameLines
  <2>7. Ordered' /\ Gapless' /\ Once'
    BY <1>1, <2>1, <2>6, LinesKept DEF StreamInv, StreamTyped
  <2>8. QED
    BY <2>3, <2>4, <2>5, <2>7 DEF StreamInv
<1>3. CASE c \notin ctxDone
  <2>1. PICK staged \in Stream!Unexpired :
            /\ handler' = [handler EXCEPT ![c] = "serving"] /\ streamID' = c /\ streamSub' = c
            /\ subscribers' = subscribers \cup {c}
            /\ initial' = [initial EXCEPT ![c] = Stream!Snapshot \o staged] /\ commands' = <<>>
    BY <1>3 DEF Stream!Subscribe
  <2> DEFINE i == Stream!Snapshot \o staged
  <2>2. /\ i \in Lines
        /\ \A t \in Topics : IF topics[t] = "unset" THEN Silent(i, t) ELSE Tells(i, t, topics[t])
        /\ \A n : Carries(i, n) => Carries(commands, n)
    BY StagedLines
  <2>3. initial' = [initial EXCEPT ![c] = i]
    BY <2>1
  <2> HIDE DEF i
  <2>4. /\ \A d \in Conns : handler'[d] = IF d = c THEN "serving" ELSE handler[d]
        /\ \A d \in Conns : initial'[d] = IF d = c THEN i ELSE initial[d]
    BY <2>1, <2>3 DEF StreamInv, StreamTyped
  <2>5. commands' \in Lines /\ Len(commands') <= CommandBuffer /\ \A n : ~Carries(commands', n)
    BY <2>1, FewLines, StreamAssumption
  <2>6. StreamTyped'
    <3>1. initial' \in [Conns -> Lines]
      BY <2>2, <2>3 DEF StreamInv, StreamTyped
    <3>2. handler' \in [Conns -> Live \cup Fresh \cup {"ended"}]
      BY <2>1 DEF StreamInv, StreamTyped, Live
    <3>3. QED
      BY <1>1, <2>1, <2>5, <3>1, <3>2 DEF StreamInv, StreamTyped
  <2>7. Handlers'
    BY <1>1, <2>4 DEF StreamInv, Handlers, Unstarted, Fresh
  <2>8. OneStream'
    <3>1. \A d \in Conns \ {c} : handler[d] \in Live => d \in ctxDone
      BY <1>1, StreamAssumption DEF StreamInv, OneStream, Conns, Stream!Conns
    <3>2. \A d \in Conns \ {c} : handler[d] # "replacing" /\ handler[d] # "writing"
      BY <1>1, StreamAssumption DEF StreamInv, OneStream, Conns, Stream!Conns
    <3>3. QED
      BY <1>1, <1>3, <2>1, <2>4, <3>1, <3>2 DEF StreamInv, OneStream, Live
  <2>9. Ordered'
    BY <1>1 DEF StreamInv, Ordered
  <2>10. Gapless'
    <3>1. ASSUME NEW t \in Topics
          PROVE  ToldOf(wire[c], pending[c], i, queue[c], view[c], t, topics[t])
      <4>1. /\ Silent(wire[c], t) /\ Silent(pending[c], t) /\ Silent(queue[c], t)
            /\ view[c][t] = "unset"
        BY <1>1, FewLines DEF Unstarted, Stream!NoView, Stream!Unset
      <4>2. QED
        BY <2>2, <4>1 DEF ToldOf
    <3>2. Told(c)'
      BY <1>1, <2>4, <3>1 DEF Told
    <3>3. subscribers' = {c}
      BY <1>1, <2>1
    <3>4. QED
      BY <3>2, <3>3 DEF Gapless
  <2>11. Once'
    <3>1. ASSUME NEW d \in Conns \ {c}, NEW n PROVE Holds(d, n)' <=> Holds(d, n)
      <4>1. /\ wire'[d] = wire[d] /\ pending'[d] = pending[d] /\ initial'[d] = initial[d]
            /\ queue'[d] = queue[d] /\ got'[d] = got[d]
        BY <1>1, <2>4
      <4>2. QED
        BY <4>1 DEF Holds
    <3>2. ASSUME NEW n PROVE Holds(c, n)' => Carries(commands, n)
      <4>1. Holds(c, n)' <=> HoldsOf(<<>>, <<>>, i, <<>>, {}, n)
        BY <1>1, <2>4 DEF Holds, Unstarted
      <4>2. QED
        BY <2>2, <4>1, FewLines DEF HoldsOf
    <3>3. \A t : Silent(commands', t)
      BY <2>1, FewLines
    <3>4. ASSUME NEW d \in Conns, NEW n, Holds(d, n)' PROVE n \in 1 .. sent'
      BY <1>1, <3>1, <3>2, <3>4 DEF StreamInv, Once
    <3>5. ASSUME NEW d \in Conns, NEW e \in Conns, NEW n, Holds(d, n)', Holds(e, n)' PROVE d = e
      <4>1. CASE d # c /\ e # c
        BY <3>1, <3>5, <4>1 DEF StreamInv, Once
      <4>2. CASE d = c /\ e # c
        BY <3>1, <3>2, <3>5, <4>2 DEF StreamInv, Once
      <4>3. CASE d # c /\ e = c
        BY <3>1, <3>2, <3>5, <4>3 DEF StreamInv, Once
      <4>4. QED
        BY <4>1, <4>2, <4>3
    <3>6. QED
      BY <2>5, <3>3, <3>4, <3>5 DEF Once
  <2>12. QED
    BY <2>6, <2>7, <2>8, <2>9, <2>10, <2>11 DEF StreamInv
<1>4. QED
  BY <1>2, <1>3

-----------------------------------------------------------------------------
(* The specification                                                       *)

\* A hub without subscribers, topics and commands.
LEMMA StreamStart ==
    ASSUME Stream!Init
    PROVE  StreamInv
<1> USE DEF Stream!Init, Stream!NoConn
<1>1. <<>> \in Lines /\ \A t : Silent(<<>>, t)
  BY FewLines
<1>2. Stream!NoView \in Copies /\ topics \in Copies
  BY DEF Copies, Stream!NoView, Stream!Unset
<1>3. Len(<<>>) <= SubscriberBuffer /\ Len(<<>>) <= CommandBuffer /\ 0 \in 0 .. MaxCommands
  BY StreamAssumption
<1>4. StreamTyped
  <2>1. /\ queue \in [Conns -> Lines] /\ initial \in [Conns -> Lines]
        /\ pending \in [Conns -> Lines] /\ wire \in [Conns -> Lines]
        /\ \A c \in Conns : queue[c] = <<>>
    BY <1>1 DEF Conns
  <2>2. /\ handler \in [Conns -> Live \cup Fresh \cup {"ended"}]
        /\ client \in [Conns -> {"none", "reading", "stalled", "gone"}]
        /\ view \in [Conns -> Copies] /\ got \in [Conns -> SUBSET Nat]
    BY <1>2 DEF Conns, Fresh
  <2>3. topicOrder \in Seq(Topics)
    OBVIOUS
  <2>4. QED
    BY <1>1, <1>2, <1>3, <2>1, <2>2, <2>3 DEF StreamTyped
<1>5. Ordered
  BY DEF Ordered, Stream!Unset
<1>6. Handlers
  BY DEF Handlers, Unstarted, Conns
<1>7. OneStream
  BY DEF OneStream, Live, Conns
<1>8. Gapless
  BY DEF Gapless
<1>9. Once
  <2>1. \A n : ~Carries(<<>>, n)
    BY FewLines
  <2>2. ASSUME NEW c \in Conns, NEW n PROVE ~Holds(c, n)
    <3>1. /\ wire[c] = <<>> /\ pending[c] = <<>> /\ initial[c] = <<>> /\ queue[c] = <<>>
          /\ got[c] = {}
      BY DEF Conns
    <3>2. QED
      BY <2>1, <3>1 DEF Holds, HoldsOf
  <2>3. QED
    BY <1>1, <2>1, <2>2 DEF Once
<1>10. QED
  BY <1>4, <1>5, <1>6, <1>7, <1>8, <1>9 DEF StreamInv

\* Every step of the stream keeps the invariant.
LEMMA StreamStep ==
    ASSUME StreamInv, [Stream!Next]_streamVars
    PROVE  StreamInv'
<1>1. ASSUME NEW c \in Conns, Stream!HandlerStep(c) PROVE StreamInv'
  BY <1>1, ReplaceKeeps, SubscribeKeeps, PickKeeps, PickPingKeeps, WriteBeginKeeps, WriteDoneKeeps,
     WriteFailedKeeps, LeaveKeeps, CloseKeeps DEF Stream!HandlerStep
<1>2. ASSUME NEW c \in Conns,
             Stream!Connect(c) \/ Stream!Read(c) \/ Stream!Drop(c) \/ Stream!EndOfStream(c)
                \/ Stream!Stall(c)
      PROVE  StreamInv'
  BY <1>2, ConnectKeeps, ReadKeeps, DropKeeps, EndOfStreamKeeps, StallKeeps
<1>3. ASSUME NEW t \in Topics, NEW v \in Values, Stream!SetTopic(t, v) PROVE StreamInv'
  BY <1>3, SetTopicKeeps
<1>4. CASE Stream!SendCommand \/ Stream!SendTransient
  BY <1>4, SendCommandKeeps, SendTransientKeeps
<1>5. CASE UNCHANGED streamVars
  <2>1. UNCHANGED <<topics, topicOrder, commands, subscribers, queue, sets, sent, startMu, writeMu,
                    streamID, streamSub, handler, initial, pending, ctxDone, wire, view, got,
                    client>>
    BY <1>5 DEF streamVars
  <2>2. StreamTyped' /\ Ordered' /\ Handlers' /\ OneStream'
    BY <2>1 DEF StreamInv, StreamTyped, Ordered, Handlers, Unstarted, OneStream
  <2>3. \A d \in Conns : (Told(d)' <=> Told(d)) /\ \A n : Holds(d, n)' <=> Holds(d, n)
    BY <2>1, SameLines
  <2>4. Gapless' /\ Once'
    BY <2>1, <2>3, LinesKept DEF StreamInv, StreamTyped
  <2>5. QED
    BY <2>2, <2>4 DEF StreamInv
<1>6. QED
  BY <1>1, <1>2, <1>3, <1>4, <1>5 DEF Stream!Next, Conns

\* The two parts keep their invariants side by side.
LEMMA PartsKept ==
    ASSUME TypeOK, StreamInv, [StreamNext]_StreamVars
    PROVE  TypeOK' /\ StreamInv'
<1>1. [Next]_vars /\ [Stream!Next]_streamVars
  BY DEF StreamNext, ChannelNext, UINext, StreamVars
<1>2. QED
  BY <1>1, ChannelTypesKept, StreamStep

\* Both parts are where their invariants put them, in every reachable state.
LEMMA PartsHold == StreamSpec => [](TypeOK /\ StreamInv)
<1>1. StreamInit => TypeOK /\ StreamInv
  <2>1. StreamInit => TypeOK
    BY DEF StreamInit, Init, TypeOK, Life
  <2>2. StreamInit => StreamInv
    BY StreamStart DEF StreamInit
  <2>3. QED
    BY <2>1, <2>2
<1>2. TypeOK /\ StreamInv /\ [StreamNext]_StreamVars => (TypeOK /\ StreamInv)'
  BY PartsKept
<1>3. QED
  BY <1>1, <1>2, PTL DEF StreamSpec

\* Every reachable state of the channel adapter, the hub, the stream handlers and the UI's
\* reader is well typed (channel.go, hub.go, stream.go), whatever the buffers' sizes.
THEOREM StreamTypes == StreamSpec => []StreamTypeOK
<1>1. TypeOK /\ StreamInv => StreamTypeOK
  BY InvTypes DEF StreamTypeOK
<1>2. QED
  BY <1>1, PartsHold, PTL

\* A subscribed UI ends with the hub's topics and a command reaches one UI at most, for any
\* topics, values, connections and buffer sizes (hub.go, stream.go).
THEOREM StreamDelivered == StreamSpec => []StreamDelivers
<1>1. TypeOK /\ StreamInv => StreamDelivers
  BY InvNoGap, InvOnce DEF StreamDelivers
<1>2. QED
  BY <1>1, PartsHold, PTL

\* A step puts a line on a wire only for the handler that is the stream.
LEMMA OnlyStreamWrites ==
    ASSUME StreamInv, Stream!Next, NEW c \in Conns, Len(wire'[c]) > Len(wire[c])
    PROVE  c = streamID
<1>1. wire \in [Conns -> Lines] /\ \A d \in Conns : Len(wire[d]) \in Nat
  BY LenProperties DEF StreamInv, StreamTyped, Lines
<1>2. wire' # wire
  BY <1>1
<1>3. ASSUME NEW d \in Conns, Stream!Read(d) PROVE FALSE
  <2>1. wire[d] # <<>> /\ wire' = [wire EXCEPT ![d] = Tail(wire[d])]
    BY <1>3 DEF Stream!Read
  <2>2. Len(Tail(wire[d])) = Len(wire[d]) - 1
    BY <1>1, <2>1, HeadTailProperties DEF Lines
  <2>3. QED
    BY <1>1, <2>1, <2>2
<1>4. ASSUME NEW d \in Conns, Stream!Drop(d) PROVE FALSE
  <2>1. wire' = [wire EXCEPT ![d] = <<>>]
    BY <1>4 DEF Stream!Drop
  <2>2. QED
    BY <1>1, <2>1
<1>5. ASSUME NEW d \in Conns, Stream!WriteDone(d) PROVE c = streamID
  <2>1. wire' = [wire EXCEPT ![d] = wire[d] \o pending[d]] /\ handler[d] = "writing"
    BY <1>5 DEF Stream!WriteDone
  <2>2. c = d
    BY <1>1, <2>1
  <2>3. QED
    BY <2>1, <2>2 DEF StreamInv, OneStream
<1>6. ASSUME NEW d \in Conns,
             \/ Stream!Connect(d) \/ Stream!Replace(d) \/ Stream!Subscribe(d) \/ Stream!Pick(d)
             \/ Stream!PickPing(d) \/ Stream!WriteBegin(d) \/ Stream!WriteFailed(d)
             \/ Stream!Leave(d) \/ Stream!Close(d) \/ Stream!EndOfStream(d) \/ Stream!Stall(d)
      PROVE  wire' = wire
  BY <1>6 DEF Stream!Connect, Stream!Replace, Stream!Subscribe, Stream!Pick, Stream!PickPing,
     Stream!WriteBegin, Stream!WriteFailed, Stream!Leave, Stream!Close, Stream!EndOfStream,
     Stream!Stall, Stream!ui
<1>7. ASSUME NEW t \in Topics, NEW v \in Values, Stream!SetTopic(t, v) PROVE wire' = wire
  BY <1>7 DEF Stream!SetTopic, Stream!ui
<1>8. Stream!SendCommand \/ Stream!SendTransient => wire' = wire
  BY DEF Stream!SendCommand, Stream!SendTransient, Stream!ui
<1>9. QED
  BY <1>2, <1>3, <1>4, <1>5, <1>6, <1>7, <1>8 DEF Stream!Next, Stream!HandlerStep, Conns

\* Once a newer connection is the stream, nothing more reaches the pipe of an older one
\* (stream.go:75-93).
THEOREM ReplacedSilenced == StreamSpec => ReplacedIsSilent
<1>1. TypeOK /\ StreamInv /\ [StreamNext]_StreamVars =>
          [\A c \in Stream!Conns : Len(wire'[c]) > Len(wire[c]) => c = streamID]_(Stream!vars)
  <2> SUFFICES ASSUME StreamInv, [StreamNext]_StreamVars, ~(UNCHANGED Stream!vars),
                      NEW c \in Stream!Conns, Len(wire'[c]) > Len(wire[c])
               PROVE  c = streamID
    OBVIOUS
  <2>1. ~(UNCHANGED streamVars)
    BY DEF Stream!vars, Stream!hub, Stream!server, Stream!serve, Stream!ui, streamVars
  <2>2. Stream!Next
    BY <2>1 DEF StreamNext, ChannelNext, UINext, StreamVars
  <2>3. QED
    BY <2>2, OnlyStreamWrites DEF Conns
<1>2. QED
  BY <1>1, PartsHold, PTL DEF StreamSpec, ReplacedIsSilent, Stream!ReplacedIsSilent
=============================================================================
