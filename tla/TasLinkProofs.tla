----------------------------- MODULE TasLinkProofs -----------------------------
(***************************************************************************)
(* TasLink keeps its types, its routes and the order of the commands, and  *)
(* loses nothing that it was asked for on a connection that lasts, for     *)
(* every set of callers and every bound; and it implements CommandChannel. *)
(***************************************************************************)
EXTENDS TasLink, SequenceTheorems, TLAPS

\* The k-th hello of the connection is among the lines of s.
Holds(s, k) == \E i \in 1..Len(s) : s[i] = Hello(k)

\* The hellos come in their order, ...
Increasing(s) ==
    \A i, j \in 1..Len(s) : i < j /\ s[i].kind = "hello" /\ s[j].kind = "hello" => s[i].con < s[j].con

\* ... and so do the commands, of which there may be copies.
Sorted(s) ==
    \A i, j \in 1..Len(s) : i < j /\ s[i].kind = "call" /\ s[j].kind = "call" => s[i].con <= s[j].con

\* A hello is on its way to Thyme or, echoed, on its way back.
Underway(k) == Holds(down, k) \/ Holds(up, k)

\* The hellos under way are in order, and later than TAS has counted to.
HellosInOrder ==
    /\ Increasing(down) /\ Increasing(up)
    /\ \A k, m \in 1..MaxHello : Holds(down, k) /\ Holds(up, m) => k < m
    /\ \A k \in 1..MaxHello : Underway(k) => tas_download_count < k

\* While no echo has been lost they go on where TAS has counted to.
Unbroken ==
    ~torn => \A k, m \in 1..MaxHello : Underway(k) /\ tas_download_count < m /\ m < k => Underway(m)

\* Thyme has read this hello: TAS has counted so far, or a later one is under way.
Past(m) ==
    \/ m <= tas_download_count
    \/ ~Holds(up, m) /\ \E k \in 1..MaxHello : m <= k /\ Underway(k)

\* What Thyme has read a hello for goes to TAS's present socket.
Routes == link = "open" => \A m \in 1..MaxHello : Past(m) => socket_arr[Greeted(m)] = "current"

\* While lines of the last connection wait, Thyme has read no hello of this one:
\* they cannot take a route back from it.
Fresh == link = "open" /\ leftover # << >> => \A m \in 1..MaxHello : ~Past(m)

\* Nothing is under way where there is no connection.
Idle == link \in {"none", "connecting"} => up = << >> /\ down = << >>

\* TAS only uploads on a connection whose echoes it has counted.
Uploading == tas_state = "upload" => link \in {"open", "broken"} /\ tas_download_count >= 3

\* No command under way is earlier than one before it, or than one served.
CommandsUnderway ==
    /\ Sorted(down)
    /\ \A i \in 1..Len(down) : down[i].kind = "call" =>
           down[i].con <= issued /\ \A j \in 1..Len(served) : served[j] <= down[i].con
    /\ \A j \in 1..Len(served) : served[j] <= issued
    /\ \A i, j \in 1..Len(served) : i < j => served[i] <= served[j]

\* A Thyme that passes notifications on has a listener for them.
Heard == ready => handlers >= 1

LinkInv ==
    TypeOK /\ HellosInOrder /\ Unbroken /\ Routes /\ Fresh /\ Idle /\ Uploading /\ CommandsUnderway /\ Heard

-----------------------------------------------------------------------------
(* Lines and sequences of lines.                                           *)

\* What a line holds follows from its kind.
LEMMA LineFacts ==
    ASSUME NEW l \in Line
    PROVE  /\ l.kind = "hello" => l.con \in 1..MaxHello /\ l = Hello(l.con)
           /\ l.kind = "call" => l.con \in Command
           /\ l.kind = "userId" => l.con \in User
           /\ l.kind = "target_gps" => l.con \in {LatLon, LonLat}
BY DEF Line, Hello, Gps

\* The constructors make lines, each of its kind.
LEMMA MadeLines ==
    /\ \A k \in 1..MaxHello : Hello(k) \in Line /\ Hello(k).kind = "hello" /\ Hello(k).con = k
    /\ \A c \in Command : Call(c) \in Line /\ Call(c).kind = "call" /\ Call(c).con = c
    /\ \A u \in User : UserId(u) \in Line /\ UserId(u).kind = "userId"
    /\ \A p \in {LatLon, LonLat} : TargetGps(p) \in Line /\ TargetGps(p).kind = "target_gps"
    /\ Gps \in Line /\ Gps.kind = "gps"
BY DEF Line, Hello, Call, UserId, TargetGps, Gps

\* A line at the end.
LEMMA Appended ==
    ASSUME NEW s \in Seq(Line), NEW l \in Line
    PROVE  /\ Append(s, l) \in Seq(Line)
           /\ \A k \in 1..MaxHello : Holds(Append(s, l), k) <=> Holds(s, k) \/ l = Hello(k)
           /\ Increasing(s) /\ (l.kind = "hello" => \A i \in 1..Len(s) : s[i].kind = "hello" => s[i].con < l.con)
                  => Increasing(Append(s, l))
           /\ Sorted(s) /\ l.kind # "call" => Sorted(Append(s, l))
<1>1. /\ Append(s, l) \in Seq(Line) /\ Len(s) \in Nat /\ Len(Append(s, l)) = Len(s) + 1
      /\ \A i \in 1..Len(s) : Append(s, l)[i] = s[i]
      /\ Append(s, l)[Len(s) + 1] = l
  BY AppendProperties, LenProperties
<1>2. \A k \in 1..MaxHello : Holds(Append(s, l), k) <=> Holds(s, k) \/ l = Hello(k)
  BY <1>1 DEF Holds
<1>3. ASSUME Increasing(s), l.kind = "hello" => \A i \in 1..Len(s) : s[i].kind = "hello" => s[i].con < l.con
      PROVE  Increasing(Append(s, l))
  BY <1>1, <1>3 DEF Increasing
<1>4. ASSUME Sorted(s), l.kind # "call" PROVE Sorted(Append(s, l))
  BY <1>1, <1>4 DEF Sorted
<1> QED
  BY <1>1, <1>2, <1>3, <1>4

\* Copies of a line at the end.
LEMMA Copied ==
    ASSUME NEW s \in Seq(Line), NEW l \in Line, NEW n \in Nat
    PROVE  /\ Extended(s, l, n) \in Seq(Line) /\ Len(Extended(s, l, n)) = Len(s) + n
           /\ \A i \in 1..Len(s) : Extended(s, l, n)[i] = s[i]
           /\ \A i \in 1..(Len(s) + n) : i > Len(s) => Extended(s, l, n)[i] = l
           /\ l.kind # "hello" => \A k \in 1..MaxHello : Holds(Extended(s, l, n), k) <=> Holds(s, k)
           /\ l.kind # "hello" /\ Increasing(s) => Increasing(Extended(s, l, n))
           /\ Sorted(s) /\ (l.kind = "call" => \A i \in 1..Len(s) : s[i].kind = "call" => s[i].con <= l.con)
                  => Sorted(Extended(s, l, n))
           /\ Items(Extended(s, l, n)) = Items(s) \cup {k \in {l} : n > 0}
<1> DEFINE t == Extended(s, l, n)
           ls == [i \in 1..n |-> l]
<1>1. ls \in Seq(Line) /\ Len(ls) = n /\ \A i \in 1..n : ls[i] = l
  <2>1. ls \in [1..n -> Line] /\ \A i \in 1..n : ls[i] = l
    OBVIOUS
  <2>2. ls \in Seq(Line)
    BY <2>1, IsASeq
  <2> QED  BY <2>1, <2>2, LenProperties
<1>2. /\ t \in Seq(Line) /\ Len(s) \in Nat /\ Len(t) = Len(s) + n
      /\ \A i \in 1..Len(s) : t[i] = s[i]
      /\ \A i \in 1..(Len(s) + n) : i > Len(s) => t[i] = l
  <2>1. /\ t \in Seq(Line) /\ Len(t) = Len(s) + Len(ls) /\ Len(s) \in Nat
        /\ \A i \in 1..(Len(s) + Len(ls)) :
               t[i] = IF i <= Len(s) THEN s[i] ELSE ls[i - Len(s)]
    BY <1>1, ConcatProperties, LenProperties DEF Extended
  <2> HIDE DEF t, ls
  <2> QED  BY <1>1, <2>1
<1> HIDE DEF t, ls
<1>3. ASSUME l.kind # "hello", NEW k \in 1..MaxHello PROVE Holds(t, k) <=> Holds(s, k)
  <2>1. l # Hello(k)
    BY <1>3, MadeLines
  <2>2. ASSUME NEW i \in 1..Len(t), t[i] = Hello(k) PROVE i \in 1..Len(s) /\ s[i] = Hello(k)
    BY <1>2, <2>1, <2>2
  <2>3. ASSUME NEW i \in 1..Len(s), s[i] = Hello(k) PROVE i \in 1..Len(t) /\ t[i] = Hello(k)
    BY <1>2, <2>3
  <2> QED  BY <2>2, <2>3 DEF Holds
<1>4. ASSUME l.kind # "hello", Increasing(s) PROVE Increasing(t)
  <2> SUFFICES ASSUME NEW i \in 1..Len(t), NEW j \in 1..Len(t), i < j,
                      t[i].kind = "hello", t[j].kind = "hello"
               PROVE  t[i].con < t[j].con
    BY DEF Increasing
  <2>1. i \in 1..Len(s) /\ j \in 1..Len(s) /\ t[i] = s[i] /\ t[j] = s[j]
    BY <1>2, <1>4
  <2> QED  BY <1>4, <2>1 DEF Increasing
<1>5. ASSUME Sorted(s), l.kind = "call" => \A i \in 1..Len(s) : s[i].kind = "call" => s[i].con <= l.con
      PROVE  Sorted(t)
  <2> SUFFICES ASSUME NEW i \in 1..Len(t), NEW j \in 1..Len(t), i < j,
                      t[i].kind = "call", t[j].kind = "call"
               PROVE  t[i].con <= t[j].con
    BY DEF Sorted
  <2>1. l.kind = "call" => l.con <= l.con
    BY LineFacts DEF Command
  <2>2. CASE j <= Len(s)
    <3>1. i \in 1..Len(s) /\ j \in 1..Len(s) /\ t[i] = s[i] /\ t[j] = s[j]
      BY <1>2, <2>2
    <3> QED  BY <1>5, <3>1 DEF Sorted
  <2>3. CASE j > Len(s) /\ i <= Len(s)
    <3>1. i \in 1..Len(s) /\ t[i] = s[i] /\ t[j] = l
      BY <1>2, <2>3
    <3> QED  BY <1>5, <3>1
  <2>4. CASE i > Len(s)
    <3>1. t[i] = l /\ t[j] = l
      BY <1>2, <2>4
    <3> QED  BY <2>1, <3>1
  <2> QED  BY <1>2, <2>2, <2>3, <2>4
<1>6. Items(t) = Items(s) \cup {k \in {l} : n > 0}
  <2>1. DOMAIN t = 1..(Len(s) + n) /\ DOMAIN s = 1..Len(s)
    BY <1>2, LenProperties
  <2>2. ASSUME NEW k \in Items(t) PROVE k \in Items(s) \cup {x \in {l} : n > 0}
    BY <1>2, <2>1, <2>2 DEF Items
  <2>3. ASSUME NEW k \in Items(s) PROVE k \in Items(t)
    BY <1>2, <2>1, <2>3 DEF Items
  <2>4. ASSUME n > 0 PROVE l \in Items(t)
    <3>1. Len(s) + 1 \in DOMAIN t /\ t[Len(s) + 1] = l
      BY <1>2, <2>1, <2>4
    <3> QED  BY <3>1 DEF Items
  <2> QED  BY <2>2, <2>3, <2>4
<1> QED
  BY <1>2, <1>3, <1>4, <1>5, <1>6 DEF t

\* The lines behind the first.
LEMMA Behind ==
    ASSUME NEW s \in Seq(Line), s # << >>
    PROVE  /\ Head(s) \in Line /\ Tail(s) \in Seq(Line)
           /\ Len(s) \in Nat \ {0} /\ Head(s) = s[1] /\ Len(Tail(s)) = Len(s) - 1
           /\ \A i \in 1..(Len(s) - 1) : Tail(s)[i] = s[i + 1]
           /\ \A k \in 1..MaxHello : Holds(s, k) <=> Head(s) = Hello(k) \/ Holds(Tail(s), k)
           /\ (Increasing(s) => Increasing(Tail(s))) /\ (Sorted(s) => Sorted(Tail(s)))
           /\ \A k, m \in 1..MaxHello : Increasing(s) /\ Head(s) = Hello(k) /\ Holds(Tail(s), m) => k < m
<1>1. /\ Head(s) \in Line /\ Tail(s) \in Seq(Line) /\ Head(s) = s[1]
      /\ Len(s) \in Nat \ {0} /\ Len(Tail(s)) = Len(s) - 1
      /\ \A i \in 1..(Len(s) - 1) : Tail(s)[i] = s[i + 1]
  BY HeadTailProperties, EmptySeq, LenProperties
<1>2. ASSUME NEW k \in 1..MaxHello PROVE Holds(s, k) <=> Head(s) = Hello(k) \/ Holds(Tail(s), k)
  <2>1. ASSUME Holds(s, k) PROVE Head(s) = Hello(k) \/ Holds(Tail(s), k)
    <3>1. PICK i \in 1..Len(s) : s[i] = Hello(k)
      BY <2>1 DEF Holds
    <3>2. CASE i = 1
      BY <1>1, <3>1, <3>2
    <3>3. CASE i # 1
      <4>1. i - 1 \in 1..(Len(s) - 1) /\ Tail(s)[i - 1] = s[i]
        BY <1>1, <3>1, <3>3
      <4> QED  BY <1>1, <3>1, <4>1 DEF Holds
    <3> QED  BY <3>2, <3>3
  <2>2. ASSUME Head(s) = Hello(k) \/ Holds(Tail(s), k) PROVE Holds(s, k)
    BY <1>1, <2>2 DEF Holds
  <2> QED  BY <2>1, <2>2
<1>3. (Increasing(s) => Increasing(Tail(s))) /\ (Sorted(s) => Sorted(Tail(s)))
  BY <1>1 DEF Increasing, Sorted
<1>4. ASSUME NEW k \in 1..MaxHello, NEW m \in 1..MaxHello,
             Increasing(s), Head(s) = Hello(k), Holds(Tail(s), m)
      PROVE  k < m
  <2>1. PICK i \in 1..(Len(s) - 1) : s[i + 1] = Hello(m)
    BY <1>1, <1>4 DEF Holds
  <2>2. 1 \in 1..Len(s) /\ i + 1 \in 1..Len(s) /\ 1 < i + 1
    BY <1>1, <2>1
  <2>3. s[1].kind = "hello" /\ s[i + 1].kind = "hello" /\ s[1].con = k /\ s[i + 1].con = m
    BY <1>1, <1>4, <2>1, MadeLines
  <2> QED  BY <1>4, <2>2, <2>3 DEF Increasing
<1> QED
  BY <1>1, <1>2, <1>3, <1>4

\* The lines behind the first n, which are no hellos.
LEMMA BehindMany ==
    ASSUME NEW s \in Seq(Line), NEW n \in 1..Len(s)
    PROVE  /\ After(s, n) \in Seq(Line)
           /\ Increasing(s) => Increasing(After(s, n))
           /\ (\A i \in 1..n : s[i].kind # "hello") =>
                  \A k \in 1..MaxHello : Holds(After(s, n), k) <=> Holds(s, k)
<1>1. Len(s) \in Nat /\ n \in Nat /\ \A i \in 1..Len(s) : s[i] \in Line
  BY LenProperties, ElementOfSeq
<1>2. /\ After(s, n) \in Seq(Line) /\ Len(After(s, n)) = Len(s) - n
      /\ \A i \in 1..(Len(s) - n) : After(s, n)[i] = s[i + n]
  <2>1. n + 1 \in Int /\ Len(s) \in Int /\ \A i \in (n + 1)..Len(s) : s[i] \in Line
    BY <1>1
  <2>2. /\ SubSeq(s, n + 1, Len(s)) \in Seq(Line)
        /\ Len(SubSeq(s, n + 1, Len(s))) = IF n + 1 <= Len(s) THEN Len(s) - (n + 1) + 1 ELSE 0
        /\ \A i \in 1..(Len(s) - (n + 1) + 1) : SubSeq(s, n + 1, Len(s))[i] = s[(n + 1) + i - 1]
    BY <2>1, SubSeqProperties
  <2> QED  BY <1>1, <2>2 DEF After
<1>3. ASSUME Increasing(s) PROVE Increasing(After(s, n))
  BY <1>1, <1>2, <1>3, SMTT(30) DEF Increasing
<1>4. ASSUME \A i \in 1..n : s[i].kind # "hello", NEW k \in 1..MaxHello
      PROVE  Holds(After(s, n), k) <=> Holds(s, k)
  <2>1. ASSUME Holds(s, k) PROVE Holds(After(s, n), k)
    <3>1. PICK i \in 1..Len(s) : s[i] = Hello(k)
      BY <2>1 DEF Holds
    <3>2. i - n \in 1..(Len(s) - n) /\ After(s, n)[i - n] = s[i]
      BY <1>1, <1>2, <1>4, <3>1, MadeLines
    <3> QED  BY <1>2, <3>1, <3>2 DEF Holds
  <2>2. ASSUME Holds(After(s, n), k) PROVE Holds(s, k)
    BY <1>1, <1>2, <2>2 DEF Holds
  <2> QED  BY <2>1, <2>2
<1> QED
  BY <1>2, <1>3, <1>4

\* No hello is in an empty sequence.
LEMMA NoneHeld ==
    /\ \A k : ~Holds(<< >>, k)
    /\ Increasing(<< >>) /\ Sorted(<< >>)
    /\ << >> \in Seq(Line)
BY EmptySeq DEF Holds, Increasing, Sorted

\* The steps of TAS and its sockets, and those of Thyme.
TasStep ==
    \/ TasTick \/ TickLate \/ TickMissing \/ Refused \/ Connected \/ ClosedByThyme \/ OnReceive
    \/ Upload \/ ServiceGone

ThymeStep ==
    \/ Ready \/ Unregister \/ Register \/ RegisterAgain \/ Restart
    \/ TasHandlerBuffers \/ OnData \/ TasHandlerOld \/ ClientConnects
    \/ NotifyCommand \/ NotifyTarget \/ PositionPosted
    \/ \E u \in User : NotifyCaller(u)
    \/ \E c \in clients : Position(c)

-----------------------------------------------------------------------------
(* Types.                                                                  *)

\* The next echo is later than TAS has counted to, and the next while none has
\* been lost.
LEMMA NextEcho ==
    ASSUME TypeOK, HellosInOrder, Unbroken, Reads, Head(down).kind = "hello"
    PROVE  \E k \in 1..MaxHello :
               /\ Head(down) = Hello(k)
               /\ tas_download_count + 1 <= k /\ (~torn => k = tas_download_count + 1)
<1>1. down \in Seq(Line) /\ down # << >> /\ tas_download_count \in 0..MaxHello
  BY DEF TypeOK, Reads
<1>2. PICK k \in 1..MaxHello : Head(down) = Hello(k)
  BY <1>1, Behind, LineFacts
<1>3. Holds(down, k) /\ tas_download_count < k
  BY <1>1, <1>2, Behind DEF HellosInOrder, Underway
<1>4. ASSUME ~torn, tas_download_count + 1 < k PROVE FALSE
  <2>1. tas_download_count + 1 \in 1..MaxHello
    BY <1>1, <1>4 DEF MaxHello
  <2>2. Underway(tas_download_count + 1)
    BY <1>1, <1>3, <1>4, <2>1 DEF Unbroken, Underway
  <2>3. CASE Holds(up, tas_download_count + 1)
    BY <1>1, <1>3, <1>4, <2>1, <2>3 DEF HellosInOrder
  <2>4. CASE Holds(down, tas_download_count + 1)
    <3>1. Holds(Tail(down), tas_download_count + 1)
      <4>1. Head(down) # Hello(tas_download_count + 1)
        BY <1>2, <1>4 DEF Hello
      <4> QED  BY <1>1, <2>1, <2>4, <4>1, Behind
    <3>2. k < tas_download_count + 1
      BY <1>1, <1>2, <2>1, <3>1, Behind DEF HellosInOrder
    <3> QED  BY <1>1, <1>4, <3>2
  <2> QED  BY <2>2, <2>3, <2>4 DEF Underway
<1> QED  BY <1>1, <1>2, <1>3, <1>4 DEF MaxHello

\* What the listeners say are lines.
LEMMA HellosType ==
    ASSUME NEW n \in 0..2
    PROVE  /\ Hellos(n) \in Seq(Line) /\ Len(Hellos(n)) = 3 * n
           /\ \A k \in 1..(3 * n) : Hellos(n)[k] = Hello(k)
<1>1. \A k \in 1..(3 * n) : Hello(k) \in Line
  BY MadeLines DEF MaxHello
<1>2. 3 * n \in Nat /\ Hellos(n) \in [1..(3 * n) -> Line]
  BY <1>1 DEF Hellos
<1>3. Hellos(n) \in Seq(Line)
  BY <1>2, IsASeq
<1>4. Len(Hellos(n)) = 3 * n
  BY <1>2, <1>3, LenProperties
<1> QED  BY <1>3, <1>4 DEF Hellos

\* Routes are sockets.
LEMMA RouteType ==
    ASSUME NEW ls, NEW socket \in Socket, socket_arr \in [Download -> Socket], RouteTo(ls, socket)
    PROVE  socket_arr' \in [Download -> Socket]
BY DEF RouteTo

\* A connection that ends leaves well-typed remains.
LEMMA ClosedType ==
    ASSUME TypeOK, Closed
    PROVE  /\ link' = "none" /\ up' \in Seq(Line) /\ down' \in Seq(Line) /\ leftover' \in Seq(Line)
           /\ tas_buffer' \in BOOLEAN /\ cut' = "none" /\ torn' = FALSE
           /\ socket_arr' \in [Download -> Socket]
           /\ opening' \in Seq([line : Line, socket : Socket])
           /\ clients' \subseteq [user : User, socket : Socket]
           /\ posts' \in Seq(Socket) /\ asked' \subseteq Line
<1> USE DEF TypeOK, Closed, Socket
<1>1. leftover' \in Seq(Line) /\ up' \in Seq(Line) /\ down' \in Seq(Line)
  BY ConcatProperties, EmptySeq
<1>2. opening' \in Seq([line : Line, socket : Socket])
  <2>1. /\ Len(opening) \in Nat /\ DOMAIN opening = 1..Len(opening)
        /\ \A i \in 1..Len(opening) : opening[i] \in [line : Line, socket : Socket]
    BY LenProperties, ElementOfSeq
  <2>2. opening' \in [1..Len(opening) -> [line : Line, socket : Socket]]
    BY <2>1
  <2> QED  BY <2>1, <2>2, IsASeq
<1>3. posts' \in Seq(Socket)
  <2>1. Len(posts) \in Nat /\ DOMAIN posts = 1..Len(posts)
    BY LenProperties
  <2>2. posts' \in [1..Len(posts) -> Socket]
    BY <2>1
  <2> QED  BY <2>1, <2>2, IsASeq
<1>4. clients' \subseteq [user : User, socket : Socket]
  OBVIOUS
<1>5. socket_arr' \in [Download -> Socket]
  OBVIOUS
<1> QED  BY <1>1, <1>2, <1>3, <1>4, <1>5

\* What is written to TAS are lines.
LEMMA WriteType ==
    ASSUME TypeOK, NEW socket, NEW l \in Line, NEW n \in Nat, Write(socket, l, n)
    PROVE  down' \in Seq(Line) /\ asked' \subseteq Line
<1>1. CASE UNCHANGED <<down, asked>>
  BY <1>1 DEF TypeOK
<1>2. CASE down' = Extended(down, l, n) /\ asked' \in {asked, asked \cup {l}}
  BY <1>2, Copied DEF TypeOK
<1> QED  BY <1>1, <1>2 DEF Write

\* The clients of a chunk are well typed.
LEMMA FollowType ==
    ASSUME TypeOK, NEW s \in Seq(Line), NEW n \in 1..Len(s), NEW socket \in Socket,
           Follow(SubSeq(s, 1, n), socket)
    PROVE  opening' \in Seq([line : Line, socket : Socket]) /\ asked' \subseteq Line
<1>1. Len(s) \in Nat /\ \A i \in 1..Len(s) : s[i] \in Line
  BY LenProperties, ElementOfSeq
<1>2. Len(SubSeq(s, 1, n)) = n /\ SubSeq(s, 1, n)[n] = s[n]
  <2>1. 1 \in Int /\ n \in Int /\ \A i \in 1..n : s[i] \in Line
    BY <1>1
  <2>2. /\ Len(SubSeq(s, 1, n)) = IF 1 <= n THEN n - 1 + 1 ELSE 0
        /\ \A i \in 1..(n - 1 + 1) : SubSeq(s, 1, n)[i] = s[1 + i - 1]
    BY <2>1, SubSeqProperties
  <2> QED  BY <1>1, <2>2
<1>3. [line |-> s[n], socket |-> socket] \in [line : Line, socket : Socket]
  BY <1>1
<1>4. opening' \in Seq([line : Line, socket : Socket])
  <2>1. opening' = opening \/ opening' = Append(opening, [line |-> s[n], socket |-> socket])
    BY <1>2 DEF Follow
  <2> DEFINE clientType == [line : Line, socket : Socket]
             added == [line |-> s[n], socket |-> socket]
  <2>2. opening \in Seq(clientType) /\ added \in clientType
    BY <1>3 DEF TypeOK
  <2> HIDE DEF clientType, added
  <2>3. Append(opening, added) \in Seq(clientType)
    BY <2>2, AppendProperties
  <2> QED  BY <2>1, <2>2, <2>3 DEF clientType, added
<1>5. asked' \subseteq Line
  BY DEF Follow, TypeOK
<1> QED  BY <1>4, <1>5

\* Nothing is a sequence of anything.
LEMMA NoneYet ==
    /\ << >> \in Seq(Line) /\ << >> \in Seq(Socket) /\ << >> \in Seq(Command)
    /\ << >> \in Seq([line : Line, socket : Socket])
<1>1. ASSUME NEW S PROVE << >> \in Seq(S)
  BY EmptySeq
<1> QED  BY <1>1

\* The types hold at first.
LEMMA InitType == Init => TypeOK
<1> SUFFICES ASSUME Init PROVE TypeOK
  OBVIOUS
<1>1. /\ up \in Seq(Line) /\ down \in Seq(Line) /\ leftover \in Seq(Line) /\ posts \in Seq(Socket)
      /\ served \in Seq(Command) /\ opening \in Seq([line : Line, socket : Socket])
  BY NoneYet DEF Init
<1>2. socket_arr \in [Download -> Socket] /\ clients \subseteq [user : User, socket : Socket]
  BY DEF Init, Socket
<1>3. /\ tas_buffer \in BOOLEAN /\ cut = "none" /\ torn = FALSE /\ ready \in BOOLEAN /\ registered \in BOOLEAN
      /\ handlers = 0 /\ asked \subseteq Line
  BY DEF Init
<1>4. /\ tas_state = "init" /\ tas_download_count \in 0..MaxHello /\ callbacks \in 0..2 /\ unix = "none"
      /\ target = << >> /\ link = "none"
      /\ notis \in Nat /\ issued \in 0..MaxCommands /\ faults \in 0..MaxFaults /\ extras \in 0..MaxExtras
  BY TasAssumption DEF Init, MaxHello
<1> QED
  BY <1>1, <1>2, <1>3, <1>4 DEF TypeOK

\* No step of TAS and its sockets breaks them, ...
LEMMA TasType ==
    ASSUME TypeOK, HellosInOrder, Unbroken, TasStep
    PROVE  TypeOK'
<1> USE TasAssumption
<1> USE DEF TypeOK, tasVars, serviceVars, streams, thymeVars, feedVars, bounds, Fault, Extra
<1>1. CASE TickInit
  BY <1>1 DEF TickInit
<1>2. CASE TickUnix
  BY <1>2 DEF TickUnix
<1>3. CASE TickConnect
  BY <1>3 DEF TickConnect, Listen
<1>4. CASE TickLate \/ TickMissing
  <2>1. Closed /\ tas_state' = "reconnect" /\ callbacks' \in 0..2
    BY <1>4 DEF TickLate, TickMissing, ConnectsAgain, Listen
  <2>2. faults' \in 0..MaxFaults /\ extras' \in 0..MaxExtras
    BY <1>4 DEF TickLate, TickMissing
  <2>3. UNCHANGED <<tas_download_count, serviceVars, ready, registered, handlers, notis, issued>>
    BY <1>4 DEF TickLate, TickMissing, ConnectsAgain
  <2> QED  BY <2>1, <2>2, <2>3, ClosedType
<1>5. CASE Refused
  BY <1>5 DEF Refused
<1>6. CASE Connected
  <2>1. up' \in Seq(Line) /\ link' = "open" /\ tas_download_count' = 0 /\ callbacks' = 0
    BY <1>6, HellosType DEF Connected
  <2>2. UNCHANGED <<tas_state, serviceVars, down, tas_buffer, cut, leftover, torn, thymeVars, feedVars, issued, asked, bounds>>
    BY <1>6 DEF Connected
  <2> QED  BY <2>1, <2>2 DEF MaxHello
<1>7. CASE ClosedByThyme
  BY <1>7, ClosedType DEF ClosedByThyme
<1>8. CASE Receive
  <2>1. down # << >> /\ down \in Seq(Line) /\ served \in Seq(Command)
    BY <1>8 DEF Receive, Reads
  <2>2. Head(down) \in Line /\ down' \in Seq(Line)
    BY <1>8, <2>1, Behind DEF Receive
  <2>3. up' \in Seq(Line)
    BY <1>8, <2>2, Appended DEF Receive
  <2>4. tas_download_count' \in 0..MaxHello
    BY <1>8, NextEcho DEF Receive, MaxHello
  <2>5. served' \in Seq(Command)
    <3>1. CASE Head(down).kind = "call"
      BY <1>8, <2>1, <2>2, <3>1, LineFacts, AppendProperties DEF Receive, SendToServer
    <3>2. CASE Head(down).kind # "call"
      BY <1>8, <2>1, <3>2 DEF Receive, SendToServer
    <3> QED  BY <3>1, <3>2
  <2>6. target' \in {<< >>, LatLon, LonLat}
    BY <1>8, <2>2, LineFacts DEF Receive, SendToServer
  <2>7. tas_state' \in {tas_state, "upload"} /\ UNCHANGED <<callbacks, unix, link, tas_buffer, cut, leftover, torn, thymeVars, feedVars, issued, asked, bounds>>
    BY <1>8 DEF Receive
  <2> QED  BY <2>2, <2>3, <2>4, <2>5, <2>6, <2>7
<1>9. CASE ReceiveCut
  BY <1>9 DEF ReceiveCut
<1>10. CASE ReceiveMark
  BY <1>10, ClosedType DEF ReceiveMark
<1>13. CASE ReceiveRest
  <2>1. down' \in Seq(Line)
    BY <1>13, Behind DEF ReceiveRest, Reads
  <2>2. cut' \in {"none", "text", "mark"} /\ torn' \in BOOLEAN
    BY <1>13 DEF ReceiveRest
  <2>4. asked' \subseteq Line
    BY <1>13 DEF ReceiveRest
  <2>5. faults' \in 0..MaxFaults /\ extras' \in 0..MaxExtras
    BY <1>13 DEF ReceiveRest
  <2>3. UNCHANGED <<tasVars, serviceVars, link, up, tas_buffer, leftover, thymeVars, feedVars, issued>>
    BY <1>13 DEF ReceiveRest
  <2> QED  BY <2>1, <2>2, <2>3, <2>4, <2>5
<1>11. CASE Upload
  BY <1>11, Appended, MadeLines DEF Upload
<1>12. CASE ServiceGone
  BY <1>12 DEF ServiceGone
<1> QED
  BY <1>1, <1>2, <1>3, <1>4, <1>5, <1>6, <1>7, <1>8, <1>9, <1>10, <1>11, <1>12, <1>13 DEF TasStep, TasTick, OnReceive

\* The types of TAS and the streams, and those of Thyme and the rest.
NearType ==
    /\ tas_state \in {"init", "init_udsock", "connect", "reconnect", "upload", "dead"}
    /\ tas_download_count \in 0..MaxHello /\ callbacks \in 0..2
    /\ unix \in {"none", "open", "dead"} /\ served \in Seq(Command)
    /\ target \in {<< >>, LatLon, LonLat}
    /\ link \in {"none", "connecting", "open", "broken"}
    /\ tas_buffer \in BOOLEAN /\ cut \in {"none", "text", "mark"} /\ torn \in BOOLEAN

FarType ==
    /\ ready \in BOOLEAN /\ registered \in BOOLEAN /\ handlers \in Nat
    /\ socket_arr \in [Download -> Socket]
    /\ opening \in Seq([line : Line, socket : Socket])
    /\ clients \subseteq [user : User, socket : Socket]

LineType ==
    /\ up \in Seq(Line) /\ down \in Seq(Line) /\ leftover \in Seq(Line)
    /\ posts \in Seq(Socket) /\ notis \in Nat
    /\ issued \in 0..MaxCommands /\ asked \subseteq Line /\ faults \in 0..MaxFaults /\ extras \in 0..MaxExtras

\* Thyme leaves TAS as it is, but for what it reads and writes.
LEMMA NearKept ==
    ASSUME TypeOK, UNCHANGED <<tasVars, serviceVars, link, cut, torn>>, tas_buffer' \in BOOLEAN
    PROVE  NearType'
BY DEF TypeOK, NearType, tasVars, serviceVars

LEMMA WholeType ==
    ASSUME NearType', FarType', LineType'
    PROVE  TypeOK'
BY DEF TypeOK, NearType, FarType, LineType

\* ... and none of Thyme.
LEMMA ThymeType ==
    ASSUME TypeOK, ThymeStep
    PROVE  TypeOK'
<1> USE TasAssumption
<1> USE DEF TypeOK, tasVars, serviceVars, streams, thymeVars, feedVars, bounds, Fault, Extra
<1>1. CASE Ready
  BY <1>1 DEF Ready
<1>2. CASE Unregister
  <2>1. registered' = FALSE /\ faults' \in 0..MaxFaults /\ extras' \in 0..MaxExtras
    BY <1>2 DEF Unregister
  <2>2. UNCHANGED <<tasVars, serviceVars, streams, ready, handlers, socket_arr, opening, clients, feedVars, issued, asked>>
    BY <1>2 DEF Unregister
  <2>3. NearType' /\ FarType' /\ LineType'
    BY <2>1, <2>2, NearKept DEF FarType, LineType
  <2> QED  BY <2>3, WholeType
<1>3. CASE Register \/ RegisterAgain
  <2>1. registered' = TRUE /\ handlers' \in Nat /\ extras' \in 0..MaxExtras /\ UNCHANGED faults
    BY <1>3 DEF Register, RegisterAgain
  <2>2. UNCHANGED <<tasVars, serviceVars, streams, ready, socket_arr, opening, clients, feedVars, issued, asked>>
    BY <1>3 DEF Register, RegisterAgain
  <2>3. NearType' /\ FarType' /\ LineType'
    BY <2>1, <2>2, NearKept DEF FarType, LineType
  <2> QED  BY <2>3, WholeType
<1>4. CASE Restart
  <2>1. /\ up' \in Seq(Line) /\ leftover' \in Seq(Line) /\ posts' \in Seq(Socket)
        /\ opening' \in Seq([line : Line, socket : Socket])
    BY <1>4, NoneYet DEF Restart
  <2>2. socket_arr' \in [Download -> Socket] /\ clients' \subseteq [user : User, socket : Socket] /\ asked' \subseteq Line
    BY <1>4 DEF Restart, Socket
  <2>3. link' \in {link, "broken"} /\ ready' \in BOOLEAN /\ registered' \in BOOLEAN /\ tas_buffer' \in BOOLEAN /\ notis' = 0 /\ handlers' = 0
    BY <1>4 DEF Restart
  <2>4. faults' \in 0..MaxFaults /\ UNCHANGED <<tasVars, serviceVars, down, cut, torn, issued, extras>>
    BY <1>4 DEF Restart
  <2> QED  BY <2>1, <2>2, <2>3, <2>4
<1>5. CASE TasHandlerBuffers
  BY <1>5 DEF TasHandlerBuffers
<1>6. CASE TasHandlerHello
  <2>1. up' \in Seq(Line) /\ down' \in Seq(Line)
    BY <1>6, Behind, Appended DEF TasHandlerHello
  <2>2. socket_arr' \in [Download -> Socket]
    BY <1>6, RouteType DEF TasHandlerHello, Socket
  <2>3. tas_buffer' = FALSE
    BY <1>6 DEF TasHandlerHello
  <2>4. UNCHANGED <<tasVars, serviceVars, link, cut, leftover, torn, ready, registered, handlers>>
    BY <1>6 DEF TasHandlerHello
  <2>5. UNCHANGED <<opening, clients, feedVars, issued, asked, bounds>>
    BY <1>6 DEF TasHandlerHello
  <2>6. NearType'
    BY <2>3, <2>4, NearKept
  <2>7. FarType'
    BY <2>2, <2>4, <2>5 DEF FarType
  <2>8. LineType'
    BY <2>1, <2>4, <2>5 DEF LineType
  <2> QED  BY <2>6, <2>7, <2>8, WholeType
<1>7. CASE TasHandler
  <2>1. PICK n \in 1..Len(up) :
            /\ up' = After(up, n) /\ tas_buffer' = FALSE
            /\ RouteTo(SubSeq(up, 1, n), "current") /\ Follow(SubSeq(up, 1, n), "current")
            /\ UNCHANGED <<tasVars, serviceVars, link, down, cut, leftover, torn, ready, registered, handlers, clients, feedVars, issued, bounds>>
    BY <1>7 DEF TasHandler
  <2>2. socket_arr' \in [Download -> Socket]
    BY <2>1, RouteType DEF Socket
  <2>3. opening' \in Seq([line : Line, socket : Socket]) /\ asked' \subseteq Line
    BY <2>1, FollowType DEF Socket
  <2>4. up' \in Seq(Line)
    BY <2>1, BehindMany
  <2>6. NearType'
    BY <2>1, NearKept
  <2>7. FarType'
    BY <2>1, <2>2, <2>3 DEF FarType
  <2>8. LineType'
    BY <2>1, <2>3, <2>4 DEF LineType
  <2> QED  BY <2>6, <2>7, <2>8, WholeType
<1>8. CASE TasHandlerOld
  <2>1. PICK n \in 1..Len(leftover) :
            /\ leftover' = After(leftover, n)
            /\ RouteTo(SubSeq(leftover, 1, n), "old") /\ Follow(SubSeq(leftover, 1, n), "old")
            /\ UNCHANGED <<tasVars, serviceVars, link, up, down, tas_buffer, cut, torn, ready, registered, handlers, clients, feedVars, issued, bounds>>
    BY <1>8 DEF TasHandlerOld
  <2>2. socket_arr' \in [Download -> Socket]
    BY <2>1, RouteType DEF Socket
  <2>3. opening' \in Seq([line : Line, socket : Socket]) /\ asked' \subseteq Line
    BY <2>1, FollowType DEF Socket
  <2>4. leftover' \in Seq(Line)
    BY <2>1, BehindMany
  <2> QED  BY <2>1, <2>2, <2>3, <2>4
<1>9. CASE ClientConnects
  <2> DEFINE latest == opening[Len(opening)]
  <2>1. opening # << >> /\ opening \in Seq([line : Line, socket : Socket])
    BY <1>9 DEF ClientConnects
  <2>2. opening' \in Seq([line : Line, socket : Socket]) /\ Len(opening) \in 1..Len(opening)
    BY <1>9, <2>1, HeadTailProperties, EmptySeq, LenProperties DEF ClientConnects
  <2>3. latest \in [line : Line, socket : Socket]
    BY <2>1, <2>2, ElementOfSeq
  <2>4. latest.line.kind = "userId" =>
            [user |-> latest.line.con, socket |-> latest.socket] \in [user : User, socket : Socket]
    BY <2>3, LineFacts
  <2>5. \/ clients' = clients
        \/ /\ latest.line.kind = "userId"
           /\ clients' = clients \cup {[user |-> latest.line.con, socket |-> latest.socket]}
    BY <1>9 DEF ClientConnects
  <2>6. clients' \subseteq [user : User, socket : Socket]
    BY <2>4, <2>5
  <2>7. asked' \subseteq Line
    BY <1>9 DEF ClientConnects
  <2>8. UNCHANGED <<tasVars, serviceVars, streams, ready, registered, handlers, socket_arr, feedVars, issued, bounds>>
    BY <1>9 DEF ClientConnects
  <2> QED  BY <2>2, <2>6, <2>7, <2>8
<1>10. CASE NotifyCommand
  <2>1. issued + 1 \in Command
    BY <1>10 DEF NotifyCommand, Command
  <2>2. down' \in Seq(Line) /\ asked' \subseteq Line
    BY <1>10, <2>1, MadeLines, WriteType DEF NotifyCommand
  <2> QED  BY <1>10, <2>1, <2>2 DEF NotifyCommand, Command
<1>11. CASE NotifyTarget
  <2>1. down' \in Seq(Line) /\ asked' \subseteq Line
    BY <1>11, MadeLines, WriteType DEF NotifyTarget
  <2> QED  BY <1>11, <2>1 DEF NotifyTarget
<1>12. CASE PositionPosted
  <2>1. down' \in Seq(Line) /\ asked' \subseteq Line
    BY <1>12, MadeLines, WriteType DEF PositionPosted
  <2>2. posts' \in Seq(Socket)
    BY <1>12, HeadTailProperties DEF PositionPosted
  <2> QED  BY <1>12, <2>1, <2>2 DEF PositionPosted
<1>13. ASSUME NEW u \in User, NotifyCaller(u) PROVE TypeOK'
  <2>1. down' \in Seq(Line) /\ asked' \subseteq Line
    BY <1>13, MadeLines, WriteType DEF NotifyCaller
  <2> QED  BY <1>13, <2>1 DEF NotifyCaller
<1>14. ASSUME NEW c \in clients, Position(c) PROVE TypeOK'
  <2>1. c.socket \in Socket
    OBVIOUS
  <2>2. posts' \in Seq(Socket)
    BY <1>14, <2>1, AppendProperties DEF Position
  <2> QED  BY <1>14, <2>2 DEF Position
<1> QED
  BY <1>1, <1>2, <1>3, <1>4, <1>5, <1>6, <1>7, <1>8, <1>9, <1>10, <1>11, <1>12, <1>13, <1>14 DEF ThymeStep, OnData

-----------------------------------------------------------------------------
(* Routes and order.                                                       *)

Ordered == HellosInOrder /\ Unbroken /\ Routes /\ Fresh /\ Idle /\ Uploading /\ CommandsUnderway

\* All seven hold at first.
LEMMA InitOrdered == Init => Ordered
BY NoneHeld DEF Init, Ordered, HellosInOrder, Unbroken, Underway, Routes, Fresh, Idle, Uploading,
                CommandsUnderway, Increasing, Sorted

\* They only read these variables.
LEMMA Kept ==
    ASSUME Ordered,
           UNCHANGED <<tas_state, tas_download_count, link, up, down, leftover, torn, socket_arr, served, issued>>
    PROVE  Ordered'
<1>1. HellosInOrder' /\ Unbroken'
  BY DEF Ordered, HellosInOrder, Unbroken, Underway
<1>2. Routes' /\ Fresh'
  BY DEF Ordered, Routes, Fresh, Past, Underway
<1>3. Idle' /\ Uploading'
  BY DEF Ordered, Idle, Uploading
<1>4. CommandsUnderway'
  BY DEF Ordered, CommandsUnderway
<1> QED  BY <1>1, <1>2, <1>3, <1>4 DEF Ordered

\* A connection that ends takes everything under way with it.
LEMMA EndKeeps ==
    ASSUME Ordered, up' = << >>, down' = << >>, link' \in {"none", "connecting"}, tas_state' # "upload",
           UNCHANGED <<served, issued>>
    PROVE  Ordered'
<1>1. HellosInOrder' /\ Unbroken'
  BY NoneHeld DEF HellosInOrder, Unbroken, Underway
<1>2. Routes' /\ Fresh' /\ Idle' /\ Uploading'
  BY DEF Routes, Fresh, Idle, Uploading
<1>3. CommandsUnderway'
  BY EmptySeq DEF Ordered, CommandsUnderway, Sorted
<1> QED  BY <1>1, <1>2, <1>3 DEF Ordered

\* A connection begins with the hellos on their way to Thyme.
LEMMA BeginKeeps ==
    ASSUME TypeOK, Ordered, Connected
    PROVE  Ordered'
<1>1. /\ up' = Hellos(callbacks) /\ callbacks \in 0..2 /\ down' = << >> /\ link' = "open"
      /\ tas_download_count' = 0 /\ tas_state' = tas_state /\ tas_state # "upload"
      /\ UNCHANGED <<served, issued>>
  BY DEF Connected, TypeOK, Ordered, Idle, Uploading, serviceVars
<1>2. /\ up' \in Seq(Line) /\ Len(up') = 3 * callbacks
      /\ \A k \in 1..(3 * callbacks) : up'[k] = Hello(k) /\ up'[k].con = k
  <2>1. \A k \in 1..(3 * callbacks) : Hello(k).con = k
    BY DEF Hello
  <2> QED  BY <1>1, <2>1, HellosType
<1>3. \A k \in 1..MaxHello : ~Holds(down', k)
  BY <1>1, NoneHeld
<1>4. \A k \in 1..MaxHello : Holds(up', k) => k <= 3 * callbacks
  <2>1. ASSUME NEW k \in 1..MaxHello, Holds(up', k) PROVE k <= 3 * callbacks
    <3>1. PICK i \in 1..(3 * callbacks) : up'[i] = Hello(k)
      BY <1>2, <2>1 DEF Holds
    <3>2. i = k
      BY <1>2, <2>1, <3>1 DEF Hello
    <3> QED  BY <1>1, <3>1, <3>2
  <2> QED  BY <2>1
<1>5. ASSUME NEW k \in 1..MaxHello, Underway(k)', NEW m \in 1..MaxHello, m <= k PROVE Holds(up', m)
  <2>1. k <= 3 * callbacks
    BY <1>3, <1>4, <1>5 DEF Underway
  <2>2. m \in 1..(3 * callbacks)
    BY <1>1, <1>5, <2>1 DEF MaxHello
  <2> QED  BY <1>2, <2>2 DEF Holds
<1>6. HellosInOrder'
  BY <1>1, <1>2, <1>3, NoneHeld DEF HellosInOrder, Increasing
<1>7. Unbroken'
  BY <1>5 DEF Unbroken, Underway
<1>8. \A m \in 1..MaxHello : ~Past(m)'
  BY <1>1, <1>5 DEF Past
<1>9. Routes' /\ Fresh' /\ Idle' /\ Uploading'
  BY <1>1, <1>8 DEF Routes, Fresh, Idle, Uploading
<1>10. CommandsUnderway'
  BY <1>1, EmptySeq DEF Ordered, CommandsUnderway, Sorted
<1> QED  BY <1>6, <1>7, <1>9, <1>10 DEF Ordered

\* The first line to TAS is gone: an echo counted, or lost, or another line.
LEMMA HellosTaken ==
    ASSUME TypeOK, Ordered, down # << >>, down' = Tail(down),
           Increasing(up) => Increasing(up'), \A k \in 1..MaxHello : Holds(up', k) <=> Holds(up, k),
           NEW k \in Nat, tas_download_count' = tas_download_count
               \/ /\ Head(down) = Hello(k) /\ k \in 1..MaxHello
                  /\ tas_download_count' = tas_download_count + 1 /\ tas_download_count + 1 <= k,
           ~torn' => ~torn /\ (Head(down).kind = "hello" =>
               Head(down) = Hello(tas_download_count + 1) /\ tas_download_count' = tas_download_count + 1),
           UNCHANGED <<link, leftover, socket_arr>>
    PROVE  HellosInOrder' /\ Unbroken' /\ Routes' /\ Fresh'
<1>1. down \in Seq(Line) /\ tas_download_count \in 0..MaxHello
  BY DEF TypeOK
<1>2. \A m \in 1..MaxHello : Holds(down', m) => Holds(down, m)
  BY <1>1, Behind
<1>3. \A m \in 1..MaxHello : Underway(m)' => Underway(m)
  BY <1>2 DEF Underway
<1>4. HellosInOrder'
  <2>1. Increasing(down') /\ Increasing(up')
    BY <1>1, Behind DEF Ordered, HellosInOrder
  <2>2. \A n, m \in 1..MaxHello : Holds(down', n) /\ Holds(up', m) => n < m
    BY <1>2 DEF Ordered, HellosInOrder
  <2>3. ASSUME NEW m \in 1..MaxHello, Underway(m)' PROVE tas_download_count' < m
    <3>1. tas_download_count < m
      BY <1>3, <2>3 DEF Ordered, HellosInOrder
    <3>2. CASE tas_download_count' = tas_download_count
      BY <3>1, <3>2
    <3>3. CASE /\ Head(down) = Hello(k) /\ k \in 1..MaxHello
               /\ tas_download_count' = tas_download_count + 1 /\ tas_download_count + 1 <= k
      <4>1. Holds(down, k)
        BY <1>1, <3>3, Behind
      <4>2. Holds(down', m) => k < m
        BY <1>1, <3>3, Behind DEF Ordered, HellosInOrder
      <4>3. Holds(up, m) => k < m
        BY <3>3, <4>1 DEF Ordered, HellosInOrder
      <4>4. k < m
        BY <2>3, <4>2, <4>3 DEF Underway
      <4> QED  BY <1>1, <3>3, <4>4
    <3> QED  BY <3>2, <3>3
  <2> QED  BY <2>1, <2>2, <2>3 DEF HellosInOrder
<1>5. Unbroken'
  <2> SUFFICES ASSUME ~torn', NEW n \in 1..MaxHello, Underway(n)',
                      NEW m \in 1..MaxHello, tas_download_count' < m, m < n
               PROVE  Underway(m)'
    BY DEF Unbroken
  <2>1. tas_download_count < m
    BY <1>1
  <2>2. Underway(m)
    BY <1>3, <2>1 DEF Ordered, Unbroken
  <2>3. CASE Holds(up, m)
    BY <2>3 DEF Underway
  <2>4. CASE Holds(down, m)
    <3>1. Head(down) # Hello(m)
      <4>1. ASSUME Head(down) = Hello(m) PROVE FALSE
        <5>1. Head(down).kind = "hello"
          BY <4>1 DEF Hello
        <5>2. Hello(m) = Hello(tas_download_count + 1) /\ tas_download_count' = tas_download_count + 1
          BY <4>1, <5>1
        <5>3. m = tas_download_count + 1
          BY <5>2 DEF Hello
        <5> QED  BY <1>1, <5>2, <5>3
      <4> QED  BY <4>1
    <3> QED  BY <1>1, <2>4, <3>1, Behind DEF Underway
  <2> QED  BY <2>2, <2>3, <2>4 DEF Underway
<1>6. ASSUME NEW m \in 1..MaxHello, Past(m)' PROVE Past(m)
  <2>1. CASE m <= tas_download_count
    BY <2>1 DEF Past
  <2>2. CASE ~(m <= tas_download_count) /\ m <= tas_download_count'
    <3>1. /\ Head(down) = Hello(k) /\ k \in 1..MaxHello
          /\ tas_download_count' = tas_download_count + 1 /\ tas_download_count + 1 <= k
      BY <2>2
    <3>2. Holds(down, k) /\ m <= k
      BY <1>1, <2>2, <3>1, Behind
    <3>3. ~Holds(up, m)
      BY <3>1, <3>2 DEF Ordered, HellosInOrder
    <3> QED  BY <3>1, <3>2, <3>3 DEF Past, Underway
  <2>3. CASE ~(m <= tas_download_count')
    <3>1. ~Holds(up', m) /\ \E n \in 1..MaxHello : m <= n /\ Underway(n)'
      BY <1>6, <2>3 DEF Past
    <3> QED  BY <1>3, <3>1 DEF Past
  <2> QED  BY <2>1, <2>2, <2>3
<1>7. Routes' /\ Fresh'
  BY <1>6 DEF Ordered, Routes, Fresh
<1> QED  BY <1>4, <1>5, <1>7

\* It was a command that is served now, or nobody gets it, or no command.
LEMMA CommandTaken ==
    ASSUME TypeOK, Ordered, down # << >>, down' = Tail(down), UNCHANGED issued,
           \/ UNCHANGED served
           \/ Head(down).kind = "call" /\ served' = Append(served, Head(down).con)
    PROVE  CommandsUnderway'
<1> DEFINE l == Head(down)
<1>1. down \in Seq(Line) /\ served \in Seq(Command) /\ l \in Line
  BY Behind DEF TypeOK
<1>2. Sorted(down) /\ Sorted(down')
  BY <1>1, Behind DEF Ordered, CommandsUnderway
<1>3. /\ Len(down) \in Nat \ {0} /\ Len(down') = Len(down) - 1 /\ l = down[1]
      /\ \A i \in 1..Len(down') : i + 1 \in 1..Len(down) /\ 1 < i + 1 /\ down'[i] = down[i + 1]
  BY <1>1, Behind
<1>4. \A i \in 1..Len(down') : down'[i].kind = "call" =>
          down'[i].con <= issued /\ \A j \in 1..Len(served) : served[j] <= down'[i].con
  BY <1>3 DEF Ordered, CommandsUnderway
<1>5. CASE UNCHANGED served
  BY <1>2, <1>4, <1>5 DEF Ordered, CommandsUnderway
<1>6. CASE l.kind = "call" /\ served' = Append(served, l.con)
  <2>1. /\ l.con \in Command /\ l.con <= issued
        /\ \A j \in 1..Len(served) : served[j] <= l.con
    BY <1>1, <1>3, <1>6, LineFacts DEF Ordered, CommandsUnderway
  <2>2. \A i \in 1..Len(down') : down'[i].kind = "call" => l.con <= down'[i].con
    BY <1>2, <1>3, <1>6 DEF Sorted
  <2>3. /\ Len(served) \in Nat /\ Len(served') = Len(served) + 1
        /\ \A j \in 1..Len(served) : served'[j] = served[j]
        /\ served'[Len(served) + 1] = l.con
    <3>1. served' = Append(served, l.con)
      BY <1>6
    <3> QED  BY <1>1, <2>1, <3>1, AppendProperties, LenProperties
  <2>4. \A i \in 1..Len(down') : down'[i].kind = "call" =>
            down'[i].con <= issued /\ \A j \in 1..Len(served') : served'[j] <= down'[i].con
    <3>1. ASSUME NEW i \in 1..Len(down'), down'[i].kind = "call", NEW j \in 1..Len(served')
          PROVE  served'[j] <= down'[i].con
      <4>1. j \in 1..Len(served) \/ j = Len(served) + 1
        BY <2>3
      <4> QED  BY <1>4, <2>2, <2>3, <3>1, <4>1
    <3> QED  BY <1>4, <3>1
  <2>5. \A j \in 1..Len(served') : served'[j] <= issued
    BY <2>1, <2>3 DEF Ordered, CommandsUnderway
  <2>6. ASSUME NEW i \in 1..Len(served'), NEW j \in 1..Len(served'), i < j
        PROVE  served'[i] <= served'[j]
    <3>1. i \in 1..Len(served) /\ served'[i] = served[i]
      BY <2>3, <2>6
    <3>2. CASE j = Len(served) + 1
      BY <2>1, <2>3, <3>1, <3>2
    <3>3. CASE j # Len(served) + 1
      <4>1. j \in 1..Len(served) /\ served'[j] = served[j]
        BY <2>3, <3>3
      <4>2. served[i] <= served[j]
        BY <2>6, <3>1, <4>1 DEF Ordered, CommandsUnderway
      <4> QED  BY <3>1, <4>1, <4>2
    <3> QED  BY <3>2, <3>3
  <2> QED  BY <1>2, <2>4, <2>5, <2>6 DEF CommandsUnderway
<1> QED  BY <1>5, <1>6

\* TAS reads a line: an echo is later than it has counted to, a command no
\* earlier than those served.
LEMMA ReceiveKeeps ==
    ASSUME TypeOK, Ordered, Receive
    PROVE  Ordered'
<1> DEFINE l == Head(down)
<1>1. /\ down \in Seq(Line) /\ down # << >> /\ up \in Seq(Line) /\ l \in Line
      /\ link \in {"open", "broken"} /\ tas_download_count \in 0..MaxHello /\ Reads
  BY Behind DEF Receive, Reads, TypeOK
<1>2. /\ down' = Tail(down) /\ UNCHANGED <<link, leftover, torn, socket_arr, issued>>
      /\ up' = up \/ (l.kind = "userId" /\ up' = Append(up, l))
      /\ UNCHANGED served \/ (l.kind = "call" /\ served' = Append(served, l.con))
  <2>1. down' = Tail(down) /\ UNCHANGED <<link, leftover, torn, socket_arr, issued>>
    BY DEF Receive, thymeVars
  <2>2. up' = up \/ (l.kind = "userId" /\ up' = Append(up, l))
    BY DEF Receive
  <2>3. UNCHANGED served \/ (l.kind = "call" /\ served' = Append(served, l.con))
    BY DEF Receive, SendToServer
  <2> QED  BY <2>1, <2>2, <2>3
<1>3. (Increasing(up) => Increasing(up')) /\ \A k \in 1..MaxHello : Holds(up', k) <=> Holds(up, k)
  <2>1. CASE l.kind = "userId" /\ up' = Append(up, l)
    <3>1. \A k \in 1..MaxHello : l # Hello(k)
      BY <2>1, MadeLines
    <3> QED  BY <1>1, <2>1, <3>1, Appended
  <2> QED  BY <1>2, <2>1
<1>4. CommandsUnderway'
  BY <1>1, <1>2, CommandTaken
<1>5. CASE l.kind = "hello"
  <2>1. PICK k \in 1..MaxHello :
            l = Hello(k) /\ tas_download_count + 1 <= k /\ (~torn => k = tas_download_count + 1)
    BY <1>1, <1>5, NextEcho DEF Ordered
  <2>2. /\ tas_download_count' = tas_download_count + 1
        /\ tas_state' = IF tas_download_count + 1 >= 3 THEN "upload" ELSE tas_state
    BY <1>5 DEF Receive
  <2>3. HellosInOrder' /\ Unbroken' /\ Routes' /\ Fresh'
    BY <1>1, <1>2, <1>3, <2>1, <2>2, HellosTaken
  <2>4. Idle' /\ Uploading'
    BY <1>1, <1>2, <2>2 DEF Ordered, Idle, Uploading
  <2> QED  BY <1>4, <2>3, <2>4 DEF Ordered
<1>6. CASE l.kind # "hello"
  <2>1. tas_download_count' = tas_download_count /\ tas_state' = tas_state
    BY <1>6 DEF Receive
  <2>2. HellosInOrder' /\ Unbroken' /\ Routes' /\ Fresh'
    BY <1>1, <1>2, <1>3, <1>6, <2>1, HellosTaken
  <2>3. Idle' /\ Uploading'
    BY <1>1, <1>2, <2>1 DEF Ordered, Idle, Uploading
  <2> QED  BY <1>4, <2>2, <2>3 DEF Ordered
<1> QED  BY <1>5, <1>6

\* A line is lost with its mark: a lost echo is remembered.
LEMMA RestKeeps ==
    ASSUME TypeOK, Ordered, ReceiveRest
    PROVE  Ordered'
<1>1. /\ down # << >> /\ down' = Tail(down) /\ link \in {"open", "broken"}
      /\ torn' = (torn \/ Head(down).kind = "hello")
      /\ UNCHANGED <<tas_state, tas_download_count, link, up, leftover, socket_arr, served, issued>>
  BY DEF ReceiveRest, Reads, tasVars, thymeVars, serviceVars
<1>2. HellosInOrder' /\ Unbroken' /\ Routes' /\ Fresh'
  BY <1>1, HellosTaken, 0 \in Nat
<1>3. CommandsUnderway'
  BY <1>1, CommandTaken
<1>4. Idle' /\ Uploading'
  BY <1>1 DEF Ordered, Idle, Uploading
<1> QED  BY <1>2, <1>3, <1>4 DEF Ordered

\* Lines to Thyme that are no hellos come and go.
LEMMA UpKeeps ==
    ASSUME Ordered, Increasing(up) => Increasing(up'),
           link' \in {"open", "broken"}, \A k \in 1..MaxHello : Holds(up', k) <=> Holds(up, k),
           \A n \in Download : socket_arr'[n] # socket_arr[n] => socket_arr'[n] = "current",
           UNCHANGED <<tas_state, tas_download_count, link, down, leftover, torn, served, issued>>
    PROVE  Ordered'
<1>1. \A k \in 1..MaxHello : (Underway(k)' <=> Underway(k)) /\ (Past(k)' <=> Past(k))
  BY DEF Underway, Past, Holds
<1>2. HellosInOrder' /\ Unbroken'
  BY <1>1 DEF Ordered, HellosInOrder, Unbroken, Increasing, Holds
<1>3. Routes' /\ Fresh'
  <2>1. \A k \in 1..MaxHello : Greeted(k) \in Download
    BY DEF Greeted, Downloads, Download, MaxHello
  <2> QED  BY <1>1, <2>1 DEF Ordered, Routes, Fresh
<1>4. Idle' /\ Uploading' /\ CommandsUnderway'
  BY DEF Ordered, Idle, Uploading, CommandsUnderway, Sorted
<1> QED  BY <1>2, <1>3, <1>4 DEF Ordered

\* Thyme ends: the echoes under way are still in order.
LEMMA RestartKeeps ==
    ASSUME Ordered, Restart
    PROVE  Ordered'
<1>1. /\ up' = << >> /\ leftover' = << >> /\ link' # "open"
      /\ link' = IF link = "open" THEN "broken" ELSE link
      /\ UNCHANGED <<tas_state, tas_download_count, down, torn, served, issued>>
  BY DEF Restart, tasVars, serviceVars
<1>2. \A k \in 1..MaxHello : ~Holds(up', k) /\ (Holds(down', k) <=> Holds(down, k))
  BY <1>1, NoneHeld
<1>3. HellosInOrder'
  <2>1. Increasing(down') /\ Increasing(up')
    BY <1>1, NoneHeld DEF Ordered, HellosInOrder
  <2>2. \A k \in 1..MaxHello : Holds(down, k) => tas_download_count < k
    BY DEF Ordered, HellosInOrder, Underway
  <2> QED  BY <1>1, <1>2, <2>1, <2>2 DEF HellosInOrder, Underway
<1>4. Unbroken'
  <2>1. ASSUME ~torn, NEW k \in 1..MaxHello, Holds(down, k),
               NEW m \in 1..MaxHello, tas_download_count < m, m < k
        PROVE  Holds(down, m)
    <3>1. Underway(m)
      BY <2>1 DEF Ordered, Unbroken, Underway
    <3>2. ~Holds(up, m)
      BY <2>1 DEF Ordered, HellosInOrder
    <3> QED  BY <3>1, <3>2 DEF Underway
  <2> QED  BY <1>1, <1>2, <2>1 DEF Unbroken, Underway
<1>5. Routes' /\ Fresh' /\ Idle' /\ Uploading'
  BY <1>1 DEF Ordered, Routes, Fresh, Idle, Uploading
<1>6. CommandsUnderway'
  BY <1>1 DEF Ordered, CommandsUnderway, Sorted
<1> QED  BY <1>3, <1>4, <1>5, <1>6 DEF Ordered

\* The hellos and the routes do not care for other lines to TAS.
LEMMA OthersWritten ==
    ASSUME Ordered, Increasing(down'), \A k \in 1..MaxHello : Holds(down', k) <=> Holds(down, k), link = "open",
           UNCHANGED <<tas_state, tas_download_count, link, up, leftover, torn, socket_arr>>
    PROVE  HellosInOrder' /\ Unbroken' /\ Routes' /\ Fresh' /\ Idle' /\ Uploading'
<1>1. \A k \in 1..MaxHello : (Underway(k)' <=> Underway(k)) /\ (Holds(up', k) <=> Holds(up, k))
  BY DEF Underway, Holds
<1>2. \A k \in 1..MaxHello : Past(k)' <=> Past(k)
  BY <1>1 DEF Past
<1>3. HellosInOrder' /\ Unbroken'
  BY <1>1 DEF Ordered, HellosInOrder, Unbroken
<1> QED  BY <1>2, <1>3 DEF Ordered, Routes, Fresh, Idle, Uploading

\* Copies of a line at the end of those to TAS: no hello, or the latest command.
LEMMA WrittenKeeps ==
    ASSUME TypeOK, Ordered, NEW l \in Line, l.kind # "hello", link = "open",
           NEW n \in Nat, down' = Extended(down, l, n),
           l.kind = "call" => l.con = issued + 1 /\ issued' = issued + 1,
           issued' \in {issued, issued + 1},
           UNCHANGED <<tas_state, tas_download_count, link, up, leftover, torn, socket_arr, served>>
    PROVE  Ordered'
<1>1. down \in Seq(Line) /\ issued \in Nat /\ served \in Seq(Command)
  BY TasAssumption DEF TypeOK
<1>2. \A i \in 1..Len(down) : down[i].kind = "call" => down[i].con \in Nat /\ down[i].con <= issued
  <2>1. ASSUME NEW i \in 1..Len(down), down[i].kind = "call" PROVE down[i].con \in Nat
    <3>1. down[i] \in Line
      BY <1>1, ElementOfSeq
    <3> QED  BY <2>1, <3>1, LineFacts DEF Command
  <2> QED  BY <2>1 DEF Ordered, CommandsUnderway
<1>3. \A j \in 1..Len(served) : served[j] \in Nat /\ served[j] <= issued
  <2>1. \A j \in 1..Len(served) : served[j] \in Command
    BY <1>1, ElementOfSeq
  <2> QED  BY <2>1 DEF Ordered, CommandsUnderway, Command
<1>4. l.kind = "call" => \A i \in 1..Len(down) : down[i].kind = "call" => down[i].con <= l.con
  BY <1>1, <1>2
<1>5. /\ Len(down) \in Nat /\ Len(down') = Len(down) + n
      /\ \A i \in 1..Len(down) : down'[i] = down[i]
      /\ \A i \in 1..Len(down') : i > Len(down) => down'[i] = l
      /\ \A k \in 1..MaxHello : Holds(down', k) <=> Holds(down, k)
      /\ Increasing(down) => Increasing(down')
      /\ Sorted(down) => Sorted(down')
  <2>1. /\ Len(down) \in Nat /\ Len(Extended(down, l, n)) = Len(down) + n
        /\ \A i \in 1..Len(down) : Extended(down, l, n)[i] = down[i]
        /\ \A i \in 1..(Len(down) + n) : i > Len(down) => Extended(down, l, n)[i] = l
    BY <1>1, Copied, LenProperties
  <2>2. /\ \A k \in 1..MaxHello : Holds(Extended(down, l, n), k) <=> Holds(down, k)
        /\ Increasing(down) => Increasing(Extended(down, l, n))
    BY <1>1, Copied
  <2>3. Sorted(down) => Sorted(Extended(down, l, n))
    BY <1>1, <1>4, Copied
  <2> QED  BY <1>1, <2>1, <2>2, <2>3
<1>6. HellosInOrder' /\ Unbroken' /\ Routes' /\ Fresh' /\ Idle' /\ Uploading'
  BY <1>5, OthersWritten DEF Ordered, HellosInOrder
<1>7. CommandsUnderway'
  <2>1. ASSUME NEW i \in 1..Len(down'), down'[i].kind = "call"
        PROVE  down'[i].con <= issued' /\ \A j \in 1..Len(served) : served[j] <= down'[i].con
    <3>1. CASE i <= Len(down)
      <4>1. i \in 1..Len(down) /\ down'[i] = down[i]
        BY <1>5, <3>1
      <4> QED  BY <1>1, <1>2, <2>1, <4>1 DEF Ordered, CommandsUnderway
    <3>2. CASE ~(i <= Len(down))
      <4>1. down'[i] = l
        BY <1>5, <3>2
      <4> QED  BY <1>1, <1>3, <2>1, <4>1
    <3> QED  BY <3>1, <3>2
  <2>2. \A j \in 1..Len(served) : served[j] <= issued'
    BY <1>1, <1>3
  <2> QED  BY <1>5, <2>1, <2>2 DEF Ordered, CommandsUnderway
<1> QED  BY <1>6, <1>7 DEF Ordered

\* An echo follows the hello, and the route is there before it.
LEMMA EchoKeeps ==
    ASSUME TypeOK, Ordered, TasHandlerHello
    PROVE  Ordered'
<1> DEFINE l == Head(up)
<1>1. /\ link = "open" /\ leftover = << >> /\ up # << >> /\ l.kind = "hello"
      /\ up' = Tail(up) /\ down' = Append(down, l) /\ RouteTo(<<l>>, "current")
      /\ up \in Seq(Line) /\ down \in Seq(Line) /\ socket_arr \in [Download -> Socket]
      /\ UNCHANGED <<tas_state, tas_download_count, link, leftover, torn, served, issued>>
  BY DEF TasHandlerHello, TypeOK, tasVars, serviceVars
<1>2. PICK e \in 1..MaxHello : l = Hello(e)
  BY <1>1, Behind, LineFacts
<1>3. l \in Line
  BY <1>1, Behind
<1>4. \A k \in 1..MaxHello : l = Hello(k) <=> k = e
  BY <1>2 DEF Hello
<1>5. \A k \in 1..MaxHello : Holds(down', k) <=> Holds(down, k) \/ k = e
  BY <1>1, <1>3, <1>4, Appended
<1>6. \A k \in 1..MaxHello : Holds(up, k) <=> k = e \/ Holds(up', k)
  BY <1>1, <1>4, Behind
<1>7. \A k \in 1..MaxHello : Underway(k)' <=> Underway(k)
  BY <1>5, <1>6 DEF Underway
<1>8. HellosInOrder' /\ Unbroken'
  <2>1. Increasing(up) /\ Increasing(down)
    BY DEF Ordered, HellosInOrder
  <2>2. \A k \in 1..MaxHello : Holds(up', k) => e < k
    BY <1>1, <1>2, <2>1, Behind
  <2>3. \A k \in 1..MaxHello : Holds(down, k) => k < e
    BY <1>6 DEF Ordered, HellosInOrder
  <2>4. Increasing(up')
    BY <1>1, <2>1, Behind
  <2>5. Increasing(down')
    <3>1. \A i \in 1..Len(down) : down[i].kind = "hello" => down[i].con < l.con
      <4>1. ASSUME NEW i \in 1..Len(down), down[i].kind = "hello" PROVE down[i].con < l.con
        <5>1. down[i] \in Line
          BY <1>1, ElementOfSeq
        <5>2. down[i].con \in 1..MaxHello /\ Holds(down, down[i].con)
          BY <4>1, <5>1, LineFacts DEF Holds
        <5>3. l.con = e
          BY <1>2, MadeLines
        <5> QED  BY <2>3, <5>2, <5>3
      <4> QED  BY <4>1
    <3> QED  BY <1>1, <1>3, <2>1, <3>1, Appended
  <2>6. \A k, m \in 1..MaxHello : Holds(down', k) /\ Holds(up', m) => k < m
    BY <1>5, <1>6, <2>2 DEF Ordered, HellosInOrder
  <2> QED  BY <1>1, <1>7, <2>4, <2>5, <2>6 DEF Ordered, HellosInOrder, Unbroken
<1>9. Routes'
  <2>1. socket_arr'[Greeted(e)] = "current"
    <3>1. About(l, Greeted(e))
      BY <1>1, <1>2, MadeLines DEF About
    <3>2. Greeted(e) \in Download
      BY DEF Greeted, Downloads, Download, MaxHello
    <3> QED  BY <1>1, <3>1, <3>2 DEF RouteTo
  <2>2. \A k \in 1..MaxHello : socket_arr[Greeted(k)] = "current" => socket_arr'[Greeted(k)] = "current"
    <3>1. \A k \in 1..MaxHello : Greeted(k) \in Download
      BY DEF Greeted, Downloads, Download, MaxHello
    <3>2. \A n \in Download : socket_arr[n] = "current" => socket_arr'[n] = "current"
      BY <1>1 DEF RouteTo
    <3> QED  BY <3>1, <3>2
  <2>3. ASSUME NEW m \in 1..MaxHello, Past(m)', m # e PROVE Past(m)
    BY <1>1, <1>6, <1>7, <2>3 DEF Past
  <2> QED  BY <1>1, <2>1, <2>2, <2>3 DEF Ordered, Routes
<1>10. Fresh' /\ Idle' /\ Uploading'
  BY <1>1 DEF Ordered, Fresh, Idle, Uploading
<1>11. CommandsUnderway'
  <2>1. /\ Len(down) \in Nat /\ Len(down') = Len(down) + 1 /\ down'[Len(down) + 1] = l
        /\ \A i \in 1..Len(down) : down'[i] = down[i]
    BY <1>1, <1>3, AppendProperties, LenProperties
  <2>2. Sorted(down')
    BY <1>1, <1>3, Appended DEF Ordered, CommandsUnderway
  <2> QED  BY <1>1, <2>1, <2>2 DEF Ordered, CommandsUnderway
<1> QED  BY <1>8, <1>9, <1>10, <1>11 DEF Ordered

-----------------------------------------------------------------------------
(* Every step.                                                             *)

\* What Thyme writes, if the socket is open, is at the end of the lines to TAS.
LEMMA WriteKeeps ==
    ASSUME TypeOK, Ordered, NEW socket, NEW l \in Line, NEW n \in Nat, Write(socket, l, n), l.kind # "hello",
           l.kind = "call" => l.con = issued + 1 /\ issued' = issued + 1,
           issued' \in {issued, issued + 1},
           UNCHANGED <<tas_state, tas_download_count, link, up, leftover, torn, socket_arr, served>>
    PROVE  Ordered'
<1>1. CASE down' = Extended(down, l, n) /\ link = "open"
  BY <1>1, WrittenKeeps
<1>2. CASE UNCHANGED down
  <2>1. issued \in Nat
    BY TasAssumption DEF TypeOK
  <2>2. HellosInOrder' /\ Unbroken' /\ Routes' /\ Fresh' /\ Idle' /\ Uploading'
    BY <1>2 DEF Ordered, HellosInOrder, Unbroken, Underway, Past, Routes, Fresh, Idle, Uploading, Increasing, Holds
  <2>3. \A i \in 1..Len(down) : down[i].kind = "call" => down[i].con \in Nat
    BY LineFacts, ElementOfSeq DEF TypeOK, Command
  <2>4. \A i \in 1..Len(served) : served[i] \in Nat
    <3>1. served \in Seq(Command) /\ Command \subseteq Nat
      BY DEF TypeOK, Command
    <3> QED  BY <3>1, ElementOfSeq
  <2>5. CommandsUnderway'
    BY <1>2, <2>1, <2>3, <2>4 DEF Ordered, CommandsUnderway, Sorted
  <2> QED  BY <2>2, <2>5 DEF Ordered
<1> QED  BY <1>1, <1>2 DEF Write

\* No step of TAS and its sockets breaks the order, ...
LEMMA TasKeeps ==
    ASSUME TypeOK, Ordered, TasStep
    PROVE  Ordered'
<1> USE DEF tasVars, serviceVars, streams, thymeVars
<1>1. CASE TickInit
  BY <1>1 DEF TickInit, Ordered, HellosInOrder, Unbroken, Underway, Past, Routes, Fresh, Idle, Uploading,
              CommandsUnderway, Increasing, Sorted, Holds
<1>2. CASE TickUnix
  BY <1>2 DEF TickUnix, Ordered, HellosInOrder, Unbroken, Underway, Past, Routes, Fresh, Idle, Uploading,
              CommandsUnderway, Increasing, Sorted, Holds
<1>3. CASE TickConnect
  BY <1>3, EndKeeps DEF TickConnect, Ordered, Idle
<1>4. CASE TickLate \/ TickMissing
  BY <1>4, EndKeeps DEF TickLate, TickMissing, ConnectsAgain, Closed
<1>5. CASE Refused
  BY <1>5, EndKeeps DEF Refused, Ordered, Idle
<1>6. CASE Connected
  BY <1>6, BeginKeeps
<1>7. CASE ClosedByThyme
  BY <1>7, EndKeeps DEF ClosedByThyme, Closed
<1>8. CASE Receive
  BY <1>8, ReceiveKeeps
<1>9. CASE ReceiveCut
  BY <1>9, Kept DEF ReceiveCut
<1>10. CASE ReceiveMark
  BY <1>10, EndKeeps DEF ReceiveMark, Closed
<1>13. CASE ReceiveRest
  BY <1>13, RestKeeps
<1>11. CASE Upload
  <2>1. up \in Seq(Line) /\ up' = Append(up, Gps) /\ link = "open"
    BY <1>11 DEF Upload, TypeOK
  <2>2. \A k \in 1..MaxHello : Holds(up', k) <=> Holds(up, k)
    BY <2>1, Appended, MadeLines
  <2>3. Increasing(up) => Increasing(up')
    BY <2>1, Appended, MadeLines
  <2> QED  BY <1>11, <2>1, <2>2, <2>3, UpKeeps DEF Upload
<1>12. CASE ServiceGone
  BY <1>12, Kept DEF ServiceGone
<1> QED
  BY <1>1, <1>2, <1>3, <1>4, <1>5, <1>6, <1>7, <1>8, <1>9, <1>10, <1>11, <1>12, <1>13 DEF TasStep, TasTick, OnReceive

\* ... and none of Thyme.
LEMMA ThymeKeeps ==
    ASSUME TypeOK, Ordered, ThymeStep
    PROVE  Ordered'
<1> USE DEF tasVars, serviceVars, streams, thymeVars, feedVars
<1>1. CASE Ready
  BY <1>1, Kept DEF Ready
<1>2. CASE Unregister
  BY <1>2, Kept DEF Unregister
<1>3. CASE Register \/ RegisterAgain
  BY <1>3, Kept DEF Register, RegisterAgain
<1>4. CASE Restart
  BY <1>4, RestartKeeps
<1>5. CASE TasHandlerBuffers
  BY <1>5, Kept DEF TasHandlerBuffers
<1>6. CASE TasHandlerHello
  BY <1>6, EchoKeeps
<1>7. CASE TasHandler
  <2>1. PICK n \in 1..Len(up) :
            /\ link = "open" /\ \A i \in 1..n : up[i].kind # "hello"
            /\ up' = After(up, n) /\ RouteTo(SubSeq(up, 1, n), "current")
            /\ UNCHANGED <<tas_state, tas_download_count, link, down, leftover, torn, served, issued>>
    BY <1>7 DEF TasHandler
  <2>2. up \in Seq(Line)
    BY DEF TypeOK
  <2>3. \A k \in 1..MaxHello : Holds(up', k) <=> Holds(up, k)
    BY <2>1, <2>2, BehindMany
  <2>4. Increasing(up) => Increasing(up')
    BY <2>1, <2>2, BehindMany
  <2>5. \A m \in Download : socket_arr'[m] # socket_arr[m] => socket_arr'[m] = "current"
    BY <2>1 DEF RouteTo
  <2> QED  BY <2>1, <2>3, <2>4, <2>5, UpKeeps
<1>8. CASE TasHandlerOld
  <2>1. PICK n \in 1..Len(leftover) :
            /\ leftover' = After(leftover, n)
            /\ UNCHANGED <<tas_state, tas_download_count, link, up, down, torn, served, issued>>
    BY <1>8 DEF TasHandlerOld
  <2>2. leftover # << >>
    BY <2>1
  <2>3. \A k \in 1..MaxHello : (Underway(k)' <=> Underway(k)) /\ (Past(k)' <=> Past(k))
    BY <2>1 DEF Underway, Past, Holds
  <2>4. HellosInOrder' /\ Unbroken'
    BY <2>1, <2>3 DEF Ordered, HellosInOrder, Unbroken, Increasing, Holds
  <2>5. Routes' /\ Fresh'
    BY <2>1, <2>2, <2>3 DEF Ordered, Routes, Fresh
  <2>6. Idle' /\ Uploading' /\ CommandsUnderway'
    BY <2>1 DEF Ordered, Idle, Uploading, CommandsUnderway, Sorted
  <2> QED  BY <2>4, <2>5, <2>6 DEF Ordered
<1>9. CASE ClientConnects
  BY <1>9, Kept DEF ClientConnects
<1>10. CASE NotifyCommand
  <2>1. issued + 1 \in Command
    BY <1>10, TasAssumption DEF NotifyCommand, Command, TypeOK
  <2>2. Call(issued + 1) \in Line /\ Call(issued + 1).kind = "call" /\ Call(issued + 1).con = issued + 1
    BY <2>1, MadeLines
  <2>3. handlers \in Nat
    BY DEF TypeOK
  <2> QED  BY <1>10, <2>2, <2>3, WriteKeeps DEF NotifyCommand
<1>11. CASE NotifyTarget
  <2>1. TargetGps(LonLat) \in Line /\ TargetGps(LonLat).kind = "target_gps" /\ handlers \in Nat
    BY MadeLines DEF TypeOK
  <2> QED  BY <1>11, <2>1, WriteKeeps DEF NotifyTarget
<1>12. CASE PositionPosted
  <2>1. TargetGps(LatLon) \in Line /\ TargetGps(LatLon).kind = "target_gps"
    BY MadeLines
  <2> QED  BY <1>12, <2>1, WriteKeeps DEF PositionPosted
<1>13. ASSUME NEW u \in User, NotifyCaller(u) PROVE Ordered'
  <2>1. UserId(u) \in Line /\ UserId(u).kind = "userId"
    BY MadeLines
  <2> QED  BY <1>13, <2>1, WriteKeeps DEF NotifyCaller
<1>14. ASSUME NEW c \in clients, Position(c) PROVE Ordered'
  BY <1>14, Kept DEF Position
<1> QED
  BY <1>1, <1>2, <1>3, <1>4, <1>5, <1>6, <1>7, <1>8, <1>9, <1>10, <1>11, <1>12, <1>13, <1>14 DEF ThymeStep, OnData

\* A listener comes with each registration and goes only with Thyme.
LEMMA HeardKept ==
    ASSUME TypeOK, Heard, [Next]_vars
    PROVE  Heard'
<1> USE DEF Heard, TypeOK, tasVars, serviceVars, streams, thymeVars, feedVars
<1>1. CASE TasStep
  BY <1>1 DEF TasStep, TasTick, TickInit, TickUnix, TickConnect, TickLate, TickMissing, ConnectsAgain, Refused,
              Connected, ClosedByThyme, OnReceive, Receive, ReceiveCut, ReceiveMark, ReceiveRest, Upload, ServiceGone
<1>2. CASE ThymeStep
  <2>1. CASE Ready \/ Restart
    BY <2>1 DEF Ready, Restart
  <2>4. CASE Register \/ RegisterAgain
    <3>1. handlers \in Nat /\ handlers' = handlers + 1
      BY <2>4 DEF Register, RegisterAgain
    <3> QED  BY <3>1
  <2>5. CASE Unregister \/ TasHandlerBuffers
    <3>1. UNCHANGED <<ready, handlers>>
      BY <2>5 DEF Unregister, TasHandlerBuffers
    <3> QED  BY <3>1
  <2>2. CASE OnData \/ TasHandlerOld \/ ClientConnects
    <3>1. UNCHANGED <<ready, handlers>>
      BY <2>2 DEF OnData, TasHandlerHello, TasHandler, TasHandlerOld, ClientConnects
    <3> QED  BY <3>1
  <2>3. CASE \/ NotifyCommand \/ NotifyTarget \/ PositionPosted
             \/ \E u \in User : NotifyCaller(u)
             \/ \E c \in clients : Position(c)
    <3>1. UNCHANGED <<ready, handlers>>
      BY <2>3 DEF NotifyCommand, NotifyTarget, PositionPosted, NotifyCaller, Position
    <3> QED  BY <3>1
  <2> QED  BY <1>2, <2>1, <2>2, <2>3, <2>4, <2>5 DEF ThymeStep
<1>3. CASE UNCHANGED vars
  BY <1>3 DEF vars
<1> QED  BY <1>1, <1>2, <1>3 DEF Next, TasStep, ThymeStep

\* LinkInv is inductive.
LEMMA LinkInductive == (Init => LinkInv) /\ (LinkInv /\ [Next]_vars => LinkInv')
<1>1. Init => LinkInv
  BY InitType, InitOrdered DEF LinkInv, Ordered, Heard, Init
<1>2. ASSUME LinkInv, Next PROVE LinkInv'
  <2>1. TypeOK /\ HellosInOrder /\ Unbroken /\ Ordered
    BY <1>2 DEF LinkInv, Ordered
  <2>2. TasStep \/ ThymeStep
    BY <1>2 DEF Next, TasStep, ThymeStep
  <2>3. TypeOK' /\ Ordered'
    BY <2>1, <2>2, TasType, ThymeType, TasKeeps, ThymeKeeps
  <2>4. Heard'
    BY <1>2, HeardKept DEF LinkInv
  <2> QED  BY <2>3, <2>4 DEF LinkInv, Ordered
<1>3. ASSUME LinkInv, UNCHANGED vars PROVE LinkInv'
  <2>1. TypeOK'
    BY <1>3 DEF LinkInv, TypeOK, vars, tasVars, serviceVars, streams, thymeVars, feedVars, bounds
  <2>2. Ordered'
    BY <1>3, Kept DEF LinkInv, Ordered, vars, tasVars, serviceVars, streams, thymeVars
  <2>3. Heard'
    BY <1>3, HeardKept DEF LinkInv
  <2> QED  BY <2>1, <2>2, <2>3 DEF LinkInv, Ordered
<1> QED  BY <1>1, <1>2, <1>3

LEMMA LinkAlways == Spec => []LinkInv
BY LinkInductive, PTL DEF Spec

-----------------------------------------------------------------------------
(* Nothing asked is lost, and nobody waits for nothing.                    *)

\* TAS has a connection only after it has looked for the flight service, takes it
\* along when it ends, and says hello whenever a connect() succeeds.  Of a Thyme
\* that ended nothing was asked.
Attached ==
    /\ tas_state \in {"init", "init_udsock"} => link = "none" /\ unix = "none"
    /\ tas_state \notin {"init", "init_udsock"} => unix # "none"
    /\ tas_state = "dead" => link = "none"
    /\ link = "connecting" => callbacks >= 1 /\ tas_state \in {"connect", "reconnect"}
    /\ link = "broken" => asked = {}

\* While no echo has been lost the third hello, whose echo ends the wait, is
\* under way.
Expecting ==
    tas_state \in {"connect", "reconnect"} /\ link = "open" /\ ~torn =>
        tas_download_count < 3 /\ Underway(3)

SessionInv == Attached /\ Expecting /\ AskedIsUnderway

\* What is asked stays so, or it is gone from the list, or it has gone on.
LEMMA AskedStep ==
    ASSUME AskedIsUnderway, tas_state = "dead" => tas_state' = "dead",
           \A l \in asked' : l.kind \in {"call", "userId"} =>
               \/ (Done(l) \/ OnItsWay(l))'
               \/ l \in asked /\ (Done(l) \/ OnItsWay(l) => (Done(l) \/ OnItsWay(l))')
    PROVE  AskedIsUnderway'
BY DEF AskedIsUnderway

\* Steps that touch neither the lines nor what is done with them.
LEMMA AskedAside ==
    ASSUME AskedIsUnderway, tas_state = "dead" => tas_state' = "dead", asked' \subseteq asked,
           UNCHANGED <<down, up, opening, clients, served>>, unix = "dead" => unix' = "dead"
    PROVE  AskedIsUnderway'
<1>1. \A l : Done(l) => Done(l)'
  BY DEF Done
<1>2. \A l : OnItsWay(l) => OnItsWay(l)'
  BY DEF OnItsWay
<1> QED  BY <1>1, <1>2, AskedStep

\* The members of a sequence that a line is appended to, that loses its head, ...
LEMMA ItemsAppend ==
    ASSUME NEW S, NEW s \in Seq(S), NEW x \in S
    PROVE  Items(Append(s, x)) = Items(s) \cup {x}
<1>1. /\ Append(s, x) \in Seq(S) /\ Len(s) \in Nat /\ Len(Append(s, x)) = Len(s) + 1
      /\ \A i \in 1..Len(s) : Append(s, x)[i] = s[i]
      /\ Append(s, x)[Len(s) + 1] = x
  BY AppendProperties, LenProperties
<1>2. DOMAIN Append(s, x) = 1..(Len(s) + 1) /\ DOMAIN s = 1..Len(s)
  BY <1>1, LenProperties
<1> QED  BY <1>1, <1>2 DEF Items

LEMMA ItemsTail ==
    ASSUME NEW S, NEW s \in Seq(S), s # << >>
    PROVE  Items(s) = {Head(s)} \cup Items(Tail(s))
<1>1. /\ Tail(s) \in Seq(S) /\ Head(s) = s[1]
      /\ Len(s) \in Nat \ {0} /\ Len(Tail(s)) = Len(s) - 1
      /\ \A i \in 1..(Len(s) - 1) : Tail(s)[i] = s[i + 1]
  BY HeadTailProperties, EmptySeq, LenProperties
<1>2. DOMAIN Tail(s) = 1..(Len(s) - 1) /\ DOMAIN s = 1..Len(s)
  BY <1>1, LenProperties
<1>3. ASSUME NEW x \in Items(s) PROVE x = Head(s) \/ x \in Items(Tail(s))
  <2>1. PICK i \in 1..Len(s) : s[i] = x
    BY <1>2 DEF Items
  <2>2. i # 1 => i - 1 \in 1..(Len(s) - 1) /\ Tail(s)[i - 1] = x
    BY <1>1, <2>1
  <2> QED  BY <1>1, <1>2, <2>1, <2>2 DEF Items
<1>4. ASSUME NEW x \in {Head(s)} \cup Items(Tail(s)) PROVE x \in Items(s)
  BY <1>1, <1>2 DEF Items
<1> QED  BY <1>3, <1>4

\* ... or its first n.
LEMMA ItemsAfter ==
    ASSUME NEW s \in Seq(Line), NEW n \in 1..Len(s)
    PROVE  /\ SubSeq(s, 1, n) \in Seq(Line) /\ Len(SubSeq(s, 1, n)) = n
           /\ Items(s) = Items(SubSeq(s, 1, n)) \cup Items(After(s, n))
<1>1. Len(s) \in Nat /\ n \in Nat /\ DOMAIN s = 1..Len(s) /\ \A i \in 1..Len(s) : s[i] \in Line
  BY LenProperties, ElementOfSeq
<1>2. /\ SubSeq(s, 1, n) \in Seq(Line) /\ Len(SubSeq(s, 1, n)) = n
      /\ \A i \in 1..n : SubSeq(s, 1, n)[i] = s[i]
  <2>1. 1 \in Int /\ n \in Int /\ \A i \in 1..n : s[i] \in Line
    BY <1>1
  <2>2. /\ SubSeq(s, 1, n) \in Seq(Line)
        /\ Len(SubSeq(s, 1, n)) = IF 1 <= n THEN n - 1 + 1 ELSE 0
        /\ \A i \in 1..(n - 1 + 1) : SubSeq(s, 1, n)[i] = s[1 + i - 1]
    BY <2>1, SubSeqProperties
  <2> QED  BY <1>1, <2>2
<1>3. /\ After(s, n) \in Seq(Line) /\ Len(After(s, n)) = Len(s) - n
      /\ \A i \in 1..(Len(s) - n) : After(s, n)[i] = s[i + n]
  <2>1. n + 1 \in Int /\ Len(s) \in Int /\ \A i \in (n + 1)..Len(s) : s[i] \in Line
    BY <1>1
  <2>2. /\ SubSeq(s, n + 1, Len(s)) \in Seq(Line)
        /\ Len(SubSeq(s, n + 1, Len(s))) = IF n + 1 <= Len(s) THEN Len(s) - (n + 1) + 1 ELSE 0
        /\ \A i \in 1..(Len(s) - (n + 1) + 1) : SubSeq(s, n + 1, Len(s))[i] = s[(n + 1) + i - 1]
    BY <2>1, SubSeqProperties
  <2>3. Len(s) \in Nat /\ n \in 1..Len(s)
    BY <1>1
  <2> QED  BY <2>2, <2>3 DEF After
<1>4. DOMAIN SubSeq(s, 1, n) = 1..n /\ DOMAIN After(s, n) = 1..(Len(s) - n)
  BY <1>2, <1>3, LenProperties
<1>5. ASSUME NEW l \in Items(s) PROVE l \in Items(SubSeq(s, 1, n)) \cup Items(After(s, n))
  <2>1. PICK i \in 1..Len(s) : s[i] = l
    BY <1>1 DEF Items
  <2>2. CASE i <= n
    <3>1. i \in 1..n /\ SubSeq(s, 1, n)[i] = l
      BY <1>1, <1>2, <2>1, <2>2
    <3> QED  BY <1>4, <3>1 DEF Items
  <2>3. CASE ~(i <= n)
    <3>1. i - n \in 1..(Len(s) - n) /\ After(s, n)[i - n] = l
      BY <1>1, <1>3, <2>1, <2>3
    <3> QED  BY <1>4, <3>1 DEF Items
  <2> QED  BY <2>2, <2>3
<1>6. ASSUME NEW l \in Items(SubSeq(s, 1, n)) \cup Items(After(s, n)) PROVE l \in Items(s)
  <2>1. CASE l \in Items(SubSeq(s, 1, n))
    BY <1>1, <1>2, <1>4, <2>1 DEF Items
  <2>2. CASE l \in Items(After(s, n))
    <3>1. PICK i \in 1..(Len(s) - n) : After(s, n)[i] = l
      BY <1>4, <2>2 DEF Items
    <3>2. i + n \in 1..Len(s) /\ s[i + n] = l
      BY <1>1, <1>3, <3>1
    <3> QED  BY <1>1, <3>2 DEF Items
  <2> QED  BY <2>1, <2>2
<1> QED  BY <1>2, <1>5, <1>6

\* The session is attached in the beginning and nothing is asked.
LEMMA InitSession == Init => SessionInv
BY DEF Init, SessionInv, Attached, Expecting, AskedIsUnderway

\* The connection and what it rests on.
LEMMA AttachedKept ==
    ASSUME TypeOK, Attached, Uploading, Next
    PROVE  Attached'
<1> USE DEF TypeOK, Attached, tasVars, serviceVars, streams, thymeVars, feedVars
<1>1. CASE TasTick
  BY <1>1 DEF TasTick, TickInit, TickUnix, TickConnect, Listen
<1>2. CASE TickLate \/ TickMissing \/ ClosedByThyme
  BY <1>2 DEF TickLate, TickMissing, ConnectsAgain, Listen, ClosedByThyme, Closed
<1>3. CASE Refused \/ Connected
  BY <1>3 DEF Refused, Connected
<1>4. CASE OnReceive
  BY <1>4 DEF OnReceive, Receive, ReceiveCut, ReceiveMark, ReceiveRest, Reads, Closed
<1>5. CASE Upload \/ ServiceGone
  BY <1>5 DEF Upload, ServiceGone
<1>6. CASE Ready \/ Unregister \/ Register \/ RegisterAgain \/ TasHandlerBuffers
  BY <1>6 DEF Ready, Unregister, Register, RegisterAgain, TasHandlerBuffers
<1>7. CASE Restart
  BY <1>7 DEF Restart
<1>8. CASE TasHandlerHello
  BY <1>8 DEF TasHandlerHello
<1>9. CASE TasHandler
  BY <1>9 DEF TasHandler
<1>10. CASE TasHandlerOld
  BY <1>10 DEF TasHandlerOld, Follow
<1>11. CASE ClientConnects
  BY <1>11 DEF ClientConnects
<1>12. CASE NotifyCommand \/ NotifyTarget \/ PositionPosted \/ \E u \in User : NotifyCaller(u)
  BY <1>12 DEF NotifyCommand, NotifyTarget, PositionPosted, NotifyCaller, Write
<1>13. ASSUME NEW c \in clients, Position(c) PROVE Attached'
  BY <1>13 DEF Position
<1> QED
  BY <1>1, <1>2, <1>3, <1>4, <1>5, <1>6, <1>7, <1>8, <1>9, <1>10, <1>11, <1>12, <1>13 DEF Next, OnData

\* The third hello is neither lost nor counted before its echo is read.
LEMMA ExpectingKept ==
    ASSUME TypeOK, Ordered, Attached, Expecting, Next
    PROVE  Expecting'
<1> SUFFICES ASSUME tas_state' \in {"connect", "reconnect"}, link' = "open", ~torn'
             PROVE  tas_download_count' < 3 /\ Underway(3)'
  BY DEF Expecting
<1> USE DEF tasVars, serviceVars, streams, thymeVars, feedVars
<1>1. 3 \in 1..MaxHello /\ down \in Seq(Line) /\ up \in Seq(Line)
  BY DEF MaxHello, TypeOK
<1>2. CASE Connected
  <2>1. callbacks \in 1..2 /\ up' = Hellos(callbacks) /\ tas_download_count' = 0
    BY <1>2 DEF Connected, Attached, TypeOK
  <2>2. 3 \in 1..Len(up') /\ up'[3] = Hello(3)
    BY <2>1, HellosType
  <2> QED  BY <2>1, <2>2 DEF Underway, Holds
<1>3. ASSUME tas_state \in {"connect", "reconnect"}, link = "open", ~torn, tas_download_count' = tas_download_count,
             Holds(up, 3) => Underway(3)', Holds(down, 3) => Underway(3)'
      PROVE  tas_download_count' < 3 /\ Underway(3)'
  BY <1>3 DEF Expecting, Underway
<1>4. CASE UNCHANGED <<tas_state, tas_download_count, link, up, down, torn>>
  BY <1>3, <1>4 DEF Underway, Holds
<1>5. CASE TasTick
  BY <1>5 DEF TasTick, TickInit, TickUnix, TickConnect, Attached
<1>6. CASE TickLate \/ TickMissing \/ Refused \/ ClosedByThyme \/ Restart
  BY <1>6 DEF TickLate, TickMissing, ConnectsAgain, Refused, ClosedByThyme, Closed, Restart
<1>7. CASE Receive
  <2> DEFINE l == Head(down)
  <2>1. Reads /\ down # << >> /\ down' = Tail(down)
    BY <1>7 DEF Receive, Reads
  <2>2. Holds(down, 3) => l = Hello(3) \/ Holds(down', 3)
    BY <1>1, <2>1, Behind
  <2>3. Holds(up, 3) => Holds(up', 3)
    <3>1. l \in Line
      BY <1>1, <2>1, Behind
    <3> QED  BY <1>1, <1>7, <3>1, Appended DEF Receive
  <2>4. link = "open" /\ ~torn /\ UNCHANGED <<link, torn>>
    BY <1>7 DEF Receive
  <2>5. CASE l.kind = "hello"
    <3>1. l = Hello(tas_download_count + 1) /\ tas_download_count \in Nat
      BY <2>1, <2>4, <2>5, NextEcho DEF Ordered, TypeOK
    <3>2. tas_download_count' = tas_download_count + 1 /\ tas_download_count + 1 < 3 /\ tas_state' = tas_state
      BY <1>7, <2>5, <3>1 DEF Receive
    <3>3. l # Hello(3)
      BY <3>1, <3>2 DEF Hello
    <3> QED  BY <2>2, <2>3, <2>4, <3>2, <3>3 DEF Expecting, Underway
  <2>6. CASE l.kind # "hello"
    <3>1. UNCHANGED <<tas_state, tas_download_count>> /\ l # Hello(3)
      BY <1>7, <2>6 DEF Receive, Hello
    <3> QED  BY <1>3, <2>2, <2>3, <2>4, <3>1 DEF Underway
  <2> QED  BY <2>5, <2>6
<1>8. CASE ReceiveCut \/ ServiceGone
  BY <1>4, <1>8 DEF ReceiveCut, ServiceGone
<1>9. CASE ReceiveMark \/ Upload
  BY <1>9 DEF ReceiveMark, Closed, Upload
<1>18. CASE ReceiveRest
  <2>1. /\ Reads /\ down # << >> /\ down' = Tail(down) /\ torn' = (torn \/ Head(down).kind = "hello")
        /\ UNCHANGED <<tas_state, tas_download_count, link, up>>
    BY <1>18 DEF ReceiveRest, Reads
  <2>2. Head(down).kind # "hello"
    BY <2>1
  <2>3. Holds(down, 3) => Holds(down', 3)
    <3>1. Head(down) # Hello(3)
      BY <2>2 DEF Hello
    <3> QED  BY <1>1, <2>1, <3>1, Behind
  <2> QED  BY <1>3, <2>1, <2>3 DEF Underway, Holds
<1>10. CASE Ready \/ Unregister \/ Register \/ RegisterAgain \/ TasHandlerBuffers \/ ClientConnects
  BY <1>4, <1>10 DEF Ready, Unregister, Register, RegisterAgain, TasHandlerBuffers, ClientConnects
<1>11. CASE TasHandlerHello
  <2>1. /\ up # << >> /\ up' = Tail(up) /\ down' = Append(down, Head(up))
        /\ UNCHANGED <<tas_state, tas_download_count, link, torn>>
    BY <1>11 DEF TasHandlerHello
  <2>2. Holds(up, 3) => Head(up) = Hello(3) \/ Holds(up', 3)
    BY <1>1, <2>1, Behind
  <2>3. Holds(down', 3) <=> Holds(down, 3) \/ Head(up) = Hello(3)
    BY <1>1, <2>1, Behind, Appended
  <2> QED  BY <1>3, <2>1, <2>2, <2>3 DEF Underway
<1>12. CASE TasHandler
  <2>1. PICK n \in 1..Len(up) :
            /\ \A i \in 1..n : up[i].kind # "hello"
            /\ up' = After(up, n)
            /\ UNCHANGED <<tas_state, tas_download_count, link, down, torn>>
    BY <1>12 DEF TasHandler
  <2>2. Holds(up', 3) <=> Holds(up, 3)
    BY <1>1, <2>1, BehindMany
  <2> QED  BY <1>3, <2>1, <2>2 DEF Underway, Holds
<1>13. CASE TasHandlerOld
  BY <1>4, <1>13 DEF TasHandlerOld
<1>14. ASSUME NEW socket, NEW l \in Line, NEW n \in Nat, l.kind # "hello", Write(socket, l, n),
              UNCHANGED <<tas_state, tas_download_count, link, up, torn>>
       PROVE  tas_download_count' < 3 /\ Underway(3)'
  <2>1. Holds(down, 3) => Holds(down', 3)
    <3>1. CASE UNCHANGED down
      BY <3>1 DEF Holds
    <3>2. CASE down' = Extended(down, l, n)
      BY <1>1, <1>14, <3>2, Copied
    <3> QED  BY <1>14, <3>1, <3>2 DEF Write
  <2> QED  BY <1>3, <1>14, <2>1 DEF Underway, Holds
<1>15. CASE NotifyCommand
  <2>1. issued + 1 \in Command
    BY <1>15, TasAssumption DEF NotifyCommand, Command, TypeOK
  <2> QED  BY <1>14, <1>15, <2>1, MadeLines DEF NotifyCommand, TypeOK
<1>16. CASE NotifyTarget \/ PositionPosted \/ \E u \in User : NotifyCaller(u)
  <2>1. handlers \in Nat /\ 1 \in Nat
    BY DEF TypeOK
  <2> QED  BY <1>14, <1>16, <2>1, MadeLines DEF NotifyTarget, PositionPosted, NotifyCaller
<1>17. ASSUME NEW c \in clients, Position(c) PROVE tas_download_count' < 3 /\ Underway(3)'
  BY <1>4, <1>17 DEF Position
<1> QED
  BY <1>2, <1>5, <1>6, <1>7, <1>8, <1>9, <1>10, <1>11, <1>12, <1>13, <1>15, <1>16, <1>17, <1>18
  DEF Next, OnData, OnReceive

\* What Thyme writes is asked and on its way.
LEMMA AskedWritten ==
    ASSUME TypeOK, AskedIsUnderway, NEW socket, NEW l \in Line, NEW n \in Nat \ {0}, Write(socket, l, n),
           UNCHANGED <<tas_state, up, opening, clients, served, unix>>
    PROVE  AskedIsUnderway'
<1>1. \A k : Done(k) => Done(k)'
  BY DEF Done
<1>2. CASE UNCHANGED <<down, asked>>
  BY <1>2, AskedAside
<1>3. CASE down' = Extended(down, l, n) /\ asked' \in {asked, asked \cup {l}}
  <2>1. Items(down') = Items(down) \cup {l}
    <3>1. down \in Seq(Line) /\ n > 0
      BY DEF TypeOK
    <3>2. Items(Extended(down, l, n)) = Items(down) \cup {k \in {l} : n > 0}
      BY <3>1, Copied
    <3> QED  BY <1>3, <3>1, <3>2
  <2>2. \A k : OnItsWay(k) => OnItsWay(k)'
    BY <2>1 DEF OnItsWay
  <2>3. OnItsWay(l)'
    BY <2>1 DEF OnItsWay
  <2> QED  BY <1>1, <1>3, <2>2, <2>3, AskedStep
<1> QED  BY <1>2, <1>3 DEF Write

\* TAS reads a line: a command is served, an id goes back to Thyme.
LEMMA AskedReceived ==
    ASSUME TypeOK, Attached, AskedIsUnderway, Receive
    PROVE  AskedIsUnderway'
<1> DEFINE l == Head(down)
<1>1. /\ down \in Seq(Line) /\ down # << >> /\ down' = Tail(down) /\ tas_state # "dead"
      /\ unix \in {"open", "dead"} /\ link \in {"open", "broken"} /\ up \in Seq(Line) /\ served \in Seq(Command)
      /\ UNCHANGED <<unix, link, opening, clients, asked>>
  BY DEF Receive, Reads, TypeOK, Attached, thymeVars
<1>2. l \in Line
  BY <1>1, Behind
<1>3. Items(down) = {l} \cup Items(down')
  BY <1>1, ItemsTail
<1>4. up' = up \/ (l.kind = "userId" /\ up' = Append(up, l))
  BY DEF Receive
<1>5. Items(up) \subseteq Items(up') /\ (l.kind = "userId" /\ link = "open" => l \in Items(up'))
  BY <1>1, <1>2, <1>4, ItemsAppend DEF Receive
<1>6. \/ served' = served
      \/ l.kind = "call" /\ served' = Append(served, l.con)
  BY DEF Receive, SendToServer
<1>7. Items(served) \subseteq Items(served') /\ (l.kind = "call" /\ unix = "open" => l.con \in Items(served'))
  <2>1. l.kind = "call" => l.con \in Command
    BY <1>2, LineFacts
  <2>2. l.kind = "call" /\ unix = "open" => served' = Append(served, l.con)
    BY DEF Receive, SendToServer
  <2>3. l.kind = "call" /\ served' = Append(served, l.con) => Items(served') = Items(served) \cup {l.con}
    BY <1>1, <2>1, ItemsAppend
  <2> QED  BY <1>6, <2>2, <2>3
<1>8. ASSUME NEW k \in asked, k.kind \in {"call", "userId"}, Done(k) \/ OnItsWay(k)
      PROVE  (Done(k) \/ OnItsWay(k))'
  <2>1. CASE Done(k)
    BY <1>1, <1>7, <2>1 DEF Done
  <2>2. CASE k = l
    <3>1. link = "open"
      BY <1>1 DEF Attached
    <3> QED  BY <1>1, <1>5, <1>7, <1>8, <2>2, <3>1 DEF Done, OnItsWay
  <2>3. CASE k # l /\ OnItsWay(k)
    BY <1>1, <1>3, <1>5, <2>3 DEF OnItsWay
  <2> QED  BY <1>8, <2>1, <2>2, <2>3
<1> QED  BY <1>1, <1>8, AskedStep DEF AskedIsUnderway

\* A line is lost with its mark: it is not asked any more, or another copy comes.
LEMMA AskedRest ==
    ASSUME TypeOK, AskedIsUnderway, ReceiveRest
    PROVE  AskedIsUnderway'
<1> DEFINE l == Head(down)
<1>1. /\ down \in Seq(Line) /\ down # << >> /\ down' = Tail(down) /\ tas_state # "dead"
      /\ asked' = IF l \in Items(down') THEN asked ELSE asked \ {l}
      /\ UNCHANGED <<tas_state, up, opening, clients, served, unix>>
  BY DEF ReceiveRest, Reads, TypeOK, tasVars, serviceVars, thymeVars
<1>2. Items(down) = {l} \cup Items(down')
  BY <1>1, ItemsTail
<1>3. \A k : Done(k) => Done(k)'
  BY <1>1 DEF Done
<1>4. \A k \in asked' : OnItsWay(k) => OnItsWay(k)'
  BY <1>1, <1>2 DEF OnItsWay
<1> QED  BY <1>1, <1>3, <1>4, AskedStep

\* Thyme reads a chunk: the last id in it gets a client, the others are let go.
LEMMA AskedFollowed ==
    ASSUME TypeOK, AskedIsUnderway, NEW s \in Seq(Line), NEW n \in 1..Len(s), NEW socket \in Socket,
           Follow(SubSeq(s, 1, n), socket),
           Items(up') = Items(up) \/ (s = up /\ up' = After(up, n)),
           UNCHANGED <<tas_state, down, clients, served, unix>>
    PROVE  AskedIsUnderway'
<1> DEFINE ls == SubSeq(s, 1, n)
           clientType == [line : Line, socket : Socket]
           added == [line |-> ls[Len(ls)], socket |-> socket]
<1>1. ls \in Seq(Line) /\ Len(ls) = n /\ DOMAIN ls = 1..n /\ Items(s) = Items(ls) \cup Items(After(s, n))
  BY ItemsAfter, LenProperties
<1>2. opening \in Seq(clientType) /\ added \in clientType
  <2>1. n \in 1..n /\ n \in Nat
    BY LenProperties
  <2>2. ls[Len(ls)] \in Line
    BY <1>1, <2>1, ElementOfSeq
  <2> QED  BY <2>2 DEF TypeOK
<1>3. Callers(ls) = {l \in Items(ls) : l.kind = "userId"}
  BY DEF Callers, Items
<1>4. CASE registered /\ Callers(ls) # {}
  <2>1. opening' = Append(opening, added) /\ asked' = asked \ (Callers(ls) \ {ls[Len(ls)]})
    BY <1>4 DEF Follow
  <2>2. Items(opening') = Items(opening) \cup {added}
    <3> HIDE DEF clientType, added
    <3> QED  BY <1>2, <2>1, ItemsAppend
  <2>3. ASSUME NEW k \in asked', k.kind \in {"call", "userId"}, Done(k) \/ OnItsWay(k)
        PROVE  (Done(k) \/ OnItsWay(k))'
    <3>1. CASE Done(k)
      BY <3>1 DEF Done
    <3>2. CASE k \in Items(ls) /\ k.kind = "userId"
      <4>1. k = added.line
        BY <1>3, <2>1, <3>2
      <4> QED  BY <2>2, <3>2, <4>1 DEF OnItsWay
    <3>3. CASE ~(k \in Items(ls) /\ k.kind = "userId") /\ OnItsWay(k)
      <4>1. k.kind = "userId" /\ k \in Items(up) => k \in Items(up')
        BY <1>1, <3>3
      <4> QED  BY <2>2, <3>3, <4>1 DEF OnItsWay
    <3> QED  BY <2>3, <3>1, <3>2, <3>3
  <2> QED  BY <2>1, <2>3, AskedStep
<1>5. CASE ~(registered /\ Callers(ls) # {})
  <2>1. opening' = opening /\ asked' = asked \ Callers(ls)
    BY <1>5 DEF Follow
  <2>2. ASSUME NEW k \in asked', k.kind \in {"call", "userId"}, Done(k) \/ OnItsWay(k)
        PROVE  (Done(k) \/ OnItsWay(k))'
    <3>1. CASE Done(k)
      BY <3>1 DEF Done
    <3>2. CASE OnItsWay(k)
      <4>1. k.kind = "userId" /\ k \in Items(up) => k \in Items(up')
        BY <1>1, <1>3, <2>1
      <4> QED  BY <2>1, <3>2, <4>1 DEF OnItsWay
    <3> QED  BY <2>2, <3>1, <3>2
  <2> QED  BY <2>1, <2>2, AskedStep
<1> QED  BY <1>4, <1>5

\* The first client connects: it follows its caller, or that caller is let go.
LEMMA AskedConnects ==
    ASSUME TypeOK, AskedIsUnderway, ClientConnects
    PROVE  AskedIsUnderway'
<1> DEFINE first == Head(opening)
           latest == opening[Len(opening)]
           clientType == [line : Line, socket : Socket]
<1>1. /\ opening \in Seq(clientType) /\ opening # << >> /\ opening' = Tail(opening)
      /\ UNCHANGED <<tas_state, down, up, served, unix>>
  BY DEF TypeOK, ClientConnects, tasVars, serviceVars, streams
<1>2. Items(opening) = {first} \cup Items(opening')
  <2> HIDE DEF clientType
  <2> QED  BY <1>1, ItemsTail
<1>3. clients \subseteq clients' /\ asked' \subseteq asked
  BY DEF ClientConnects
<1>4. ASSUME NEW k \in asked', k.kind = "userId", first.line = k
      PROVE  \E c \in clients' : c.user = k.con
  <2>1. first.line = latest.line
    BY <1>4 DEF ClientConnects
  <2>2. clients' = clients \cup {[user |-> latest.line.con, socket |-> latest.socket]}
    BY <1>4, <2>1 DEF ClientConnects
  <2>3. latest.line.con = k.con
    BY <1>4, <2>1
  <2> DEFINE c == [user |-> latest.line.con, socket |-> latest.socket]
  <2>4. c \in clients' /\ c.user = latest.line.con
    BY <2>2
  <2> QED  BY <2>3, <2>4
<1>5. ASSUME NEW k \in asked', k.kind \in {"call", "userId"}, Done(k) \/ OnItsWay(k)
      PROVE  (Done(k) \/ OnItsWay(k))'
  <2>1. CASE Done(k)
    BY <1>1, <1>3, <2>1 DEF Done
  <2>2. CASE OnItsWay(k)
    BY <1>1, <1>2, <1>4, <2>2 DEF OnItsWay, Done
  <2> QED  BY <1>5, <2>1, <2>2
<1> QED  BY <1>1, <1>3, <1>5, AskedStep

\* No step loses what was asked.
LEMMA AskedKept ==
    ASSUME TypeOK, Ordered, Heard, Attached, AskedIsUnderway, Next
    PROVE  AskedIsUnderway'
<1> USE DEF tasVars, serviceVars, streams, thymeVars, feedVars
<1>1. CASE TickInit \/ TickUnix \/ TickConnect
  <2>1. CASE TickInit
    BY <2>1, AskedAside DEF TickInit
  <2>2. CASE TickUnix
    <3>1. unix # "dead"
      BY <2>2 DEF TickUnix, Attached
    <3> QED  BY <2>2, <3>1, AskedAside DEF TickUnix
  <2>3. CASE TickConnect
    BY <2>3, AskedAside DEF TickConnect
  <2> QED  BY <1>1, <2>1, <2>2, <2>3
<1>2. CASE TickLate \/ TickMissing \/ ClosedByThyme \/ Restart
  BY <1>2 DEF TickLate, TickMissing, ConnectsAgain, ClosedByThyme, Closed, Restart, AskedIsUnderway
<1>3. CASE Refused
  <2>1. tas_state # "dead"
    BY <1>3 DEF Refused, Attached
  <2> QED  BY <1>3, <2>1, AskedAside DEF Refused
<1>4. CASE Connected
  <2>1. up = << >> /\ Items(up) = {}
    BY <1>4, EmptySeq DEF Connected, Ordered, Idle, Items
  <2>2. \A k : OnItsWay(k) => OnItsWay(k)'
    BY <1>4, <2>1 DEF Connected, OnItsWay
  <2>3. \A k : Done(k) => Done(k)'
    BY <1>4 DEF Connected, Done
  <2> QED  BY <1>4, <2>2, <2>3, AskedStep DEF Connected
<1>5. CASE Receive
  BY <1>5, AskedReceived
<1>6. CASE ReceiveMark
  BY <1>6 DEF ReceiveMark, AskedIsUnderway
<1>17. CASE ReceiveRest
  BY <1>17, AskedRest
<1>7. CASE ReceiveCut \/ ServiceGone
  BY <1>7, AskedAside DEF ReceiveCut, ServiceGone
<1>8. CASE Upload
  <2>1. Items(up) \subseteq Items(up')
    BY <1>8, MadeLines, ItemsAppend DEF Upload, TypeOK
  <2>2. \A k : (Done(k) => Done(k)') /\ (OnItsWay(k) => OnItsWay(k)')
    BY <1>8, <2>1 DEF Upload, OnItsWay, Done
  <2> QED  BY <1>8, <2>2, AskedStep DEF Upload
<1>9. CASE Ready \/ Unregister \/ Register \/ RegisterAgain \/ TasHandlerBuffers
  BY <1>9, AskedAside DEF Ready, Unregister, Register, RegisterAgain, TasHandlerBuffers
<1>10. CASE TasHandlerHello
  <2>1. /\ up # << >> /\ Head(up).kind = "hello" /\ up' = Tail(up) /\ down' = Append(down, Head(up))
        /\ up \in Seq(Line) /\ down \in Seq(Line)
        /\ UNCHANGED <<tas_state, opening, clients, served, unix, asked>>
    BY <1>10 DEF TasHandlerHello, TypeOK
  <2>2. Items(up) = {Head(up)} \cup Items(up') /\ Items(down) \subseteq Items(down')
    BY <2>1, Behind, ItemsTail, ItemsAppend
  <2>3. \A k : (Done(k) => Done(k)') /\ (OnItsWay(k) => OnItsWay(k)')
    BY <2>1, <2>2 DEF OnItsWay, Done
  <2> QED  BY <2>1, <2>3, AskedStep
<1>11. CASE TasHandler
  <2>1. PICK n \in 1..Len(up) :
            /\ up' = After(up, n) /\ Follow(SubSeq(up, 1, n), "current")
            /\ UNCHANGED <<tas_state, down, clients, served, unix>>
    BY <1>11 DEF TasHandler
  <2>2. up \in Seq(Line) /\ "current" \in Socket
    BY DEF TypeOK, Socket
  <2> QED  BY <2>1, <2>2, AskedFollowed
<1>12. CASE TasHandlerOld
  <2>1. PICK n \in 1..Len(leftover) :
            /\ Follow(SubSeq(leftover, 1, n), "old")
            /\ UNCHANGED <<tas_state, up, down, clients, served, unix>>
    BY <1>12 DEF TasHandlerOld
  <2>2. leftover \in Seq(Line) /\ "old" \in Socket /\ Items(up') = Items(up)
    BY <2>1 DEF TypeOK, Socket
  <2> QED  BY <2>1, <2>2, AskedFollowed
<1>13. CASE ClientConnects
  BY <1>13, AskedConnects
<1>14. CASE NotifyCommand
  <2>1. issued + 1 \in Command
    BY <1>14, TasAssumption DEF NotifyCommand, Command, TypeOK
  <2>2. handlers \in Nat \ {0}
    BY <1>14 DEF NotifyCommand, HasRoom, Heard, TypeOK
  <2> QED  BY <1>14, <2>1, <2>2, MadeLines, AskedWritten DEF NotifyCommand
<1>15. CASE NotifyTarget \/ PositionPosted \/ \E u \in User : NotifyCaller(u)
  <2>1. handlers \in Nat \ {0} /\ 1 \in Nat \ {0}
    BY <1>15 DEF NotifyTarget, PositionPosted, NotifyCaller, HasRoom, Heard, TypeOK
  <2> QED  BY <1>15, <2>1, MadeLines, AskedWritten DEF NotifyTarget, PositionPosted, NotifyCaller
<1>16. ASSUME NEW c \in clients, Position(c) PROVE AskedIsUnderway'
  BY <1>16, AskedAside DEF Position
<1> QED
  BY <1>1, <1>2, <1>3, <1>4, <1>5, <1>6, <1>7, <1>8, <1>9, <1>10, <1>11, <1>12, <1>13, <1>14, <1>15, <1>16, <1>17
  DEF Next, TasTick, OnData, OnReceive

LEMMA SessionAlways == Spec => []SessionInv
<1>1. ASSUME LinkInv, SessionInv, [Next]_vars PROVE SessionInv'
  <2>1. CASE Next
    BY <1>1, <2>1, AttachedKept, ExpectingKept, AskedKept DEF LinkInv, Ordered, SessionInv
  <2>2. CASE UNCHANGED vars
    BY <1>1, <2>2 DEF SessionInv, Attached, Expecting, Underway, Holds, AskedIsUnderway, OnItsWay, Done,
                      vars, tasVars, serviceVars, streams, thymeVars
  <2> QED  BY <1>1, <2>1, <2>2
<1> QED  BY <1>1, InitSession, LinkAlways, PTL DEF Spec

-----------------------------------------------------------------------------
(* The properties.                                                         *)

\* Every variable of the session keeps its type; the count of echoes never
\* exceeds the hellos of a connection.
THEOREM TypeCorrect == Spec => []TypeOK
<1>1. LinkInv => TypeOK
  BY DEF LinkInv
<1> QED  BY <1>1, LinkAlways, PTL

\* TAS only believes to be connected when socket_arr names its socket for every
\* container, whatever restarts, late echoes and leftovers came before.
THEOREM RoutedWhenUp == Spec => []Routed
<1>1. LinkInv => Routed
  <2> SUFFICES ASSUME LinkInv, tas_state = "upload", link = "open", NEW n \in Download
               PROVE  socket_arr[n] = "current"
    BY DEF Routed
  <2>1. tas_download_count >= 3 /\ tas_download_count \in 0..MaxHello
    BY DEF LinkInv, Uploading, TypeOK
  <2>2. \A k \in 1..3 : socket_arr[Greeted(k)] = "current"
    BY <2>1 DEF LinkInv, Routes, Past, MaxHello
  <2>3. Greeted(1) = "call" /\ Greeted(2) = "target_gps" /\ Greeted(3) = "userId"
    BY DEF Greeted, Downloads
  <2> QED  BY <2>2, <2>3 DEF Download
<1> QED  BY <1>1, LinkAlways, PTL

\* No command reaches the flight service after a later one, whatever reconnections
\* and registrations come between, and however many listeners Thyme has by then.
THEOREM ServedInOrder == Spec => []CommandsInOrder
<1>1. LinkInv => CommandsInOrder
  <2>1. LinkInv => served \in Seq(Command)
    BY DEF LinkInv, TypeOK
  <2>2. LinkInv => DOMAIN served = 1..Len(served)
    BY <2>1, LenProperties
  <2> QED  BY <2>2 DEF LinkInv, CommandsUnderway, CommandsInOrder
<1> QED  BY <1>1, LinkAlways, PTL

\* Until a command or a caller's id is done, it is in a place where the next
\* read, handler or client will find it, for any number of callers, commands,
\* listeners and faults; but for a line whose own mark a read has split.
THEOREM NothingForgotten == Spec => []AskedIsUnderway
<1>1. SessionInv => AskedIsUnderway
  BY DEF SessionInv
<1> QED  BY <1>1, SessionAlways, PTL

\* A TAS that waits for echoes has a hello on its way to Thyme or back, so that
\* the two never wait for each other, unless a read has split the mark of an echo.
THEOREM NeitherWaits == Spec => []EchoUnderway
<1>1. LinkInv /\ SessionInv => EchoUnderway
  <2> SUFFICES ASSUME LinkInv, SessionInv, tas_state \in {"connect", "reconnect"}, link = "open", ~torn
               PROVE  \E l \in Items(up) \cup Items(down) : l.kind = "hello"
    BY DEF EchoUnderway, Awaited
  <2>1. Holds(down, 3) \/ Holds(up, 3)
    BY DEF SessionInv, Expecting, Underway
  <2>2. DOMAIN up = 1..Len(up) /\ DOMAIN down = 1..Len(down)
    BY LenProperties DEF LinkInv, TypeOK
  <2>3. Hello(3) \in Items(up) \cup Items(down)
    BY <2>1, <2>2 DEF Holds, Items
  <2> QED  BY <2>3 DEF Hello
<1> QED  BY <1>1, LinkAlways, SessionAlways, PTL

-----------------------------------------------------------------------------
(* The refinement of CommandChannel.                                       *)

\* Other steps leave what is pending alone.
LEMMA PendingKept == UNCHANGED down => UNCHANGED <<pendingBar, repeatedBar>>
BY DEF pendingBar, repeatedBar

\* What becomes of them when a line is written that is no command, ...
LEMMA OthersPending ==
    ASSUME TypeOK, down' \in Seq(Line), NEW l \in Line, l.kind # "call", Len(down') >= Len(down),
           \A i \in 1..Len(down) : down'[i] = down[i],
           \A i \in 1..Len(down') : i > Len(down) => down'[i] = l
    PROVE  UNCHANGED <<pendingBar, repeatedBar>>
<1>1. Len(down) \in Nat /\ Len(down') \in Nat /\ DOMAIN down' = 1..Len(down') /\ DOMAIN down = 1..Len(down)
  BY LenProperties DEF TypeOK
<1>2. ASSUME NEW c \in Command, NEW i \in 1..Len(down')
      PROVE  down'[i] = Call(c) <=> i \in 1..Len(down) /\ down[i] = Call(c)
  <2>1. l # Call(c)
    BY MadeLines
  <2>2. CASE i <= Len(down)
    <3>1. i \in 1..Len(down)
      BY <1>1, <2>2
    <3> QED  BY <3>1
  <2>3. CASE i > Len(down)
    BY <1>1, <2>1, <2>3
  <2> QED  BY <1>1, <2>2, <2>3
<1>3. \A i \in 1..Len(down) : i \in 1..Len(down')
  BY <1>1
<1>4. ASSUME NEW c \in Command
      PROVE  (\E i \in 1..Len(down') : down'[i] = Call(c)) <=> \E i \in 1..Len(down) : down[i] = Call(c)
  BY <1>2, <1>3
<1>5. ASSUME NEW c \in Command
      PROVE  (\E i, j \in 1..Len(down') : i < j /\ down'[i] = Call(c) /\ down'[j] = Call(c))
                 <=> \E i, j \in 1..Len(down) : i < j /\ down[i] = Call(c) /\ down[j] = Call(c)
  BY <1>2, <1>3
<1>6. \A c \in Command : /\ Call(c) \in Items(down') <=> \E i \in 1..Len(down') : down'[i] = Call(c)
                         /\ Call(c) \in Items(down) <=> \E i \in 1..Len(down) : down[i] = Call(c)
  BY <1>1 DEF Items
<1>7. UNCHANGED pendingBar
  BY <1>4, <1>6 DEF pendingBar
<1>8. UNCHANGED repeatedBar
  BY <1>1, <1>5 DEF repeatedBar
<1> QED  BY <1>7, <1>8

\* ... or the next command, once or more often.
LEMMA NextPending ==
    ASSUME TypeOK, Ordered, NEW n \in Nat \ {0}, issued + 1 \in Command,
           down' = Extended(down, Call(issued + 1), n)
    PROVE  /\ pendingBar' = pendingBar \cup {issued + 1}
           /\ repeatedBar' = IF n > 1 THEN repeatedBar \cup {issued + 1} ELSE repeatedBar
<1> DEFINE l == Call(issued + 1)
<1>1. /\ down \in Seq(Line) /\ l \in Line /\ l.kind = "call" /\ l.con = issued + 1 /\ issued \in Nat
      /\ \A c \in Command : Call(c) = l <=> c = issued + 1
  BY MadeLines, TasAssumption DEF TypeOK
<1>2. /\ down' \in Seq(Line) /\ Len(down) \in Nat /\ Len(down') = Len(down) + n
      /\ \A i \in 1..Len(down) : down'[i] = down[i]
      /\ \A i \in 1..Len(down') : i > Len(down) => down'[i] = l
      /\ Items(down') = Items(down) \cup {l}
  <2>3. down' = Extended(down, l, n) /\ n > 0
    OBVIOUS
  <2> HIDE DEF l
  <2>1. /\ Extended(down, l, n) \in Seq(Line)
        /\ Len(down) \in Nat /\ Len(Extended(down, l, n)) = Len(down) + n
        /\ \A i \in 1..Len(down) : Extended(down, l, n)[i] = down[i]
        /\ \A i \in 1..(Len(down) + n) : i > Len(down) => Extended(down, l, n)[i] = l
    <3>1. down \in Seq(Line) /\ l \in Line /\ n \in Nat
      BY <1>1
    <3>2. Len(down) \in Nat
      BY <3>1, LenProperties
    <3> QED  BY <3>1, <3>2, Copied
  <2>2. Items(Extended(down, l, n)) = Items(down) \cup {k \in {l} : n > 0}
    BY <1>1, Copied
  <2> QED  BY <2>1, <2>2, <2>3
<1>3. DOMAIN down' = 1..Len(down') /\ DOMAIN down = 1..Len(down)
  BY <1>1, <1>2, LenProperties
<1>4. pendingBar' = pendingBar \cup {issued + 1}
  BY <1>1, <1>2 DEF pendingBar
<1>5. \A i \in 1..Len(down) : down[i] # l
  BY <1>1 DEF Ordered, CommandsUnderway
<1>6. ASSUME NEW c \in Command, c # issued + 1, NEW i \in 1..Len(down')
      PROVE  down'[i] = Call(c) <=> i \in 1..Len(down) /\ down[i] = Call(c)
  <2>1. l # Call(c)
    BY <1>1, <1>6
  <2>2. CASE i <= Len(down)
    <3>1. i \in 1..Len(down)
      BY <1>2, <2>2
    <3> QED  BY <1>2, <3>1
  <2>3. CASE i > Len(down)
    BY <1>2, <2>1, <2>3
  <2> QED  BY <1>2, <2>2, <2>3
<1>7. \A i \in 1..Len(down) : i \in 1..Len(down')
  BY <1>2
<1>8. ASSUME NEW c \in Command, c # issued + 1 PROVE c \in repeatedBar' <=> c \in repeatedBar
  BY <1>3, <1>6, <1>7, <1>8 DEF repeatedBar
<1>9. issued + 1 \notin repeatedBar
  BY <1>3, <1>5 DEF repeatedBar
<1>10. issued + 1 \in repeatedBar' <=> n > 1
  <2>1. ASSUME n > 1 PROVE issued + 1 \in repeatedBar'
    <3>1. /\ Len(down) + 1 \in 1..Len(down') /\ Len(down) + 2 \in 1..Len(down')
          /\ Len(down) + 1 < Len(down) + 2 /\ Len(down) + 1 > Len(down) /\ Len(down) + 2 > Len(down)
      BY <1>2, <2>1
    <3>2. down'[Len(down) + 1] = l /\ down'[Len(down) + 2] = l
      BY <1>2, <3>1
    <3> QED  BY <1>3, <3>1, <3>2 DEF repeatedBar
  <2>2. ASSUME issued + 1 \in repeatedBar' PROVE n > 1
    <3>1. PICK i \in 1..Len(down'), j \in 1..Len(down') : i < j /\ down'[i] = l /\ down'[j] = l
      BY <1>3, <2>2 DEF repeatedBar
    <3>2. i \notin 1..Len(down)
      BY <1>2, <1>5, <3>1
    <3> QED  BY <1>2, <3>1, <3>2
  <2> QED  BY <2>1, <2>2
<1>11. repeatedBar \subseteq Command /\ repeatedBar' \subseteq Command
  BY DEF repeatedBar
<1>12. repeatedBar' = IF n > 1 THEN repeatedBar \cup {issued + 1} ELSE repeatedBar
  <2>1. CASE n > 1
    BY <1>8, <1>10, <1>11, <2>1
  <2>2. CASE ~(n > 1)
    <3>1. \A c \in Command : c \in repeatedBar' <=> c \in repeatedBar
      BY <1>8, <1>9, <1>10, <2>2
    <3>2. repeatedBar' = repeatedBar
      BY <1>11, <3>1
    <3> QED  BY <2>2, <3>2
  <2> QED  BY <2>1, <2>2
<1> QED  BY <1>4, <1>12

\* No line that TAS reads is a command, or it is a copy of the earliest pending.
LEMMA PendingRead ==
    ASSUME TypeOK, Ordered, down # << >>, down' = Tail(down)
    PROVE  /\ Head(down).kind # "call" => UNCHANGED <<pendingBar, repeatedBar>>
           /\ Head(down).kind = "call" =>
                  Head(down).con \in pendingBar /\ Channel!Earliest(Head(down).con) /\ Channel!Taken(Head(down).con)
<1> DEFINE l == Head(down)
<1>1. down \in Seq(Line) /\ l \in Line
  BY Behind DEF TypeOK
<1>2. /\ Len(down) \in Nat \ {0} /\ l = down[1] /\ down' \in Seq(Line) /\ Len(down') = Len(down) - 1
      /\ \A i \in 1..Len(down') : i + 1 \in 1..Len(down) /\ down'[i] = down[i + 1]
      /\ \A i \in 1..Len(down) : i # 1 => i - 1 \in 1..Len(down') /\ down'[i - 1] = down[i]
  BY <1>1, Behind
<1>3. DOMAIN down' = 1..Len(down') /\ DOMAIN down = 1..Len(down)
  BY <1>1, <1>2, LenProperties
<1>4. Items(down) = {l} \cup Items(down')
  BY <1>1, ItemsTail
<1>5. ASSUME NEW c \in Command, Call(c) # l PROVE c \in repeatedBar' <=> c \in repeatedBar
  <2>1. ASSUME c \in repeatedBar' PROVE c \in repeatedBar
    <3>1. PICK i \in 1..Len(down'), j \in 1..Len(down') : i < j /\ down'[i] = Call(c) /\ down'[j] = Call(c)
      BY <1>3, <2>1 DEF repeatedBar
    <3>2. i + 1 < j + 1 /\ down[i + 1] = Call(c) /\ down[j + 1] = Call(c)
      BY <1>2, <3>1
    <3>3. i + 1 \in DOMAIN down /\ j + 1 \in DOMAIN down
      BY <1>2, <1>3
    <3> QED  BY <3>2, <3>3 DEF repeatedBar
  <2>2. ASSUME c \in repeatedBar PROVE c \in repeatedBar'
    <3>1. PICK i \in 1..Len(down), j \in 1..Len(down) : i < j /\ down[i] = Call(c) /\ down[j] = Call(c)
      BY <1>3, <2>2 DEF repeatedBar
    <3>2. i # 1 /\ j # 1
      BY <1>2, <1>5, <3>1
    <3>3. i - 1 < j - 1 /\ down'[i - 1] = Call(c) /\ down'[j - 1] = Call(c)
      BY <1>2, <3>1, <3>2
    <3>4. i - 1 \in DOMAIN down' /\ j - 1 \in DOMAIN down'
      BY <1>2, <1>3, <3>2
    <3> QED  BY <3>3, <3>4 DEF repeatedBar
  <2> QED  BY <2>1, <2>2
<1>6. repeatedBar \subseteq Command /\ repeatedBar' \subseteq Command
  BY DEF repeatedBar
<1>7. CASE l.kind # "call"
  <2>1. \A c \in Command : Call(c) # l
    BY <1>7, MadeLines
  <2>2. UNCHANGED pendingBar
    BY <1>4, <2>1 DEF pendingBar
  <2>3. UNCHANGED repeatedBar
    BY <1>5, <1>6, <2>1
  <2> QED  BY <1>7, <2>2, <2>3
<1>8. CASE l.kind = "call"
  <2>1. l.con \in Command /\ l = Call(l.con) /\ \A c \in Command : Call(c) = l <=> c = l.con
    BY <1>1, <1>8 DEF Line, Hello, Call, Gps
  <2>2. l.con \in pendingBar
    BY <1>4, <2>1 DEF pendingBar
  <2>3. Channel!Earliest(l.con)
    <3>1. ASSUME NEW d \in pendingBar PROVE l.con <= d
      <4>1. d \in Command /\ Call(d) \in Items(down)
        BY DEF pendingBar
      <4>2. PICK i \in 1..Len(down) : down[i] = Call(d)
        BY <1>3, <4>1 DEF Items
      <4>3. down[i].kind = "call" /\ down[i].con = d
        BY <4>1, <4>2, MadeLines
      <4>4. CASE i = 1
        BY <1>2, <2>1, <4>1, <4>3, <4>4 DEF Command
      <4>5. CASE i # 1
        <5>1. 1 \in 1..Len(down) /\ 1 < i
          BY <1>2, <4>5
        <5> QED  BY <1>2, <1>8, <4>3, <5>1 DEF Ordered, CommandsUnderway, Sorted
      <4> QED  BY <4>4, <4>5
    <3> QED  BY <2>2, <3>1 DEF Channel!Earliest
  <2>4. l.con \in repeatedBar <=> Call(l.con) \in Items(down')
    <3>1. ASSUME l.con \in repeatedBar PROVE Call(l.con) \in Items(down')
      <4>1. PICK i \in 1..Len(down), j \in 1..Len(down) : i < j /\ down[j] = Call(l.con)
        BY <1>3, <3>1 DEF repeatedBar
      <4>2. j - 1 \in DOMAIN down' /\ down'[j - 1] = Call(l.con)
        BY <1>2, <1>3, <4>1
      <4> QED  BY <4>2 DEF Items
    <3>2. ASSUME Call(l.con) \in Items(down') PROVE l.con \in repeatedBar
      <4>1. PICK i \in 1..Len(down') : down'[i] = Call(l.con)
        BY <1>3, <3>2 DEF Items
      <4>2. 1 \in DOMAIN down /\ i + 1 \in DOMAIN down /\ 1 < i + 1 /\ down[1] = Call(l.con) /\ down[i + 1] = Call(l.con)
        BY <1>2, <1>3, <2>1, <4>1
      <4> QED  BY <2>1, <4>2 DEF repeatedBar
    <3> QED  BY <3>1, <3>2
  <2>5. \A c \in Command : c # l.con => (c \in repeatedBar' <=> c \in repeatedBar)
    BY <1>5, <2>1
  <2>6. \A c \in Command : Call(c) \in Items(down) <=> c = l.con \/ Call(c) \in Items(down')
    BY <1>4, <2>1
  <2>7. CASE l.con \in repeatedBar
    <3>1. UNCHANGED pendingBar
      BY <2>1, <2>4, <2>6, <2>7 DEF pendingBar
    <3>2. repeatedBar' \in {repeatedBar, repeatedBar \ {l.con}}
      <4>1. CASE l.con \in repeatedBar'
        <5>1. \A c \in Command : c \in repeatedBar' <=> c \in repeatedBar
          BY <2>5, <2>7, <4>1
        <5> QED  BY <1>6, <5>1
      <4>2. CASE l.con \notin repeatedBar'
        BY <1>6, <2>5, <2>7, <4>2
      <4> QED  BY <4>1, <4>2
    <3> QED  BY <1>8, <2>2, <2>3, <2>7, <3>1, <3>2 DEF Channel!Taken
  <2>8. CASE l.con \notin repeatedBar
    <3>1. pendingBar' = pendingBar \ {l.con}
      BY <2>1, <2>4, <2>6, <2>8 DEF pendingBar
    <3>2. l.con \notin repeatedBar'
      <4>1. ASSUME l.con \in repeatedBar' PROVE Call(l.con) \in Items(down')
        BY <4>1 DEF repeatedBar, Items
      <4> QED  BY <2>4, <2>8, <4>1
    <3>3. UNCHANGED repeatedBar
      BY <1>6, <2>5, <2>8, <3>2
    <3> QED  BY <1>8, <2>2, <2>3, <2>8, <3>1, <3>3 DEF Channel!Taken
  <2> QED  BY <2>7, <2>8
<1> QED  BY <1>7, <1>8

LEMMA InitChannel == Init => Channel!Init
<1> SUFFICES ASSUME Init PROVE Channel!Init
  OBVIOUS
<1>1. pendingBar = {} /\ repeatedBar = {}
  BY DEF Init, pendingBar, repeatedBar, Items
<1>2. sinkBar = "absent" /\ (handlers > 1) = FALSE
  BY DEF Init, sinkBar
<1> QED  BY <1>1, <1>2 DEF Init, Channel!Init

\* What TAS does with a command, and when its connection ends.
LEMMA TasRefines ==
    ASSUME TypeOK, Ordered, Attached, TasStep
    PROVE  [Channel!Next]_(Channel!vars)
<1> USE DEF tasVars, serviceVars, streams, thymeVars, feedVars, Channel!vars
<1>1. CASE TickInit \/ TickConnect \/ Refused \/ Connected \/ ReceiveCut \/ Upload
  <2>1. /\ UNCHANGED <<down, unix, served, issued, handlers>>
        /\ tas_state' = tas_state \/ (tas_state # "dead" /\ tas_state' # "dead")
    BY <1>1 DEF TickInit, TickConnect, Refused, Connected, ReceiveCut, Upload, Attached
  <2>2. UNCHANGED sinkBar
    BY <2>1 DEF sinkBar
  <2> QED  BY <2>1, <2>2, PendingKept
<1>2. CASE TickUnix
  <2>1. UNCHANGED <<pendingBar, repeatedBar, served, issued, handlers>>
    BY <1>2, PendingKept DEF TickUnix
  <2>2. sinkBar = "absent" /\ sinkBar' \in {"open", "gone"}
    BY <1>2 DEF TickUnix, Attached, sinkBar
  <2> QED  BY <2>1, <2>2 DEF Channel!Next, Channel!Open, Channel!Close
<1>3. CASE TickLate \/ TickMissing \/ ClosedByThyme
  <2>1. down' = << >> /\ tas_state # "dead" /\ tas_state' # "dead" /\ UNCHANGED <<unix, served, issued, handlers>>
    BY <1>3 DEF TickLate, TickMissing, ConnectsAgain, ClosedByThyme, Closed
  <2>2. pendingBar' = {} /\ repeatedBar' = {} /\ UNCHANGED sinkBar
    BY <2>1 DEF pendingBar, repeatedBar, Items, sinkBar
  <2> QED  BY <2>1, <2>2 DEF Channel!Next, Channel!Lose
<1>4. CASE Receive
  <2> DEFINE l == Head(down)
  <2>1. /\ down # << >> /\ down' = Tail(down) /\ tas_state # "dead" /\ tas_state' # "dead"
        /\ unix \in {"open", "dead"} /\ UNCHANGED <<unix, issued, handlers>>
        /\ served' = IF unix = "open" /\ l.kind = "call" THEN Append(served, l.con) ELSE served
    BY <1>4 DEF Receive, Reads, SendToServer, Attached, TypeOK
  <2>2. UNCHANGED sinkBar /\ sinkBar = IF unix = "open" THEN "open" ELSE "gone"
    BY <2>1 DEF sinkBar
  <2>3. CASE l.kind # "call"
    BY <2>1, <2>2, <2>3, PendingRead
  <2>4. CASE l.kind = "call"
    <3>1. l.con \in pendingBar /\ Channel!Earliest(l.con) /\ Channel!Taken(l.con)
      BY <2>1, <2>4, PendingRead
    <3>2. Channel!Serve(l.con) \/ Channel!Drop(l.con)
      BY <2>1, <2>2, <2>4, <3>1 DEF Channel!Serve, Channel!Drop
    <3> QED  BY <3>1, <3>2 DEF Channel!Next
  <2> QED  BY <2>3, <2>4
<1>5. CASE ReceiveMark
  <2>1. /\ down' = << >> /\ tas_state # "dead" /\ tas_state' = "dead"
        /\ UNCHANGED <<unix, issued, served, handlers>>
    BY <1>5 DEF ReceiveMark, Closed, Reads
  <2>2. pendingBar' = {} /\ repeatedBar' = {} /\ sinkBar' = "gone"
    BY <2>1 DEF pendingBar, repeatedBar, Items, sinkBar
  <2> QED  BY <2>1, <2>2 DEF Channel!Next, Channel!Close, Channel!Lose
<1>6. CASE ServiceGone
  <2>1. UNCHANGED <<pendingBar, repeatedBar, served, issued, handlers>>
    BY <1>6, PendingKept DEF ServiceGone
  <2>2. sinkBar' = "gone"
    BY <1>6 DEF ServiceGone, sinkBar
  <2> QED  BY <2>1, <2>2 DEF Channel!Next, Channel!Close
<1>7. CASE ReceiveRest
  <2> DEFINE l == Head(down)
  <2>1. down # << >> /\ down' = Tail(down) /\ UNCHANGED <<tas_state, unix, issued, served, handlers>>
    BY <1>7 DEF ReceiveRest, Reads
  <2>2. UNCHANGED sinkBar
    BY <2>1 DEF sinkBar
  <2>3. CASE l.kind # "call"
    BY <2>1, <2>2, <2>3, PendingRead
  <2>4. CASE l.kind = "call"
    <3>1. l.con \in pendingBar /\ Channel!Earliest(l.con) /\ Channel!Taken(l.con)
      BY <2>1, <2>4, PendingRead
    <3> QED  BY <2>1, <2>2, <3>1 DEF Channel!Next, Channel!Drop
  <2> QED  BY <2>3, <2>4
<1> QED  BY <1>1, <1>2, <1>3, <1>4, <1>5, <1>6, <1>7 DEF TasStep, TasTick, OnReceive

\* Thyme only adds to what is pending, when it is notified of a command.
LEMMA ThymeRefines ==
    ASSUME TypeOK, Ordered, Heard, ThymeStep
    PROVE  [Channel!Next]_(Channel!vars)
<1> USE DEF tasVars, serviceVars, streams, thymeVars, feedVars, Channel!vars
<1>1. UNCHANGED <<tas_state, unix, served>>
  BY DEF ThymeStep, Ready, Unregister, Register, RegisterAgain, Restart, TasHandlerBuffers, OnData, TasHandlerHello,
         TasHandler, TasHandlerOld, ClientConnects, NotifyCommand, NotifyTarget, PositionPosted, NotifyCaller, Position
<1>2. UNCHANGED sinkBar
  BY <1>1 DEF sinkBar
<1>3. ASSUME NEW l \in Line, l.kind # "call", NEW n \in Nat, down' = Extended(down, l, n)
      PROVE  UNCHANGED <<pendingBar, repeatedBar>>
  <2>1. /\ down' \in Seq(Line) /\ Len(down') >= Len(down)
        /\ \A i \in 1..Len(down) : down'[i] = down[i]
        /\ \A i \in 1..Len(down') : i > Len(down) => down'[i] = l
    <3>1. down \in Seq(Line) /\ Len(down) \in Nat
      BY LenProperties DEF TypeOK
    <3>2. /\ Extended(down, l, n) \in Seq(Line) /\ Len(Extended(down, l, n)) = Len(down) + n
          /\ \A i \in 1..Len(down) : Extended(down, l, n)[i] = down[i]
          /\ \A i \in 1..(Len(down) + n) : i > Len(down) => Extended(down, l, n)[i] = l
      BY <3>1, Copied
    <3> QED  BY <1>3, <3>1, <3>2
  <2> QED  BY <1>3, <2>1, OthersPending
<1>4. CASE Ready \/ Register \/ RegisterAgain \/ Restart
  <2>1. UNCHANGED <<down, issued>>
    BY <1>4 DEF Ready, Register, RegisterAgain, Restart
  <2>2. UNCHANGED <<pendingBar, repeatedBar>>
    BY <2>1, PendingKept
  <2>3. (handlers' > 1) = (handlers > 1) \/ (handlers' > 1) = ~(handlers > 1)
    OBVIOUS
  <2> QED  BY <1>1, <1>2, <2>1, <2>2, <2>3 DEF Channel!Next, Channel!Listen
<1>5. CASE Unregister \/ TasHandlerBuffers \/ TasHandler \/ TasHandlerOld
          \/ ClientConnects \/ \E c \in clients : Position(c)
  <2>1. UNCHANGED <<down, issued, handlers>>
    BY <1>5 DEF Unregister, TasHandlerBuffers, TasHandler, TasHandlerOld, ClientConnects, Position
  <2> QED  BY <1>1, <1>2, <2>1, PendingKept
<1>6. CASE TasHandlerHello
  <2>1. /\ Head(up) \in Line /\ Head(up).kind = "hello" /\ down' = Append(down, Head(up))
        /\ down \in Seq(Line) /\ UNCHANGED <<issued, handlers>>
    BY <1>6, Behind DEF TasHandlerHello, TypeOK
  <2>2. /\ down' \in Seq(Line) /\ Len(down') = Len(down) + 1 /\ down'[Len(down) + 1] = Head(up) /\ Len(down) \in Nat
        /\ \A i \in 1..Len(down) : down'[i] = down[i]
    BY <2>1, AppendProperties, LenProperties
  <2>3. Len(down') >= Len(down) /\ \A i \in 1..Len(down') : i > Len(down) => down'[i] = Head(up)
    BY <2>2
  <2>4. UNCHANGED <<pendingBar, repeatedBar>>
    BY <2>1, <2>2, <2>3, OthersPending
  <2> QED  BY <1>1, <1>2, <2>1, <2>4
<1>7. CASE NotifyTarget \/ PositionPosted \/ \E u \in User : NotifyCaller(u)
  <2>1. handlers \in Nat /\ 1 \in Nat
    BY DEF TypeOK
  <2>2. \E l \in Line, n \in Nat :
            l.kind # "call" /\ (down' = Extended(down, l, n) \/ UNCHANGED down)
    BY <1>7, <2>1, MadeLines DEF NotifyTarget, PositionPosted, NotifyCaller, Write
  <2>3. UNCHANGED <<pendingBar, repeatedBar>>
    BY <1>3, <2>2, PendingKept
  <2>4. UNCHANGED <<issued, handlers>>
    BY <1>7 DEF NotifyTarget, PositionPosted, NotifyCaller
  <2> QED  BY <1>1, <1>2, <2>3, <2>4
<1>8. CASE NotifyCommand
  <2>1. issued < MaxCommands /\ issued' = issued + 1 /\ issued + 1 \in Command /\ handlers \in Nat \ {0}
    BY <1>8, TasAssumption DEF NotifyCommand, HasRoom, Heard, Command, TypeOK
  <2>2. down' = Extended(down, Call(issued + 1), handlers) \/ UNCHANGED down
    BY <1>8 DEF NotifyCommand, Write
  <2>3. \/ UNCHANGED <<pendingBar, repeatedBar>>
        \/ /\ pendingBar' = pendingBar \cup {issued + 1}
           /\ repeatedBar' = IF handlers > 1 THEN repeatedBar \cup {issued + 1} ELSE repeatedBar
    BY <2>1, <2>2, NextPending, PendingKept
  <2>4. UNCHANGED handlers
    BY <1>8 DEF NotifyCommand
  <2> QED  BY <1>1, <1>2, <2>1, <2>3, <2>4 DEF Channel!Next, Channel!Issue
<1> QED  BY <1>4, <1>5, <1>6, <1>7, <1>8 DEF ThymeStep, OnData

\* TAS and Thyme implement the channel for any number of callers, commands,
\* listeners and faults: commands are served in their turn, and once if one
\* listener passed them on; they are lost with their connection, when there is
\* nobody to serve them any more, or when a read splits a mark.
THEOREM ChannelRefinement == Spec => ImplementsChannel
<1>1. LinkInv /\ SessionInv /\ [Next]_vars => [Channel!Next]_(Channel!vars)
  <2> SUFFICES ASSUME LinkInv, SessionInv, [Next]_vars PROVE [Channel!Next]_(Channel!vars)
    OBVIOUS
  <2>1. CASE TasStep
    BY <2>1, TasRefines DEF LinkInv, Ordered, SessionInv
  <2>2. CASE ThymeStep
    BY <2>2, ThymeRefines DEF LinkInv, Ordered
  <2>3. CASE UNCHANGED vars
    BY <2>3, PendingKept DEF Channel!vars, sinkBar, vars, tasVars, serviceVars, streams, thymeVars
  <2> QED  BY <2>1, <2>2, <2>3 DEF Next, TasStep, ThymeStep
<1> QED
  BY <1>1, InitChannel, LinkAlways, SessionAlways, PTL DEF Spec, ImplementsChannel, Channel!Spec
=============================================================================
