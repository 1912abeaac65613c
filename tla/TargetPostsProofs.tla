--------------------------- MODULE TargetPostsProofs ---------------------------
(***************************************************************************)
(* Proofs about TargetPosts, for any callers and any number of requests.   *)
(*                                                                         *)
(* As long as nothing has overlapped or failed since the last request that *)
(* found none under way, the chain is in one of four places: the userId    *)
(* request under way, its callback to run, the call request under way, or  *)
(* done.                                                                   *)
(***************************************************************************)
EXTENDS TargetPosts, TLAPS

CallPost(u) == [rn |-> "call", con |-> u # NoUser]

Naming == posts = << UserIdPost(target) >> /\ acks = << >>
Answered == posts = << >> /\ acks = << target >> /\ stored.userId = target
Calling == posts = << CallPost(target) >> /\ acks = << >> /\ stored.userId = target
Done == /\ posts = << >> /\ acks = << >>
        /\ stored = [userId |-> target, call |-> target # NoUser]

Chain == ~disturbed => abandoned = << >> /\ (Naming \/ Answered \/ Calling \/ Done)

-----------------------------------------------------------------------------
(* Sequences.                                                              *)

LEMMA WithoutType ==
    ASSUME NEW S, NEW s \in Seq(S), NEW i \in 1..Len(s)
    PROVE  Without(s, i) \in Seq(S)
<1>1. SubSeq(s, 1, i - 1) \in Seq(S) /\ SubSeq(s, i + 1, Len(s)) \in Seq(S)
    OBVIOUS
<1> QED
    BY <1>1 DEF Without

LEMMA WithoutOnly ==
    ASSUME NEW S, NEW x \in S
    PROVE  Without(<< x >>, 1) = << >>
<1>1. << x >> \in Seq(S) /\ Len(<< x >>) = 1
    OBVIOUS
<1>2. SubSeq(<< x >>, 1, 0) = << >> /\ SubSeq(<< x >>, 2, 1) = << >>
    BY <1>1
<1> QED
    BY <1>1, <1>2 DEF Without

-----------------------------------------------------------------------------
(* Types.                                                                  *)

LEMMA InitType == Init => TypeOK
<1> SUFFICES ASSUME Init PROVE TypeOK
    OBVIOUS
<1>1. target \in Target /\ stored \in [userId : Target, call : BOOLEAN]
    BY DEF Init, Target
<1>2. posts \in Seq(Post) /\ acks \in Seq(Target) /\ abandoned \in Seq(Post)
    BY DEF Init
<1>3. disturbed \in BOOLEAN
    BY DEF Init
<1> QED
    BY <1>1, <1>2, <1>3 DEF TypeOK

LEMMA NextKeepsType == TypeOK /\ [Next]_vars => TypeOK'
<1> SUFFICES ASSUME TypeOK, [Next]_vars PROVE TypeOK'
    OBVIOUS
<1> USE DEF TypeOK
<1>1. \A u \in Target : UserIdPost(u) \in Post
    BY DEF UserIdPost, Post
<1>2. ASSUME NEW u \in User, Matched(u) PROVE TypeOK'
    BY <1>1, <1>2 DEF Matched, Target, InFlight
<1>3. CASE Returned
    BY <1>1, <1>3 DEF Returned, Target, InFlight
<1>4. ASSUME NEW u \in User, ReturnedAndMatched(u) PROVE TypeOK'
  <2>1. << UserIdPost(NoUser), UserIdPost(u) >> \in Seq(Post)
      BY <1>1 DEF Target
  <2> QED
      BY <2>1, <1>4 DEF ReturnedAndMatched, Target
<1>5. CASE Removed
    BY <1>5 DEF Removed, Target
<1>6. ASSUME NEW i \in 1..Len(posts) PROVE /\ Without(posts, i) \in Seq(Post)
                                           /\ posts[i] \in Post
    BY <1>6, WithoutType
<1>7. ASSUME NEW p \in Post, Store(p) PROVE stored' \in [userId : Target, call : BOOLEAN]
  <2>1. CASE p.rn = "userId"
      BY <1>7, <2>1 DEF Store, Post
  <2>2. CASE p.rn # "userId"
      BY <1>7, <2>2 DEF Store, Post
  <2> QED
      BY <2>1, <2>2
<1>8. ASSUME NEW i \in 1..Len(posts), Served(i) PROVE TypeOK'
  <2>1. posts[i].rn = "userId" => posts[i].con \in Target
      BY <1>6 DEF Post
  <2>2. acks' \in Seq(Target)
      BY <1>8, <2>1 DEF Served
  <2> QED
      BY <1>6, <1>7, <1>8, <2>2 DEF Served
<1>9. ASSUME NEW i \in 1..Len(posts), Failed(i) PROVE TypeOK'
    BY <1>6, <1>7, <1>9 DEF Failed
<1>10. ASSUME NEW i \in 1..Len(acks), Callback(i) PROVE TypeOK'
  <2>1. Without(acks, i) \in Seq(Target)
      BY WithoutType
  <2>2. [rn |-> "call", con |-> acks[i] # NoUser] \in Post
      BY DEF Post
  <2> QED
      BY <1>10, <2>1, <2>2 DEF Callback
<1>11. CASE UNCHANGED vars
    BY <1>11 DEF vars
<1>12. CASE Restart
  <2>1. abandoned' \in Seq(Post) /\ posts' \in Seq(Post) /\ acks' \in Seq(Target)
      BY <1>12 DEF Restart
  <2> QED
      BY <1>12, <2>1 DEF Restart, Target
<1>14. ASSUME NEW i \in 1..Len(abandoned), Late(i) PROVE TypeOK'
  <2>1. abandoned[i] \in Post /\ abandoned' \in Seq(Post)
      BY <1>14, WithoutType DEF Late
  <2>2. stored' \in [userId : Target, call : BOOLEAN]
      BY <1>7, <1>14, <2>1 DEF Late
  <2> QED
      BY <1>14, <2>1, <2>2 DEF Late
<1>13. ASSUME NEW i \in 1..Len(posts), Refused(i) PROVE TypeOK'
  <2>1. posts[i].rn = "userId" => posts[i].con \in Target
      BY <1>6 DEF Post
  <2>2. acks' \in Seq(Target)
      BY <1>13, <2>1 DEF Refused
  <2> QED
      BY <1>6, <1>13, <2>2 DEF Refused
<1> QED
    BY <1>2, <1>3, <1>4, <1>5, <1>8, <1>9, <1>10, <1>11, <1>12, <1>13, <1>14
    DEF Next, AnyServed, AnyFailed, AnyLate, AnyCallback

\* Every variable has its type.
THEOREM TypeCorrect == Spec => []TypeOK
    BY InitType, NextKeepsType, PTL DEF Spec

-----------------------------------------------------------------------------
(* The chain.                                                              *)

LEMMA InitChain == Init => Chain
    BY DEF Init, Chain, Done

LEMMA NextKeepsChain == TypeOK /\ Chain /\ [Next]_vars => Chain'
<1> SUFFICES ASSUME TypeOK, Chain, [Next]_vars, ~disturbed' PROVE Chain'
    BY DEF Chain
<1>1. target \in Target /\ stored \in [userId : Target, call : BOOLEAN]
    BY DEF TypeOK
<1>2. ASSUME NEW u \in User, Matched(u) PROVE Chain'
  <2>1. posts = << >> /\ acks = << >> /\ abandoned = << >>
      BY <1>2 DEF Matched, InFlight
  <2>2. posts' = << UserIdPost(target') >> /\ acks' = << >> /\ abandoned' = << >>
      BY <1>2, <2>1 DEF Matched
  <2> QED
      BY <2>2 DEF Chain, Naming
<1>3. CASE Returned
  <2>1. posts = << >> /\ acks = << >> /\ abandoned = << >>
      BY <1>3 DEF Returned, InFlight
  <2>2. posts' = << UserIdPost(target') >> /\ acks' = << >> /\ abandoned' = << >>
      BY <1>3, <2>1 DEF Returned
  <2> QED
      BY <2>2 DEF Chain, Naming
<1>4. ~ \E u \in User : ReturnedAndMatched(u)
    BY DEF ReturnedAndMatched
<1>5. ~Removed /\ ~Restart /\ ~AnyFailed
    BY DEF Removed, Restart, AnyFailed, Failed, Refused
<1>6. ASSUME NEW i \in 1..Len(posts), Served(i) PROVE Chain'
  <2>1. /\ posts' = Without(posts, i)
        /\ Store(posts[i])
        /\ acks' = IF posts[i].rn = "userId" THEN Append(acks, posts[i].con) ELSE acks
        /\ target' = target /\ disturbed' = disturbed /\ abandoned' = << >>
      BY <1>6 DEF Served, Chain
  <2>2. Naming \/ Calling
      BY <2>1, <1>6 DEF Chain, Answered, Done
  <2>3. CASE Naming
    <3>1. i = 1 /\ posts[1] = UserIdPost(target) /\ acks = << >>
        BY <2>3, <1>6 DEF Naming
    <3>2. posts' = << >>
        BY <2>1, <2>3, <3>1, WithoutOnly DEF Naming
    <3>3. acks' = << target' >>
        BY <2>1, <3>1 DEF UserIdPost
    <3>4. stored'.userId = target'
        BY <1>1, <2>1, <3>1 DEF UserIdPost, Store
    <3> QED
        BY <2>1, <3>2, <3>3, <3>4 DEF Chain, Answered
  <2>4. CASE Calling
    <3>1. i = 1 /\ posts[1] = CallPost(target) /\ acks = << >> /\ stored.userId = target
        BY <2>4, <1>6 DEF Calling
    <3>2. posts' = << >>
        BY <2>1, <2>4, <3>1, WithoutOnly DEF Calling
    <3>3. acks' = << >>
        BY <2>1, <3>1 DEF CallPost
    <3>4. stored' = [stored EXCEPT !.call = (target # NoUser)]
        BY <2>1, <3>1 DEF CallPost, Store
    <3>5. stored' = [userId |-> target, call |-> target # NoUser]
        BY <1>1, <3>1, <3>4
    <3> QED
        BY <2>1, <3>2, <3>3, <3>5 DEF Chain, Done
  <2> QED
      BY <2>2, <2>3, <2>4
<1>7. ASSUME NEW i \in 1..Len(acks), Callback(i) PROVE Chain'
  <2>1. Answered
      BY <1>7 DEF Callback, Chain, Naming, Calling, Done
  <2>2. i = 1 /\ acks[1] = target
      BY <1>7, <2>1 DEF Answered
  <2>3. /\ acks' = << >>
        /\ posts' = << CallPost(target) >>
        /\ target' = target /\ stored' = stored /\ abandoned' = << >>
      BY <1>1, <1>7, <2>1, <2>2, WithoutOnly DEF Callback, Answered, CallPost, Chain
  <2>4. posts' = << CallPost(target') >> /\ stored'.userId = target'
      BY <2>1, <2>3 DEF Answered
  <2> QED
      BY <2>3, <2>4 DEF Chain, Calling
<1>9. ~AnyLate
    BY DEF AnyLate, Late, Chain
<1>8. CASE UNCHANGED vars
    BY <1>8 DEF vars, Chain, Naming, Answered, Calling, Done
<1> QED
    BY <1>2, <1>3, <1>4, <1>5, <1>6, <1>7, <1>8, <1>9 DEF Next, AnyServed, AnyCallback

\* When no request is under way, Mobius has told the drone what the dispatcher
\* believes, unless the last requests overlapped, one of them failed, or the
\* drone or the dispatcher was away since.
THEOREM Agreement == Spec => []MobiusAgrees
<1>1. Spec => [](TypeOK /\ Chain)
    BY InitType, InitChain, NextKeepsType, NextKeepsChain, PTL DEF Spec
<1>2. Chain => MobiusAgrees
  <2> SUFFICES ASSUME Chain, posts = << >>, acks = << >>, ~disturbed
               PROVE  stored = [userId |-> target, call |-> target # NoUser]
      BY DEF MobiusAgrees, InFlight
  <2>1. ~Naming /\ ~Answered /\ ~Calling
      BY DEF Naming, Answered, Calling
  <2> QED
      BY <2>1 DEF Chain, Done
<1> QED
    BY <1>1, <1>2, PTL
=============================================================================
