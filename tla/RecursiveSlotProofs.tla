------------------------ MODULE RecursiveSlotProofs ------------------------
(***************************************************************************)
(* For any slots, names, servers and replies, and any depth: a query asks  *)
(* no server the same question twice, its recursion is bounded, the cache's*)
(* referrals change only on the word of a server from above, and where     *)
(* servers tell the truth nothing but the truth is cached or answered.     *)
(*                                                                         *)
(* The trail is what keeps a question from being asked twice, and sending  *)
(* comes after it: what a call is about to send is in the trail already,   *)
(* and is fresh, which is why AskedOnce needs that all that was sent is in *)
(* the trail.  That answers are right needs that what is true of a call's  *)
(* question is true of the one whose alias it follows, all along the stack.*)
(***************************************************************************)
EXTENDS MCRecursiveWorld, SequenceTheorems, WellFoundedInduction, TLAPS

\* What a call of resolve may look like: only a call that is querying, or
\* following an alias found by a query, is inside query_nameserver's try
\* block, and a call that is done has an answer.
Calls == {call \in Frames :
            /\ call.try => call.at \in {"ask", "wait", "alias"}
            /\ call.at = "done" => call.result \in Answers}

Responses == [question : Names, answer : Answers]

TypeOK ==
  /\ m_answers \in [Names -> Answers \union {None}]
  /\ m_referrals \in [Names -> Referrals \union {None}]
  /\ m_referrals[Root] # None
  /\ stack \in [Slots -> Seq(Calls)]
  /\ m_query_trail \in [Slots -> SUBSET (Names \X Addresses)]
  /\ sent \in [Slots -> SUBSET (Names \X Addresses)]
  /\ late \in [Slots -> BOOLEAN]
  /\ response \in [Slots -> Responses \union {None}]

\* All that a slot has sent is in its trail, and so is what it is about to
\* send, which is nothing that it has sent.
Trailed(s) ==
  /\ sent[s] \subseteq m_query_trail[s]
  /\ IsAt(s, "ask") =>
       LET asked == {Last(stack[s]).question} \X Last(stack[s]).addresses
       IN  asked \subseteq m_query_trail[s] /\ asked \intersect sent[s] = {}

\* No call of resolve gets past the depth test one call too deep.
Shallow(s) ==
  /\ Len(stack[s]) <= MaxRecursionDepth + 1
  /\ Len(stack[s]) = MaxRecursionDepth + 1 => IsAt(s, "look")

IInv == TypeOK /\ \A s \in Slots : Trailed(s) /\ Shallow(s)

\* The stack of a slot never grows past the maximum depth and the call that
\* finds it exceeded.
RecursionBounded == \A s \in Slots : Len(stack[s]) <= MaxRecursionDepth + 1

-----------------------------------------------------------------------------
(* Numbers and sequences *)

\* A set of natural numbers with a bound has a greatest element: it is as far
\* from the bound as any can be.
LEMMA GreatestNatural ==
  ASSUME NEW S \in SUBSET Nat, S # {}, NEW n \in Nat, \A k \in S : k <= n
  PROVE  \E m \in S : \A k \in S : k <= m
<1> DEFINE Gaps == {k \in Nat : n - k \in S}
<1>1. Gaps # {}
  <2>1. PICK k \in S : TRUE
    OBVIOUS
  <2>2. n - k \in Nat /\ n - (n - k) = k
    BY <2>1
  <2>3. QED
    BY <2>1, <2>2
<1>2. PICK least \in Gaps : \A k \in Gaps : <<k, least>> \notin OpToRel(<, Nat)
  BY <1>1, NatLessThanWellFounded, WFMin, Zenon
<1>3. \A k \in Gaps : ~(k < least)
  BY <1>2, Zenon DEF OpToRel
<1>4. ASSUME NEW k \in S
      PROVE  k <= n - least
  <2>1. n - k \in Nat /\ n - (n - k) = k
    OBVIOUS
  <2>2. n - k \in Gaps
    BY <2>1
  <2>3. ~(n - k < least)
    BY <1>3, <2>2
  <2>4. QED
    BY <2>1, <2>3
<1>5. QED
  BY <1>4

LEMMA MaxProperties ==
  ASSUME NEW S \in SUBSET Nat, S # {}, NEW n \in Nat, \A k \in S : k <= n
  PROVE  Max(S) \in S /\ \A k \in S : k <= Max(S)
<1>1. \E m \in S : \A k \in S : m >= k
  BY GreatestNatural
<1>2. Max(S) \in S /\ \A k \in S : Max(S) >= k
  BY <1>1 DEF Max
<1>3. QED
  BY <1>2

\* The calls below some call of a stack, and all below the last one.
LEMMA BelowProperties ==
  ASSUME NEW S, NEW q \in Seq(S), NEW k \in Nat, k <= Len(q)
  PROVE  SubSeq(q, 1, k) \in Seq(S) /\ Len(SubSeq(q, 1, k)) = k
<1>1. \A i \in 1..k : q[i] \in S
  BY ElementOfSeq, LenProperties
<1>2. /\ SubSeq(q, 1, k) \in Seq(S)
      /\ Len(SubSeq(q, 1, k)) = IF 1 <= k THEN k - 1 + 1 ELSE 0
  BY <1>1, SubSeqProperties
<1>3. (IF 1 <= k THEN k - 1 + 1 ELSE 0) = k
  OBVIOUS
<1>4. QED
  BY <1>2, <1>3

LEMMA FrontProperties ==
  ASSUME NEW S, NEW q \in Seq(S), q # <<>>
  PROVE  /\ Front(q) \in Seq(S) /\ Len(Front(q)) = Len(q) - 1
         /\ Last(q) \in S
         /\ Len(q) \in Nat \ {0}
<1>1. Len(q) \in Nat \ {0}
  BY EmptySeq
<1>2. Last(q) \in S
  BY <1>1, ElementOfSeq DEF Last
<1>3. Len(q) - 1 \in Nat /\ Len(q) - 1 <= Len(q)
  BY <1>1
<1>4. QED
  BY <1>1, <1>2, <1>3, BelowProperties DEF Front

\* A call put on top of others is the last one.
LEMMA PushProperties ==
  ASSUME NEW S, NEW below \in Seq(S), NEW call \in S
  PROVE  /\ Append(below, call) \in Seq(S)
         /\ Append(below, call) # <<>>
         /\ Len(Append(below, call)) = Len(below) + 1
         /\ Last(Append(below, call)) = call
BY AppendProperties, LenProperties DEF Last

LEMMA OneProperties ==
  ASSUME NEW S, NEW call \in S
  PROVE  /\ <<call>> \in Seq(S) /\ <<call>> # <<>>
         /\ Len(<<call>>) = 1 /\ Last(<<call>>) = call
BY DEF Last

LEMMA PushTwoProperties ==
  ASSUME NEW S, NEW below \in Seq(S), NEW caller \in S, NEW call \in S
  PROVE  LET calls == Append(below, caller) \o <<call>>
         IN  /\ calls \in Seq(S) /\ calls # <<>>
             /\ Len(calls) = Len(below) + 2
             /\ Last(calls) = call
<1> DEFINE b == Append(below, caller)
<1>1. b \in Seq(S) /\ Len(b) = Len(below) + 1
  BY PushProperties
<1>2. b \o <<call>> = Append(b, call)
  BY <1>1, AppendIsConcat
<1> HIDE DEF b
<1>3. /\ Append(b, call) \in Seq(S) /\ Append(b, call) # <<>>
      /\ Len(Append(b, call)) = Len(b) + 1
      /\ Last(Append(b, call)) = call
  BY <1>1, PushProperties
<1>4. (Len(below) + 1) + 1 = Len(below) + 2
  BY LenProperties
<1>5. QED
  BY <1>1, <1>2, <1>3, <1>4 DEF b

-----------------------------------------------------------------------------
(* Names *)

LEMMA NamesAreSequences == \A n \in Names : n \in Seq(STRING) /\ Len(n) \in Nat
<1>1. Root \in Seq(STRING)
  BY DEF Root
<1>2. QED
  BY <1>1, RecursiveSlotAssumption, LenProperties

LEMMA ReverseProperties ==
  ASSUME NEW S, NEW q \in Seq(S)
  PROVE  Reverse(q) \in Seq(S) /\ Len(Reverse(q)) = Len(q)
<1>1. Reverse(q) \in [1..Len(q) -> S]
  <2>1. \A i \in 1..Len(q) : (Len(q) - i) + 1 \in 1..Len(q)
    BY LenProperties
  <2>2. QED
    BY <2>1, ElementOfSeq DEF Reverse
<1>2. Len(q) \in Nat
  BY LenProperties
<1>3. Reverse(q) \in Seq(S)
  <2>1. Reverse(q) \in UNION {[1..n -> S] : n \in Nat}
    BY <1>1, <1>2
  <2>2. QED
    BY <2>1, SeqDef
<1>4. DOMAIN Reverse(q) = 1..Len(q) /\ DOMAIN Reverse(q) = 1..Len(Reverse(q))
  BY <1>1, <1>3, LenProperties
<1>5. QED
  BY <1>2, <1>3, <1>4, LenProperties

\* Every name is below the root, and no shorter than what it is below.
LEMMA SuffixProperties ==
  ASSUME NEW n \in Names
  PROVE  /\ IsSuffix(Root, n)
         /\ \A m \in Names : IsSuffix(m, n) => Len(m) <= Len(n)
<1>1. n \in Seq(STRING) /\ Root \in Seq(STRING) /\ Root = <<>>
  BY NamesAreSequences DEF Root
<1>2. /\ Reverse(Root) \in Seq(STRING) /\ Len(Reverse(Root)) = 0
      /\ Reverse(n) \in Seq(STRING) /\ Len(Reverse(n)) \in Nat
  BY <1>1, ReverseProperties, EmptySeq, LenProperties
<1>3. IsPrefix(Reverse(Root), Reverse(n))
  <2>1. SubSeq(Reverse(Root), 1, 0) = <<>> /\ SubSeq(Reverse(n), 1, 0) = <<>>
    BY SubSeqEmpty
  <2>2. QED
    BY <1>2, <2>1 DEF IsPrefix
<1>4. ASSUME NEW m \in Names, IsSuffix(m, n)
      PROVE  Len(m) <= Len(n)
  BY <1>1, <1>4, NamesAreSequences, ReverseProperties DEF IsSuffix, IsPrefix
<1>5. QED
  BY <1>3, <1>4 DEF IsSuffix

\* The root's referral is always known, so that every name has one.
LEMMA NearestReferralType ==
  ASSUME TypeOK, NEW n \in Names
  PROVE  NearestReferral(n) \in Referrals
<1> DEFINE known == {m \in Names : IsSuffix(m, n) /\ m_referrals[m] # None}
           lengths == {Len(m) : m \in known}
<1>1. Root \in known
  BY SuffixProperties, RecursiveSlotAssumption DEF TypeOK
<1>2. lengths \in SUBSET Nat /\ lengths # {}
  BY <1>1, NamesAreSequences
<1>3. Len(n) \in Nat /\ \A k \in lengths : k <= Len(n)
  BY SuffixProperties, NamesAreSequences
<1>4. PICK longest \in lengths : \A k \in lengths : k <= longest
  BY <1>2, <1>3, GreatestNatural
<1>5. \E m \in known : \A k \in known : Len(k) <= Len(m)
  BY <1>4
<1>6. PICK m \in known : NearestReferral(n) = m_referrals[m]
  BY <1>5 DEF NearestReferral
<1>7. QED
  BY <1>6 DEF TypeOK

-----------------------------------------------------------------------------
(* What the helpers of the actions do *)

\* The call that resolve starts with, and the failure of a question.
LEMMA CallType ==
  ASSUME NEW q \in Names
  PROVE  /\ Call(q) \in Calls /\ Call(q).at = "look"
         /\ Fail(q) \in Answers
BY RecursiveSlotAssumption, EmptySeq
   DEF Call, Calls, Frames, Places, Fail, Answers, AnswerTypes, None

\* A slot whose stack is not empty is somewhere in it.
LEMMA StackProperties ==
  ASSUME TypeOK, NEW s \in Slots, stack[s] # <<>>
  PROVE  /\ stack[s] \in Seq(Calls)
         /\ Front(stack[s]) \in Seq(Calls)
         /\ Len(Front(stack[s])) = Len(stack[s]) - 1
         /\ Last(stack[s]) \in Calls
         /\ Len(stack[s]) \in Nat \ {0}
         /\ stack[s][1] \in Calls
         /\ \A i \in 1..Len(stack[s]) : stack[s][i] \in Calls
<1>1. stack[s] \in Seq(Calls)
  BY DEF TypeOK
<1>2. QED
  BY <1>1, FrontProperties, ElementOfSeq

\* When a call is put on top of those below it, the slot stands there.
LEMMA SetStackProperties ==
  ASSUME TypeOK, NEW s \in Slots, NEW calls \in Seq(Calls), SetStack(s, calls)
  PROVE  /\ stack' \in [Slots -> Seq(Calls)]
         /\ stack'[s] = calls
         /\ \A r \in Slots \ {s} : stack'[r] = stack[r]
BY DEF TypeOK, SetStack

LEMMA BecomeProperties ==
  ASSUME TypeOK, NEW s \in Slots, stack[s] # <<>>,
         NEW call \in Calls, Become(s, call)
  PROVE  /\ stack' \in [Slots -> Seq(Calls)]
         /\ stack'[s] # <<>> /\ Last(stack'[s]) = call
         /\ Len(stack'[s]) = Len(stack[s])
         /\ \A r \in Slots \ {s} : stack'[r] = stack[r]
<1> DEFINE calls == Append(Front(stack[s]), call)
<1>1. /\ calls \in Seq(Calls) /\ calls # <<>> /\ Last(calls) = call
      /\ Len(calls) = Len(stack[s]) - 1 + 1
  BY StackProperties, PushProperties
<1>2. Len(stack[s]) - 1 + 1 = Len(stack[s])
  BY StackProperties
<1>3. QED
  BY <1>1, <1>2, SetStackProperties DEF Become

\* An exception leaves a slot no deeper, and where it passes to the next name
\* server, or with a failed response.
LEMMA ThrowProperties ==
  ASSUME TypeOK, NEW s \in Slots, stack[s] # <<>>, Throw(s)
  PROVE  /\ stack' \in [Slots -> Seq(Calls)]
         /\ response' \in [Slots -> Responses \union {None}]
         /\ stack'[s] = <<>> \/ Last(stack'[s]).at = "next"
         /\ \/ Len(stack'[s]) < Len(stack[s])
            \/ /\ Len(stack'[s]) = Len(stack[s])
               /\ Last(stack[s]).try
         /\ \A r \in Slots \ {s} : stack'[r] = stack[r]
<1> DEFINE trying == {i \in DOMAIN stack[s] : stack[s][i].try}
           i == Max(trying)
           caller == [stack[s][i] EXCEPT !.at = "next", !.try = FALSE]
           below == SubSeq(stack[s], 1, i - 1)
           calls == Append(below, caller)
<1>1. /\ DOMAIN stack[s] = 1..Len(stack[s]) /\ Len(stack[s]) \in Nat \ {0}
      /\ stack[s] \in Seq(Calls)
  BY StackProperties, LenProperties
<1>2. CASE trying # {}
  <2>1. i \in trying
    <3>1. trying \in SUBSET Nat /\ \A k \in trying : k <= Len(stack[s])
      BY <1>1
    <3>2. QED
      BY <1>1, <1>2, <3>1, MaxProperties
  <2>2. i \in 1..Len(stack[s]) /\ stack[s][i] \in Calls /\ stack[s][i].try
    BY <1>1, <2>1, StackProperties
  <2> HIDE DEF i
  <2>3. caller \in Calls /\ caller.at = "next"
    BY <2>2 DEF Calls, Frames, Places
  <2>4. below \in Seq(Calls) /\ Len(below) = i - 1
    <3>1. i - 1 \in Nat /\ i - 1 <= Len(stack[s])
      BY <1>1, <2>2
    <3>2. QED
      BY <1>1, <3>1, BelowProperties
  <2> SUFFICES ASSUME SetStack(s, calls), UNCHANGED response
               PROVE  /\ stack' \in [Slots -> Seq(Calls)]
                      /\ stack'[s] # <<>> /\ Last(stack'[s]).at = "next"
                      /\ Len(stack'[s]) = i
                      /\ \A r \in Slots \ {s} : stack'[r] = stack[r]
    <3>1. SetStack(s, calls) /\ UNCHANGED response
      BY <1>2 DEF Throw, i
    <3>2. \/ i < Len(stack[s])
          \/ i = Len(stack[s]) /\ Last(stack[s]).try
      BY <1>1, <2>2 DEF Last
    <3>3. QED
      BY <3>1, <3>2 DEF TypeOK
  <2> HIDE DEF caller, below
  <2>5. /\ calls \in Seq(Calls) /\ calls # <<>>
        /\ Len(calls) = (i - 1) + 1
        /\ Last(calls) = caller
    BY <2>3, <2>4, PushProperties
  <2>6. Len(calls) = i
    BY <2>2, <2>5
  <2> HIDE DEF calls
  <2>7. QED
    BY <2>3, <2>5, <2>6, SetStackProperties
<1>3. CASE trying = {}
  <2>1. /\ SetStack(s, <<>>)
        /\ Respond(s, stack[s][1].question, Fail(stack[s][1].question))
    BY <1>3 DEF Throw
  <2>2. stack[s][1].question \in Names
    BY StackProperties DEF Calls, Frames
  <2>3. response' \in [Slots -> Responses \union {None}]
    BY <2>1, <2>2, CallType DEF Respond, Responses, TypeOK
  <2>4. <<>> \in Seq(Calls) /\ Len(<<>>) = 0
    BY EmptySeq
  <2>5. /\ stack' \in [Slots -> Seq(Calls)] /\ stack'[s] = <<>>
        /\ \A r \in Slots \ {s} : stack'[r] = stack[r]
    BY <2>1, <2>4, SetStackProperties
  <2>6. QED
    BY <1>1, <2>3, <2>4, <2>5
<1>4. QED
  BY <1>2, <1>3

\* check_loop keeps what is fresh, and puts it in the trail: if anything is,
\* the call is about to ask it, and otherwise passes to the next name server.
LEMMA CheckLoopProperties ==
  ASSUME TypeOK, NEW s \in Slots, Trailed(s),
         NEW below \in Seq(Calls), NEW call \in Frames,
         NEW addresses \in SUBSET Addresses, NEW try \in BOOLEAN,
         CheckLoop(s, below, call, addresses, try), UNCHANGED sent
  PROVE  /\ stack' \in [Slots -> Seq(Calls)]
         /\ m_query_trail' \in [Slots -> SUBSET (Names \X Addresses)]
         /\ stack'[s] # <<>> /\ Last(stack'[s]).at \in {"ask", "next"}
         /\ Len(stack'[s]) = Len(below) + 1
         /\ Trailed(s)'
         /\ \A r \in Slots \ {s} : /\ stack'[r] = stack[r]
                                   /\ m_query_trail'[r] = m_query_trail[r]
<1> DEFINE fresh == {ip \in addresses :
                       <<call.question, ip>> \notin m_query_trail[s]}
           querying == [call EXCEPT !.addresses = fresh,
                          !.at = IF fresh = {} THEN "next" ELSE "ask",
                          !.try = try /\ fresh # {}]
           asked == {call.question} \X fresh
<1>1. /\ m_query_trail' = [m_query_trail EXCEPT ![s] = @ \union asked]
      /\ SetStack(s, Append(below, querying))
  BY DEF CheckLoop
<1>2. /\ call.question \in Names /\ fresh \in SUBSET Addresses
      /\ asked \in SUBSET (Names \X Addresses)
  BY DEF Frames
<1>3. /\ querying \in Calls /\ querying.at \in {"ask", "next"}
      /\ querying.question = call.question /\ querying.addresses = fresh
  BY <1>2 DEF Calls, Frames, Places
<1>4. asked \intersect m_query_trail[s] = {}
  OBVIOUS
<1>5. /\ m_query_trail' \in [Slots -> SUBSET (Names \X Addresses)]
      /\ m_query_trail'[s] = m_query_trail[s] \union asked
      /\ \A r \in Slots \ {s} : m_query_trail'[r] = m_query_trail[r]
  BY <1>1, <1>2 DEF TypeOK
<1> HIDE DEF querying
<1>6. /\ Append(below, querying) \in Seq(Calls)
      /\ Append(below, querying) # <<>>
      /\ Len(Append(below, querying)) = Len(below) + 1
      /\ Last(Append(below, querying)) = querying
  BY <1>3, PushProperties
<1>7. /\ stack' \in [Slots -> Seq(Calls)]
      /\ stack'[s] = Append(below, querying)
      /\ \A r \in Slots \ {s} : stack'[r] = stack[r]
  BY <1>1, <1>6, SetStackProperties
<1>8. Trailed(s)'
  <2>1. /\ Last(stack'[s]).question = call.question
        /\ Last(stack'[s]).addresses = fresh
    BY <1>3, <1>6, <1>7
  <2>2. sent'[s] \subseteq m_query_trail[s]
    BY DEF Trailed
  <2> HIDE DEF fresh
  <2>3. QED
    BY <1>4, <1>5, <2>1, <2>2 DEF Trailed
<1>9. QED
  BY <1>3, <1>5, <1>6, <1>7, <1>8

\* query_nameserver starts with a referral where its call of resolve stands.
LEMMA QueryNameserverProperties ==
  ASSUME TypeOK, NEW s \in Slots, Trailed(s), stack[s] # <<>>,
         NEW referral \in Referrals,
         QueryNameserver(s, referral), UNCHANGED sent
  PROVE  /\ stack' \in [Slots -> Seq(Calls)]
         /\ m_query_trail' \in [Slots -> SUBSET (Names \X Addresses)]
         /\ stack'[s] # <<>> /\ Last(stack'[s]).at \in {"ask", "next"}
         /\ Len(stack'[s]) = Len(stack[s])
         /\ Trailed(s)'
         /\ \A r \in Slots \ {s} : /\ stack'[r] = stack[r]
                                   /\ m_query_trail'[r] = m_query_trail[r]
<1> DEFINE call == [Last(stack[s]) EXCEPT !.zone = referral.zone,
                                          !.left = referral.ns]
           below == Front(stack[s])
<1>1. referral.glue \in SUBSET Addresses
  BY DEF Referrals
<1>2. call \in Frames
  BY StackProperties, ZenonT(60) DEF Calls, Frames, Referrals
<1>3. /\ below \in Seq(Calls) /\ Len(below) = Len(stack[s]) - 1
      /\ Len(stack[s]) - 1 + 1 = Len(stack[s])
  BY StackProperties
<1>4. CheckLoop(s, below, call, referral.glue, TRUE)
  BY DEF QueryNameserver
<1> HIDE DEF call, below
<1>5. QED
  BY <1>1, <1>2, <1>3, <1>4, CheckLoopProperties

-----------------------------------------------------------------------------
(* The invariant is kept, action by action *)

LEMMA InitInv == Init => IInv
<1> SUFFICES ASSUME Init PROVE IInv
  OBVIOUS
<1>1. TypeOK
  BY RecursiveSlotAssumption, EmptySeq DEF Init, TypeOK, None, Referrals
<1>2. ASSUME NEW s \in Slots PROVE Trailed(s) /\ Shallow(s)
  <2>1. stack[s] = <<>> /\ sent[s] = {} /\ Len(<<>>) = 0
    BY EmptySeq DEF Init
  <2>2. Trailed(s)
    BY <2>1 DEF Trailed, IsAt
  <2>3. QED
    BY <2>1, <2>2, RecursiveSlotAssumption DEF Shallow
<1>3. QED
  BY <1>1, <1>2 DEF IInv

\* Slots have nothing of each other's: a step of one leaves the rest alone.
LEMMA OneSlotSteps ==
  ASSUME IInv, NEW s \in Slots, TypeOK', Trailed(s)', Shallow(s)',
         \A r \in Slots \ {s} : /\ stack'[r] = stack[r] /\ sent'[r] = sent[r]
                                /\ m_query_trail'[r] = m_query_trail[r]
  PROVE  IInv'
<1>1. ASSUME NEW r \in Slots PROVE Trailed(r)' /\ Shallow(r)'
  <2>1. CASE r = s
    BY <2>1
  <2>2. CASE r # s
    BY <2>2 DEF IInv, Trailed, Shallow, IsAt
  <2>3. QED
    BY <2>1, <2>2
<1>2. QED
  BY <1>1 DEF IInv

\* A slot that is past the depth test is not too deep, and stays so unless it
\* calls resolve.
LEMMA NoDeeper ==
  ASSUME IInv, NEW s \in Slots, stack[s] # <<>>, ~IsAt(s, "look")
  PROVE  /\ Len(stack[s]) <= MaxRecursionDepth
         /\ \A n \in Nat : n <= Len(stack[s]) =>
              n <= MaxRecursionDepth + 1 /\ n # MaxRecursionDepth + 1
BY StackProperties, RecursiveSlotAssumption DEF IInv, Shallow

\* A slot that is not about to ask only has to have its trail.
LEMMA NotAsking ==
  ASSUME IInv, NEW s \in Slots, ~IsAt(s, "ask")',
         UNCHANGED <<m_query_trail, sent>>
  PROVE  Trailed(s)'
BY DEF IInv, Trailed

LEMMA ProcessKeeps ==
  ASSUME IInv, NEW s \in Slots, NEW q \in Asked, Process(s, q)
  PROVE  IInv'
<1>1. q \in Names
  BY RecursiveSlotAssumption
<1>2. Call(q) \in Calls /\ Call(q).at = "look"
  BY <1>1, CallType
<1>3. /\ <<Call(q)>> \in Seq(Calls) /\ <<Call(q)>> # <<>>
      /\ Len(<<Call(q)>>) = 1 /\ Last(<<Call(q)>>) = Call(q)
  BY <1>2, OneProperties
<1>4. /\ stack' \in [Slots -> Seq(Calls)] /\ stack'[s] # <<>>
      /\ Last(stack'[s]).at = "look" /\ Len(stack'[s]) = 1
      /\ \A r \in Slots \ {s} : stack'[r] = stack[r]
  BY <1>2, <1>3, SetStackProperties DEF Process, IInv
<1>5. TypeOK'
  BY <1>4 DEF Process, TypeOK, IInv, cache
<1>6. Trailed(s)'
  BY <1>4 DEF Process, Trailed, IsAt, IInv, TypeOK
<1>7. Shallow(s)'
  BY <1>4, RecursiveSlotAssumption DEF Shallow, IsAt
<1>8. QED
  BY <1>4, <1>5, <1>6, <1>7, OneSlotSteps DEF Process, IInv, TypeOK

LEMMA ResetFailsKeeps ==
  ASSUME IInv, NEW s \in Slots, ResetFails(s)
  PROVE  IInv'
<1>1. TypeOK'
  BY DEF ResetFails, TypeOK, IInv, cache
<1>2. Trailed(s)' /\ Shallow(s)'
  BY DEF ResetFails, Trailed, Shallow, IsAt, IInv, TypeOK
<1>3. QED
  BY <1>1, <1>2, OneSlotSteps DEF ResetFails, IInv, TypeOK

\* An exception, wherever the slot stands when it is thrown.
LEMMA ThrowKeeps ==
  ASSUME IInv, NEW s \in Slots, stack[s] # <<>>, Throw(s),
         UNCHANGED <<cache, m_query_trail, sent, late>>
  PROVE  IInv'
<1>1. TypeOK
  BY DEF IInv
<1>2. TypeOK'
  BY <1>1, ThrowProperties DEF TypeOK, cache
<1>3. Trailed(s)'
  <2>1. ~IsAt(s, "ask")'
    BY <1>1, ThrowProperties DEF IsAt
  <2>2. QED
    BY <2>1, NotAsking
<1>4. Shallow(s)'
  <2>1. Len(stack'[s]) \in Nat /\ Len(stack[s]) \in Nat
    BY <1>1, StackProperties, ThrowProperties, LenProperties
  <2>2. CASE Len(stack'[s]) < Len(stack[s])
    BY <2>1, <2>2, RecursiveSlotAssumption DEF IInv, Shallow
  <2>3. CASE Len(stack'[s]) = Len(stack[s]) /\ Last(stack[s]).try
    <3>1. ~IsAt(s, "look")
      BY <1>1, <2>3, StackProperties DEF IsAt, Calls
    <3>2. QED
      BY <2>1, <2>3, <3>1, NoDeeper DEF Shallow
  <2>4. QED
    BY <1>1, <2>2, <2>3, ThrowProperties
<1>5. QED
  BY <1>1, <1>2, <1>3, <1>4, ThrowProperties, OneSlotSteps

\* A step of the last call that neither asks nor changes what was asked.
LEMMA BecomeKeeps ==
  ASSUME IInv, NEW s \in Slots, stack[s] # <<>>, NEW call \in Calls,
         Become(s, call), call.at \notin {"ask", "look"},
         Len(stack[s]) <= MaxRecursionDepth,
         m_answers' \in [Names -> Answers \union {None}],
         UNCHANGED <<m_referrals, m_query_trail, sent, late, response>>
  PROVE  IInv'
<1>1. TypeOK
  BY DEF IInv
<1>2. TypeOK'
  BY <1>1, BecomeProperties DEF TypeOK
<1>3. Trailed(s)'
  <2>1. ~IsAt(s, "ask")'
    BY <1>1, BecomeProperties DEF IsAt
  <2>2. QED
    BY <2>1, NotAsking
<1>4. Shallow(s)'
  <2>1. Len(stack'[s]) \in Nat /\ Len(stack'[s]) <= MaxRecursionDepth
    BY <1>1, BecomeProperties, StackProperties
  <2>2. QED
    BY <2>1, RecursiveSlotAssumption DEF Shallow
<1>5. QED
  BY <1>1, <1>2, <1>3, <1>4, BecomeProperties, OneSlotSteps

LEMMA LookKeeps ==
  ASSUME IInv, NEW s \in Slots, Look(s)
  PROVE  IInv'
<1> DEFINE call == Last(stack[s])
           known == m_answers[call.question]
<1>1. /\ stack[s] # <<>> /\ call.at = "look"
      /\ UNCHANGED <<cache, m_query_trail, sent, late>>
  BY DEF Look, IsAt
<1>2. /\ call \in Calls /\ call.question \in Names /\ ~call.try
      /\ known \in Answers \union {None} /\ Len(stack[s]) \in Nat
  BY <1>1, StackProperties DEF IInv, TypeOK, Calls, Frames
<1>3. CASE Len(stack[s]) > MaxRecursionDepth
  BY <1>1, <1>3, ThrowKeeps DEF Look
<1>4. CASE ~(Len(stack[s]) > MaxRecursionDepth)
  <2>1. Len(stack[s]) <= MaxRecursionDepth
    BY <1>2, <1>4, RecursiveSlotAssumption
  <2>2. PICK next \in {[call EXCEPT !.at = "refer"]} \union
                      {[call EXCEPT !.at = "done", !.result = a] : a \in Answers} :
          Become(s, next) /\ UNCHANGED response
    BY <1>2, <1>4 DEF Look
  <2>3. next \in Calls /\ next.at \in {"refer", "done"}
    BY <1>2, <2>2, ZenonT(60) DEF Calls, Frames, Places
  <2>4. QED
    BY <1>1, <2>1, <2>2, <2>3, BecomeKeeps DEF cache, IInv, TypeOK
<1>5. QED
  BY <1>3, <1>4

\* A query starts anew with a referral, be it known or received.
LEMMA QueryKeeps ==
  ASSUME IInv, NEW s \in Slots, stack[s] # <<>>, ~IsAt(s, "look"),
         NEW referral \in Referrals, QueryNameserver(s, referral),
         m_referrals' = [m_referrals EXCEPT ![referral.zone] = referral]
           \/ UNCHANGED m_referrals,
         UNCHANGED <<m_answers, sent, late, response>>
  PROVE  IInv'
<1>1. TypeOK /\ Trailed(s)
  BY DEF IInv
<1>2. /\ m_referrals' \in [Names -> Referrals \union {None}]
      /\ m_referrals'[Root] # None
  <2>1. referral.zone \in Names /\ referral # None
    BY DEF Referrals, None
  <2>2. CASE UNCHANGED m_referrals
    BY <1>1, <2>2 DEF TypeOK
  <2>3. CASE m_referrals' = [m_referrals EXCEPT ![referral.zone] = referral]
    BY <1>1, <2>1, <2>3, RecursiveSlotAssumption DEF TypeOK
  <2>4. QED
    BY <2>2, <2>3
<1>3. TypeOK'
  BY <1>1, <1>2, QueryNameserverProperties DEF TypeOK
<1>4. Shallow(s)'
  <2>1. Len(stack'[s]) \in Nat /\ Len(stack'[s]) = Len(stack[s])
    BY <1>1, StackProperties, QueryNameserverProperties
  <2>2. QED
    BY <2>1, NoDeeper, RecursiveSlotAssumption DEF Shallow
<1>5. QED
  BY <1>1, <1>3, <1>4, QueryNameserverProperties, OneSlotSteps

\* The depth test lets only calls at "look" be too deep, and those are going
\* to throw: Refer is past it.
LEMMA ReferKeeps ==
  ASSUME IInv, NEW s \in Slots, Refer(s)
  PROVE  IInv'
<1>1. stack[s] # <<>> /\ ~IsAt(s, "look")
  BY DEF Refer, IsAt
<1>2. NearestReferral(Last(stack[s]).question) \in Referrals
  BY <1>1, StackProperties, NearestReferralType DEF IInv, Calls, Frames
<1>3. QED
  BY <1>1, <1>2, QueryKeeps DEF Refer, cache

\* What is sent was in the trail before.
LEMMA SendKeeps ==
  ASSUME IInv, NEW s \in Slots, Send(s)
  PROVE  IInv'
<1> DEFINE call == Last(stack[s])
           asked == {call.question} \X call.addresses
<1>1. stack[s] # <<>> /\ ~IsAt(s, "look") /\ TypeOK
  BY DEF Send, IsAt, IInv
<1>2. CASE late[s]
  BY <1>1, <1>2, ThrowKeeps DEF Send, cache
<1>3. CASE ~late[s]
  <2>1. /\ sent' = [sent EXCEPT ![s] = @ \union asked]
        /\ Become(s, [call EXCEPT !.at = "wait"])
        /\ UNCHANGED <<cache, m_query_trail, late, response>>
    BY <1>3 DEF Send
  <2>2. /\ call \in Calls /\ [call EXCEPT !.at = "wait"] \in Calls
        /\ [call EXCEPT !.at = "wait"].at = "wait"
    BY <1>1, StackProperties, ZenonT(60) DEF Calls, Frames, Places, Send, IsAt
  <2>3. asked \subseteq m_query_trail[s]
    BY DEF Send, IInv, Trailed
  <2>4. /\ stack' \in [Slots -> Seq(Calls)]
        /\ stack'[s] # <<>> /\ Last(stack'[s]).at = "wait"
        /\ Len(stack'[s]) = Len(stack[s])
        /\ \A r \in Slots \ {s} : stack'[r] = stack[r]
    BY <1>1, <2>1, <2>2, BecomeProperties
  <2>5. /\ sent' \in [Slots -> SUBSET (Names \X Addresses)]
        /\ sent'[s] = sent[s] \union asked
        /\ \A r \in Slots \ {s} : sent'[r] = sent[r]
    <3>1. asked \in SUBSET (Names \X Addresses)
      BY <2>2 DEF Calls, Frames
    <3>2. QED
      BY <1>1, <2>1, <3>1 DEF TypeOK
  <2>6. TypeOK'
    BY <1>1, <2>1, <2>4, <2>5 DEF TypeOK, cache
  <2>7. Trailed(s)'
    BY <2>1, <2>3, <2>4, <2>5 DEF IInv, Trailed, IsAt
  <2>8. Shallow(s)'
    BY <1>1, <2>4, NoDeeper, StackProperties DEF Shallow
  <2>9. QED
    BY <2>1, <2>4, <2>5, <2>6, <2>7, <2>8, OneSlotSteps
<1>4. QED
  BY <1>2, <1>3

\* classify_response makes a referral that does not lead further down a
\* failure, and leaves all else as it is.
LEMMA ClassifyProperties ==
  ASSUME NEW call \in Calls, NEW ip \in call.addresses,
         NEW raw \in Replies(call.question, ip)
  PROVE  LET reply == Classify(call, raw)
         IN  /\ reply.type \in AnswerTypes => reply \in Answers
             /\ reply.type = "additional" => reply \in Additional
             /\ reply.type = "referral" =>
                  reply \in Referrals /\ IsSubdomainOf(reply.zone, call.zone)
             /\ reply.type = "alias" => reply \in Aliases
<1>1. call.question \in Names /\ ip \in Addresses
  BY DEF Calls, Frames
<1>2. raw \in Answers \union Additional \union Referrals \union Aliases
  BY <1>1, RecursiveSlotAssumption
<1>3. /\ raw.type \in AnswerTypes => raw \in Answers
      /\ raw.type = "additional" => raw \in Additional
      /\ raw.type = "referral" => raw \in Referrals
      /\ raw.type = "alias" => raw \in Aliases
  BY <1>2 DEF Answers, Additional, Referrals, Aliases, AnswerTypes
<1>4. CASE raw.type = "referral" /\ ~IsSubdomainOf(raw.zone, call.zone)
  <2>1. Classify(call, raw) = Fail(call.question)
    BY <1>4 DEF Classify
  <2>2. /\ Fail(call.question) \in Answers
        /\ Fail(call.question).type = "fail"
    BY <1>1, CallType DEF Fail
  <2>3. QED
    BY <2>1, <2>2
<1>5. CASE ~(raw.type = "referral" /\ ~IsSubdomainOf(raw.zone, call.zone))
  BY <1>3, <1>5 DEF Classify
<1>6. QED
  BY <1>4, <1>5

\* What add_answer puts in the cache, if anything, is an answer.
LEMMA AddAnswerType ==
  ASSUME TypeOK, NEW q \in Names, NEW answer \in Answers, AddAnswer(q, answer)
  PROVE  m_answers' \in [Names -> Answers \union {None}]
BY DEF TypeOK, AddAnswer

\* Calling resolve from the last call, which is past the depth test.
LEMMA CallResolveKeeps ==
  ASSUME IInv, NEW s \in Slots, stack[s] # <<>>, ~IsAt(s, "look"),
         NEW caller \in Calls, NEW q \in Names,
         SetStack(s, Append(Front(stack[s]), caller) \o <<Call(q)>>),
         UNCHANGED <<cache, m_query_trail, sent, late, response>>
  PROVE  IInv'
<1> DEFINE below == Front(stack[s])
           calls == Append(below, caller) \o <<Call(q)>>
<1>1. TypeOK
  BY DEF IInv
<1>2. below \in Seq(Calls) /\ Len(below) = Len(stack[s]) - 1
  BY <1>1, StackProperties
<1>3. Call(q) \in Calls /\ Call(q).at = "look"
  BY CallType
<1> HIDE DEF below
<1>4. /\ calls \in Seq(Calls) /\ calls # <<>>
      /\ Len(calls) = Len(below) + 2 /\ Last(calls) = Call(q)
  BY <1>2, <1>3, PushTwoProperties
<1>5. SetStack(s, calls)
  BY DEF below
<1> HIDE DEF calls
<1>6. /\ stack' \in [Slots -> Seq(Calls)] /\ stack'[s] = calls
      /\ \A r \in Slots \ {s} : stack'[r] = stack[r]
  BY <1>1, <1>4, <1>5, SetStackProperties
<1>7. TypeOK'
  BY <1>1, <1>6 DEF TypeOK, cache
<1>8. IsAt(s, "look")'
  BY <1>3, <1>4, <1>6 DEF IsAt
<1>9. Trailed(s)'
  BY <1>8, NotAsking DEF IsAt
<1>10. Shallow(s)'
  <2>1. Len(stack'[s]) = Len(stack[s]) + 1
    BY <1>1, <1>2, <1>4, <1>6, StackProperties
  <2>2. QED
    BY <1>1, <1>8, <2>1, NoDeeper, StackProperties, RecursiveSlotAssumption
       DEF Shallow
<1>11. QED
  BY <1>6, <1>7, <1>9, <1>10, OneSlotSteps

LEMMA ReceiveKeeps ==
  ASSUME IInv, NEW s \in Slots, Receive(s)
  PROVE  IInv'
<1> DEFINE call == Last(stack[s])
<1>1. stack[s] # <<>> /\ ~IsAt(s, "look") /\ TypeOK /\ call.at = "wait"
  BY DEF Receive, IsAt, IInv
<1>2. /\ call \in Calls /\ call.question \in Names
      /\ Len(stack[s]) <= MaxRecursionDepth
  BY <1>1, StackProperties, NoDeeper DEF Calls, Frames
<1>3. UNCHANGED <<sent, late, response>>
  BY DEF Receive
<1>4. PICK ip \in call.addresses : \E raw \in Replies(call.question, ip) :
        \/ ReceiveAnswer(s, Classify(call, raw))
        \/ ReceiveAdditional(s, Classify(call, raw))
        \/ ReceiveReferral(s, Classify(call, raw))
        \/ ReceiveAlias(s, Classify(call, raw))
  BY DEF Receive
<1> PICK raw \in Replies(call.question, ip) :
        \/ ReceiveAnswer(s, Classify(call, raw))
        \/ ReceiveAdditional(s, Classify(call, raw))
        \/ ReceiveReferral(s, Classify(call, raw))
        \/ ReceiveAlias(s, Classify(call, raw))
  BY <1>4
<1> DEFINE reply == Classify(call, raw)
<1>5. /\ reply.type \in AnswerTypes => reply \in Answers
      /\ reply.type = "additional" => reply \in Additional
      /\ reply.type = "referral" => reply \in Referrals
      /\ reply.type = "alias" => reply \in Aliases
  BY <1>2, ClassifyProperties
<1> HIDE DEF reply
<1>6. CASE ReceiveAnswer(s, reply)
  <2> DEFINE next == [call EXCEPT !.at = "done", !.result = reply, !.try = FALSE]
  <2>1. next \in Calls /\ next.at = "done"
    BY <1>2, <1>5, <1>6 DEF ReceiveAnswer, Calls, Frames, Places
  <2>2. m_answers' \in [Names -> Answers \union {None}]
    BY <1>1, <1>2, <1>5, <1>6, AddAnswerType DEF ReceiveAnswer
  <2>3. Become(s, next) /\ UNCHANGED <<m_referrals, m_query_trail>>
    BY <1>6 DEF ReceiveAnswer
  <2> HIDE DEF next
  <2>4. QED
    BY <1>1, <1>2, <1>3, <2>1, <2>2, <2>3, BecomeKeeps
<1>7. CASE ReceiveAdditional(s, reply)
  <2> DEFINE answer == [reply EXCEPT !.type = "data"]
             next == [call EXCEPT !.at = "done", !.result = answer, !.try = FALSE]
  <2>1. answer \in Answers
    BY <1>5, <1>7 DEF ReceiveAdditional, Additional, Answers, AnswerTypes
  <2>2. Become(s, next) /\ UNCHANGED <<cache, m_query_trail>>
    BY <1>7 DEF ReceiveAdditional
  <2> HIDE DEF answer
  <2>3. next \in Calls /\ next.at = "done"
    BY <1>2, <2>1 DEF Calls, Frames, Places
  <2> HIDE DEF next
  <2>4. QED
    BY <1>1, <1>2, <1>3, <2>2, <2>3, BecomeKeeps DEF cache, TypeOK
<1>8. CASE ReceiveReferral(s, reply)
  <2>1. reply \in Referrals
    BY <1>5, <1>8 DEF ReceiveReferral
  <2>2. QED
    BY <1>1, <1>3, <1>8, <2>1, QueryKeeps DEF ReceiveReferral
<1>9. CASE ReceiveAlias(s, reply)
  <2> DEFINE caller == [call EXCEPT !.at = "alias"]
  <2>1. reply.target \in Names
    BY <1>5, <1>9 DEF ReceiveAlias, Aliases
  <2>2. caller \in Calls
    BY <1>2 DEF Calls, Frames, Places
  <2>3. /\ SetStack(s, Append(Front(stack[s]), caller) \o <<Call(reply.target)>>)
        /\ UNCHANGED <<cache, m_query_trail>>
    BY <1>9 DEF ReceiveAlias
  <2> HIDE DEF caller
  <2>4. QED
    BY <1>1, <1>3, <2>1, <2>2, <2>3, CallResolveKeeps
<1>10. QED
  BY <1>6, <1>7, <1>8, <1>9 DEF reply

LEMMA NoReplyKeeps ==
  ASSUME IInv, NEW s \in Slots, NoReply(s)
  PROVE  IInv'
<1> DEFINE next == [Last(stack[s]) EXCEPT !.at = "next", !.try = FALSE]
<1>1. stack[s] # <<>> /\ ~IsAt(s, "look") /\ TypeOK
  BY DEF NoReply, IsAt, IInv
<1>2. next \in Calls /\ next.at = "next"
  BY <1>1, StackProperties, ZenonT(60) DEF Calls, Frames, Places
<1>3. Len(stack[s]) <= MaxRecursionDepth
  BY <1>1, NoDeeper
<1>4. Become(s, next) /\ UNCHANGED <<cache, m_query_trail, sent, late, response>>
  BY DEF NoReply
<1> HIDE DEF next
<1>5. QED
  BY <1>1, <1>2, <1>3, <1>4, BecomeKeeps DEF cache, TypeOK

LEMMA ErrorKeeps ==
  ASSUME IInv, NEW s \in Slots, Error(s)
  PROVE  IInv'
<1>1. stack[s] # <<>> /\ Throw(s)
  BY DEF Error, IsAt
<1>2. QED
  BY <1>1, ThrowKeeps DEF Error

LEMMA NextNameserverKeeps ==
  ASSUME IInv, NEW s \in Slots, NextNameserver(s)
  PROVE  IInv'
<1> DEFINE call == Last(stack[s])
<1>1. /\ stack[s] # <<>> /\ ~IsAt(s, "look") /\ TypeOK /\ call.at = "next"
      /\ UNCHANGED <<cache, m_query_trail, sent, late, response>>
  BY DEF NextNameserver, IsAt, IInv
<1>2. /\ call \in Calls /\ call.question \in Names /\ call.left \in Seq(Names)
      /\ Len(stack[s]) <= MaxRecursionDepth
  BY <1>1, StackProperties, NoDeeper DEF Calls, Frames
<1>3. CASE call.left = <<>>
  <2> DEFINE next == [call EXCEPT !.at = "done", !.result = Fail(call.question)]
  <2>1. Fail(call.question) \in Answers
    BY <1>2, CallType
  <2>2. next \in Calls /\ next.at = "done"
    BY <1>1, <1>2, <2>1 DEF Calls, Frames, Places
  <2>3. Become(s, next)
    BY <1>3 DEF NextNameserver
  <2> HIDE DEF next
  <2>4. QED
    BY <1>1, <1>2, <2>2, <2>3, BecomeKeeps DEF cache, TypeOK
<1>4. CASE call.left # <<>>
  <2> DEFINE caller == [call EXCEPT !.at = "server", !.left = Tail(@)]
  <2>1. Head(call.left) \in Names /\ Tail(call.left) \in Seq(Names)
    BY <1>2, <1>4, HeadTailProperties
  <2>2. caller \in Calls
    BY <1>1, <1>2, <2>1 DEF Calls, Frames, Places
  <2>3. SetStack(s, Append(Front(stack[s]), caller)
                      \o <<Call(Head(call.left))>>)
    BY <1>4 DEF NextNameserver
  <2> HIDE DEF caller
  <2>4. QED
    BY <1>1, <2>1, <2>2, <2>3, CallResolveKeeps
<1>5. QED
  BY <1>3, <1>4

\* Returning from a call of resolve that was not the first.
LEMMA CallerProperties ==
  ASSUME TypeOK, NEW s \in Slots, stack[s] # <<>>, Len(stack[s]) # 1
  PROVE  /\ Front(Front(stack[s])) \in Seq(Calls)
         /\ Len(Front(Front(stack[s]))) = Len(stack[s]) - 2
         /\ Caller(s) \in Calls /\ Len(stack[s]) - 1 \in Nat
<1>1. /\ Front(stack[s]) \in Seq(Calls)
      /\ Len(Front(stack[s])) = Len(stack[s]) - 1
      /\ Len(stack[s]) \in Nat \ {0, 1}
  BY StackProperties
<1> DEFINE n == Len(stack[s])
<1>1a. n \in Nat /\ n - 1 \in 1..n /\ n - 1 # 0
  <2>1. n \in Nat \ {0, 1}
    BY <1>1
  <2> HIDE DEF n
  <2>2. QED
    BY <2>1
<1>2. Front(stack[s]) # <<>>
  <2>1. Len(<<>>) = 0
    BY EmptySeq
  <2>2. Len(Front(stack[s])) # 0
    BY <1>1, <1>1a
  <2>3. QED
    BY <2>1, <2>2
<1>3. /\ Front(Front(stack[s])) \in Seq(Calls)
      /\ Len(Front(Front(stack[s]))) = (Len(stack[s]) - 1) - 1
  BY <1>1, <1>2, FrontProperties
<1>4. Len(stack[s]) - 1 \in 1..Len(stack[s])
  BY <1>1a
<1>5. Caller(s) \in Calls
  BY <1>4, StackProperties DEF Caller
<1>6. (Len(stack[s]) - 1) - 1 = Len(stack[s]) - 2 /\ Len(stack[s]) - 1 \in Nat
  BY <1>1
<1>7. QED
  BY <1>3, <1>5, <1>6

LEMMA ReturnToServerKeeps ==
  ASSUME IInv, NEW s \in Slots, stack[s] # <<>>, ~IsAt(s, "look"),
         Len(stack[s]) # 1, NEW result \in Answers,
         ReturnToServer(s, result), UNCHANGED <<sent, late>>
  PROVE  IInv'
<1> DEFINE below == Front(Front(stack[s]))
           addresses == IF /\ result.type = "data"
                           /\ result.owner = Last(stack[s]).question
                        THEN result.addresses ELSE {}
<1>1. TypeOK /\ Trailed(s)
  BY DEF IInv
<1>2. /\ below \in Seq(Calls) /\ Len(below) = Len(stack[s]) - 2
      /\ Caller(s) \in Frames
  BY <1>1, CallerProperties DEF Calls
<1>3. addresses \in SUBSET Addresses
  BY DEF Answers
<1>4. CheckLoop(s, below, Caller(s), addresses, FALSE)
  BY DEF ReturnToServer
<1> HIDE DEF below, addresses
<1>5. /\ stack' \in [Slots -> Seq(Calls)]
      /\ m_query_trail' \in [Slots -> SUBSET (Names \X Addresses)]
      /\ Len(stack'[s]) = Len(below) + 1
      /\ Trailed(s)'
      /\ \A r \in Slots \ {s} : /\ stack'[r] = stack[r]
                                /\ m_query_trail'[r] = m_query_trail[r]
  BY <1>1, <1>2, <1>3, <1>4, CheckLoopProperties
<1>6. TypeOK'
  BY <1>1, <1>5 DEF TypeOK, ReturnToServer, cache
<1>7. Shallow(s)'
  <2>1. Len(stack'[s]) = Len(stack[s]) - 1 /\ Len(stack[s]) - 1 \in Nat
        /\ Len(stack[s]) \in Nat
    BY <1>1, <1>2, <1>5, StackProperties, CallerProperties
  <2>2. QED
    BY <2>1, NoDeeper DEF Shallow
<1>8. QED
  BY <1>5, <1>6, <1>7, OneSlotSteps

LEMMA ReturnToAliasKeeps ==
  ASSUME IInv, NEW s \in Slots, stack[s] # <<>>, ~IsAt(s, "look"),
         Len(stack[s]) # 1, NEW result \in Answers,
         ReturnToAlias(s, result), UNCHANGED <<sent, late>>
  PROVE  IInv'
<1> DEFINE below == Front(Front(stack[s]))
           next == [Caller(s) EXCEPT !.at = "done", !.result = result,
                                     !.try = FALSE]
           calls == Append(below, next)
<1>1. TypeOK
  BY DEF IInv
<1>2. /\ below \in Seq(Calls) /\ Len(below) = Len(stack[s]) - 2
      /\ Caller(s) \in Calls
  BY <1>1, CallerProperties
<1>3. /\ next \in Calls /\ next.at = "done" /\ Caller(s).question \in Names
  BY <1>2 DEF Calls, Frames, Places
<1>4. /\ AddAnswer(Caller(s).question, result) /\ SetStack(s, calls)
      /\ UNCHANGED <<m_referrals, m_query_trail, response>>
  BY DEF ReturnToAlias
<1> HIDE DEF below, next
<1>5. /\ calls \in Seq(Calls) /\ calls # <<>>
      /\ Len(calls) = Len(below) + 1 /\ Last(calls) = next
  BY <1>2, <1>3, PushProperties
<1> HIDE DEF calls
<1>6. /\ stack' \in [Slots -> Seq(Calls)] /\ stack'[s] = calls
      /\ \A r \in Slots \ {s} : stack'[r] = stack[r]
  BY <1>1, <1>4, <1>5, SetStackProperties
<1>7. m_answers' \in [Names -> Answers \union {None}]
  BY <1>1, <1>3, <1>4, AddAnswerType
<1>8. TypeOK'
  BY <1>1, <1>4, <1>6, <1>7 DEF TypeOK
<1>9. Trailed(s)'
  <2>1. ~IsAt(s, "ask")'
    BY <1>3, <1>5, <1>6 DEF IsAt
  <2>2. QED
    BY <1>4, <2>1, NotAsking
<1>10. Shallow(s)'
  <2>1. Len(stack'[s]) = Len(stack[s]) - 1 /\ Len(stack[s]) - 1 \in Nat
        /\ Len(stack[s]) \in Nat
    BY <1>1, <1>2, <1>5, <1>6, StackProperties, CallerProperties
  <2>2. QED
    BY <2>1, NoDeeper DEF Shallow
<1>11. QED
  BY <1>4, <1>6, <1>8, <1>9, <1>10, OneSlotSteps

LEMMA ReturnKeeps ==
  ASSUME IInv, NEW s \in Slots, Return(s)
  PROVE  IInv'
<1> DEFINE result == Last(stack[s]).result
<1>1. stack[s] # <<>> /\ ~IsAt(s, "look") /\ TypeOK /\ IsAt(s, "done")
  BY DEF Return, IsAt, IInv
<1>2. result \in Answers
  BY <1>1, StackProperties DEF Calls, IsAt
<1>3. UNCHANGED <<sent, late>>
  BY DEF Return
<1>4. CASE Len(stack[s]) = 1
  <2>1. ReturnToProcess(s, result)
    BY <1>4 DEF Return
  <2>2. stack[s][1].question \in Names
    BY <1>1, StackProperties DEF Calls, Frames
  <2> HIDE DEF result
  <2>3. response' \in [Slots -> Responses \union {None}]
    BY <1>1, <1>2, <2>1, <2>2
       DEF ReturnToProcess, Respond, Responses, TypeOK
  <2>4. <<>> \in Seq(Calls) /\ Len(<<>>) = 0
    BY EmptySeq
  <2>5. /\ stack' \in [Slots -> Seq(Calls)] /\ stack'[s] = <<>>
        /\ \A r \in Slots \ {s} : stack'[r] = stack[r]
    BY <1>1, <2>1, <2>4, SetStackProperties DEF ReturnToProcess
  <2>6. TypeOK' /\ UNCHANGED m_query_trail
    BY <1>1, <1>3, <2>1, <2>3, <2>5 DEF TypeOK, ReturnToProcess, cache
  <2>7. Trailed(s)'
    BY <1>3, <2>5, <2>6, NotAsking DEF IsAt
  <2>8. Shallow(s)'
    BY <2>4, <2>5, RecursiveSlotAssumption DEF Shallow
  <2>9. QED
    BY <1>3, <2>5, <2>6, <2>7, <2>8, OneSlotSteps
<1>5. CASE Len(stack[s]) # 1
  <2>1. ReturnToServer(s, result) \/ ReturnToAlias(s, result)
    BY <1>5 DEF Return
  <2> HIDE DEF result
  <2>2. QED
    BY <1>1, <1>2, <1>3, <1>5, <2>1, ReturnToServerKeeps, ReturnToAliasKeeps
<1>6. QED
  BY <1>4, <1>5

\* Time and the cache's own doings touch no slot's stack or trail.
LEMMA OthersKeep ==
  ASSUME IInv,
         \/ \E s \in Slots : Late(s)
         \/ \E n \in Names : ForgetAnswer(n) \/ ForgetReferral(n)
         \/ UNCHANGED vars
  PROVE  IInv'
<1>1. UNCHANGED <<stack, m_query_trail, sent>>
  BY DEF Late, ForgetAnswer, ForgetReferral, vars
<1>2. TypeOK'
  BY RecursiveSlotAssumption
     DEF IInv, TypeOK, Late, ForgetAnswer, ForgetReferral, vars, cache
<1>3. QED
  BY <1>1, <1>2 DEF IInv, Trailed, Shallow, IsAt

LEMMA NextKeeps == IInv /\ [Next]_vars => IInv'
<1> SUFFICES ASSUME IInv, [Next]_vars PROVE IInv'
  OBVIOUS
<1>1. ASSUME NEW s \in Slots, NEW q \in Asked, Process(s, q) PROVE IInv'
  BY <1>1, ProcessKeeps
<1>2. ASSUME NEW s \in Slots, Step(s) PROVE IInv'
  BY <1>2, LookKeeps, ReferKeeps, SendKeeps, ReceiveKeeps, NoReplyKeeps,
     ErrorKeeps, NextNameserverKeeps, ReturnKeeps DEF Step
<1>3. QED
  BY <1>1, <1>2, ResetFailsKeeps, OthersKeep DEF Next

THEOREM Invariance == Spec => []IInv
<1>1. Init => IInv
  BY InitInv
<1>2. IInv /\ [Next]_vars => IInv'
  BY NextKeeps
<1>3. QED
  BY <1>1, <1>2, PTL DEF Spec

-----------------------------------------------------------------------------
(* What follows *)

\* Every slot's stack holds calls of resolve that may be there, and only
\* answers reach the cache and the client.
THEOREM TypeCorrect == Spec => []TypeOK
<1>1. IInv => TypeOK
  BY DEF IInv
<1>2. QED
  BY <1>1, Invariance, PTL

\* No server is asked one question twice while a query is resolved, whatever
\* the servers reply and however often an exception cuts the recursion short.
THEOREM NoQuestionAskedTwice == Spec => []AskedOnce
<1>1. IInv => AskedOnce
  BY DEF IInv, Trailed, AskedOnce
<1>2. QED
  BY <1>1, Invariance, PTL

\* However referrals, name servers and aliases lead to each other, the
\* recursion of a slot goes no deeper than max_recursion_depth allows.
THEOREM BoundedRecursion == Spec => []RecursionBounded
<1>1. IInv => RecursionBounded
  BY DEF IInv, Shallow, RecursionBounded
<1>2. QED
  BY <1>1, Invariance, PTL

\* A referral comes into the cache only when a slot receives it, and only for
\* a zone that is below that of the servers the slot asked.
LEMMA StepsOfReferrals ==
  ASSUME IInv, [Next]_vars, NEW n \in Names,
         m_referrals'[n] \notin {m_referrals[n], None}
  PROVE  \E s \in Slots : IsAt(s, "wait") /\ IsSubdomainOf(n, Last(stack[s]).zone)
<1>1. m_referrals' # m_referrals /\ TypeOK
  BY DEF IInv
<1>2. ~ \E m \in Names : ForgetReferral(m)
  BY <1>1 DEF ForgetReferral, TypeOK
<1>3. PICK s \in Slots : Receive(s)
  BY <1>1, <1>2 DEF Next, Step, Process, ResetFails, Look, Refer, Send, NoReply, Error,
     NextNameserver, Return, ReturnToServer, ReturnToAlias, ReturnToProcess,
     Late, ForgetAnswer, vars, cache
<1> DEFINE call == Last(stack[s])
<1>4. IsAt(s, "wait") /\ call \in Calls
  BY <1>1, <1>3, StackProperties DEF Receive, IsAt
<1>5. PICK ip \in call.addresses : \E raw \in Replies(call.question, ip) :
        ReceiveReferral(s, Classify(call, raw))
  BY <1>1, <1>3 DEF Receive, ReceiveAnswer, ReceiveAdditional, ReceiveAlias,
     cache
<1>6. PICK raw \in Replies(call.question, ip) :
        ReceiveReferral(s, Classify(call, raw))
  BY <1>5
<1> DEFINE reply == Classify(call, raw)
<1>7. IsSubdomainOf(reply.zone, call.zone)
  BY <1>4, <1>6, ClassifyProperties DEF ReceiveReferral
<1> HIDE DEF reply
<1>8. m_referrals' = [m_referrals EXCEPT ![reply.zone] = reply]
  BY <1>6 DEF ReceiveReferral, reply
<1>9. n = reply.zone
  BY <1>1, <1>8 DEF TypeOK
<1>10. QED
  BY <1>4, <1>7, <1>9

\* What the cache knows of a zone is replaced only on the word of a server
\* that was asked as one for a zone above it.
THEOREM ReferralsComeFromAbove == Spec => ReferralsFromAbove
<1>1. IInv /\ [Next]_vars =>
        [\A n \in Names : m_referrals'[n] \notin {m_referrals[n], None} =>
           \E s \in Slots :
             IsAt(s, "wait") /\ IsSubdomainOf(n, Last(stack[s]).zone)]_vars
  BY StepsOfReferrals
<1>2. QED
  BY <1>1, Invariance, PTL DEF Spec, ReferralsFromAbove

-----------------------------------------------------------------------------
(* Servers that tell the truth *)

\* What a server that tells the truth may reply: the truth about the question
\* it was asked, that it failed, or an alias about which the same is true.
\* What it refers to is left open.
Truthful(truth) ==
  \A q \in Names, ip \in Addresses : \A reply \in Replies(q, ip) :
    /\ reply.type \in AnswerTypes => reply.type = "fail" \/ reply = truth[q]
    /\ reply.type = "additional" => [reply EXCEPT !.type = "data"] = truth[q]
    /\ reply.type = "alias" => truth[reply.target] = truth[q]

Right(truth, q, answer) ==
  answer.type \in {"none", "fail"} \/ answer = truth[q]

\* The cache and the responses have nothing wrong in them.
OnlyTruth(truth) ==
  /\ \A n \in Names : Right(truth, n, m_answers[n])
  /\ \A s \in Slots : response[s] # None =>
       Right(truth, response[s].question, response[s].answer)

\* Neither have the calls on a stack, and what is true of a call's question is
\* true of the one whose alias it follows.
Sincere(truth, calls) ==
  /\ \A i \in 1..Len(calls) : Right(truth, calls[i].question, calls[i].result)
  /\ \A i \in 1..Len(calls), j \in 1..Len(calls) :
       j = i + 1 /\ calls[i].at = "alias" =>
         truth[calls[j].question] = truth[calls[i].question]

Honest(truth) ==
  OnlyTruth(truth) /\ \A s \in Slots : Sincere(truth, stack[s])

TruthInv(truth) == IInv /\ Honest(truth)

\* A stack without some of its last calls.
Beneath(below, calls) ==
  /\ below \in Seq(Calls) /\ Len(below) < Len(calls)
  /\ \A i \in 1..Len(below) : below[i] = calls[i]

\* A call takes the place of one of a stack, with the same question, and what
\* was above it is gone.
LEMMA SincereReplaced ==
  ASSUME NEW truth, NEW calls \in Seq(Calls), Sincere(truth, calls),
         NEW below, Beneath(below, calls),
         NEW call \in Calls, call.question = calls[Len(below) + 1].question,
         Right(truth, call.question, call.result)
  PROVE  Sincere(truth, Append(below, call))
<1> DEFINE new == Append(below, call)
<1>1. /\ Len(new) = Len(below) + 1 /\ Len(below) \in Nat /\ Len(calls) \in Nat
      /\ \A i \in 1..Len(below) : new[i] = calls[i]
      /\ new[Len(below) + 1] = call
  BY AppendProperties, LenProperties DEF Beneath
<1>2. \A i \in 1..Len(new) : /\ i \in 1..Len(calls)
                             /\ new[i].question = calls[i].question
                             /\ i \in 1..Len(below) \/ new[i] = call
  BY <1>1 DEF Beneath
<1> HIDE DEF new
<1>3. ASSUME NEW i \in 1..Len(new)
      PROVE  Right(truth, new[i].question, new[i].result)
  <2>1. CASE i \in 1..Len(below)
    BY <1>1, <1>2, <2>1 DEF Sincere
  <2>2. CASE new[i] = call
    BY <2>2
  <2>3. QED
    BY <1>2, <2>1, <2>2
<1>4. ASSUME NEW i \in 1..Len(new), NEW j \in 1..Len(new),
             j = i + 1, new[i].at = "alias"
      PROVE  truth[new[j].question] = truth[new[i].question]
  <2>1. i \in 1..Len(below)
    BY <1>1, <1>4
  <2>2. calls[i].at = "alias" /\ i \in 1..Len(calls) /\ j \in 1..Len(calls)
    BY <1>1, <1>2, <1>4, <2>1
  <2>3. truth[calls[j].question] = truth[calls[i].question]
    BY <1>4, <2>2 DEF Sincere
  <2>4. QED
    BY <1>2, <2>3
<1>5. QED
  BY <1>3, <1>4 DEF Sincere, new

\* A call of resolve by a call that follows an alias, or none.
LEMMA SincereCalled ==
  ASSUME NEW truth, NEW calls \in Seq(Calls), Sincere(truth, calls),
         calls # <<>>, NEW q \in Names,
         Last(calls).at = "alias" =>
           truth[q] = truth[Last(calls).question]
  PROVE  Sincere(truth, calls \o <<Call(q)>>)
<1> DEFINE new == Append(calls, Call(q))
<1>1. calls \o <<Call(q)>> = new
  BY CallType, AppendIsConcat
<1>2. /\ Len(new) = Len(calls) + 1 /\ Len(calls) \in Nat
      /\ \A i \in 1..Len(calls) : new[i] = calls[i]
      /\ new[Len(calls) + 1] = Call(q)
  BY CallType, AppendProperties, LenProperties
<1>3. Call(q).question = q /\ Call(q).result.type = "none"
  BY DEF Call, None
<1> HIDE DEF new
<1>4. ASSUME NEW i \in 1..Len(new)
      PROVE  Right(truth, new[i].question, new[i].result)
  <2>1. CASE i \in 1..Len(calls)
    BY <1>2, <2>1 DEF Sincere
  <2>2. CASE new[i] = Call(q)
    BY <1>3, <2>2 DEF Right
  <2>3. i \in 1..Len(calls) \/ new[i] = Call(q)
    BY <1>2
  <2>4. QED
    BY <2>1, <2>2, <2>3
<1>5. ASSUME NEW i \in 1..Len(new), NEW j \in 1..Len(new),
             j = i + 1, new[i].at = "alias"
      PROVE  truth[new[j].question] = truth[new[i].question]
  <2>1. i \in 1..Len(calls) /\ new[i] = calls[i]
    BY <1>2, <1>5
  <2>2. CASE j \in 1..Len(calls)
    BY <1>2, <1>5, <2>1, <2>2 DEF Sincere
  <2>3. CASE j = Len(calls) + 1
    <3>1. i = Len(calls)
      BY <1>2, <1>5, <2>3
    <3>2. new[i] = Last(calls) /\ new[j] = Call(q)
      BY <1>2, <2>1, <2>3, <3>1 DEF Last
    <3>3. QED
      BY <1>3, <1>5, <3>2
  <2>4. j \in 1..Len(calls) \/ j = Len(calls) + 1
    BY <1>2
  <2>5. QED
    BY <2>2, <2>3, <2>4
<1>6. QED
  BY <1>1, <1>4, <1>5 DEF Sincere

\* The calls below some call of a stack are those that were there.
LEMMA BelowElements ==
  ASSUME NEW S, NEW q \in Seq(S), NEW k \in Nat, k <= Len(q)
  PROVE  \A i \in 1..k : SubSeq(q, 1, k)[i] = q[i]
<1>1. \A i \in 1..k : q[i] \in S
  BY ElementOfSeq, LenProperties
<1>2. /\ Len(SubSeq(q, 1, k)) = k
      /\ \A i \in 1..k - 1 + 1 : SubSeq(q, 1, k)[i] = q[1 + i - 1]
  BY <1>1, BelowProperties, SubSeqProperties
<1>3. QED
  BY <1>2

LEMMA FrontBeneath ==
  ASSUME TypeOK, NEW s \in Slots, stack[s] # <<>>
  PROVE  /\ Beneath(Front(stack[s]), stack[s])
         /\ stack[s][Len(Front(stack[s])) + 1] = Last(stack[s])
<1> DEFINE n == Len(stack[s])
<1>1. /\ stack[s] \in Seq(Calls) /\ n \in Nat \ {0}
      /\ Front(stack[s]) \in Seq(Calls) /\ Len(Front(stack[s])) = n - 1
  BY StackProperties
<1>2. n - 1 \in Nat /\ n - 1 <= n /\ n - 1 < n /\ n - 1 + 1 = n
  <2> HIDE DEF n
  <2>1. QED
    BY <1>1
<1>3. \A i \in 1..n - 1 : Front(stack[s])[i] = stack[s][i]
  BY <1>1, <1>2, BelowElements DEF Front
<1>4. QED
  BY <1>1, <1>2, <1>3 DEF Beneath, Last

LEMMA FrontFrontBeneath ==
  ASSUME TypeOK, NEW s \in Slots, stack[s] # <<>>, Len(stack[s]) # 1
  PROVE  /\ Beneath(Front(Front(stack[s])), stack[s])
         /\ stack[s][Len(Front(Front(stack[s]))) + 1] = Caller(s)
<1> DEFINE n == Len(stack[s])
           front == Front(stack[s])
<1>1. /\ n \in Nat \ {0, 1}
      /\ front \in Seq(Calls) /\ Len(front) = n - 1
      /\ Front(front) \in Seq(Calls) /\ Len(Front(front)) = n - 2
  BY StackProperties, CallerProperties
<1>2. /\ \A i \in 1..n - 1 : front[i] = stack[s][i]
  BY <1>1, FrontBeneath DEF Beneath
<1> HIDE DEF n, front
<1>3. n - 2 \in Nat /\ n - 2 <= n - 1 /\ n - 2 < n /\ n - 2 + 1 = n - 1
  BY <1>1
<1>4. \A i \in 1..n - 2 : Front(front)[i] = front[i] /\ i \in 1..n - 1
  <2>1. Len(front) - 1 = n - 2
    BY <1>1
  <2>2. \A i \in 1..n - 2 : SubSeq(front, 1, n - 2)[i] = front[i]
    BY <1>1, <1>3, BelowElements
  <2>3. \A i \in 1..n - 2 : i \in 1..n - 1
    BY <1>1
  <2>4. QED
    BY <2>1, <2>2, <2>3 DEF Front
<1>5. QED
  BY <1>1, <1>2, <1>3, <1>4 DEF Beneath, Caller, n, front

\* The calls of a slot, when one takes the place of another.
LEMMA SetStackSincere ==
  ASSUME NEW truth, TruthInv(truth), NEW s \in Slots,
         NEW below, Beneath(below, stack[s]), NEW call \in Calls,
         call.question = stack[s][Len(below) + 1].question,
         Right(truth, call.question, call.result),
         SetStack(s, Append(below, call))
  PROVE  \A r \in Slots : Sincere(truth, stack'[r])
<1>1. stack[s] \in Seq(Calls) /\ Sincere(truth, stack[s])
  BY DEF TruthInv, Honest, IInv, TypeOK
<1>2. Append(below, call) \in Seq(Calls)
  BY PushProperties DEF Beneath
<1>3. Sincere(truth, Append(below, call))
  BY <1>1, SincereReplaced
<1>4. QED
  BY <1>2, <1>3, SetStackProperties DEF TruthInv, Honest, IInv

\* The last call goes on.
LEMMA BecomeSincere ==
  ASSUME NEW truth, TruthInv(truth), NEW s \in Slots, stack[s] # <<>>,
         NEW call \in Calls, call.question = Last(stack[s]).question,
         Right(truth, call.question, call.result), Become(s, call)
  PROVE  \A r \in Slots : Sincere(truth, stack'[r])
BY FrontBeneath, SetStackSincere DEF Become, TruthInv, IInv

\* The last call calls resolve.
LEMMA CallSincere ==
  ASSUME NEW truth, TruthInv(truth), NEW s \in Slots, stack[s] # <<>>,
         NEW caller \in Calls, caller.question = Last(stack[s]).question,
         caller.result = Last(stack[s]).result, NEW q \in Names,
         caller.at = "alias" => truth[q] = truth[caller.question],
         SetStack(s, Append(Front(stack[s]), caller) \o <<Call(q)>>)
  PROVE  \A r \in Slots : Sincere(truth, stack'[r])
<1> DEFINE calls == Append(Front(stack[s]), caller)
<1>1. TypeOK /\ stack[s] \in Seq(Calls) /\ Sincere(truth, stack[s])
  BY DEF TruthInv, Honest, IInv, TypeOK
<1>2. Right(truth, caller.question, caller.result)
  BY <1>1, StackProperties DEF Sincere, Last
<1>3. Sincere(truth, calls)
  BY <1>1, <1>2, FrontBeneath, SincereReplaced
<1>4. /\ calls \in Seq(Calls) /\ calls # <<>> /\ Last(calls) = caller
  BY <1>1, StackProperties, PushProperties
<1>5. calls \o <<Call(q)>> \in Seq(Calls)
  BY <1>4, CallType, ConcatProperties, OneProperties
<1> HIDE DEF calls
<1>6. Sincere(truth, calls \o <<Call(q)>>)
  BY <1>3, <1>4, SincereCalled
<1>7. SetStack(s, calls \o <<Call(q)>>)
  BY DEF calls
<1>8. QED
  BY <1>1, <1>5, <1>6, <1>7, SetStackProperties, ZenonT(60) DEF TruthInv, Honest

\* check_loop, at whatever call it is done.
LEMMA CheckLoopSincere ==
  ASSUME NEW truth, TruthInv(truth), NEW s \in Slots,
         NEW below, Beneath(below, stack[s]), NEW call \in Frames,
         call.question = stack[s][Len(below) + 1].question,
         call.result = stack[s][Len(below) + 1].result,
         NEW addresses \in SUBSET Addresses, NEW try \in BOOLEAN,
         CheckLoop(s, below, call, addresses, try)
  PROVE  \A r \in Slots : Sincere(truth, stack'[r])
<1> DEFINE fresh == {ip \in addresses :
                       <<call.question, ip>> \notin m_query_trail[s]}
           querying == [call EXCEPT !.addresses = fresh,
                          !.at = IF fresh = {} THEN "next" ELSE "ask",
                          !.try = try /\ fresh # {}]
<1>1. /\ querying \in Calls /\ querying.question = call.question
      /\ querying.result = call.result
  BY DEF Calls, Frames, Places
<1>2. SetStack(s, Append(below, querying))
  BY DEF CheckLoop
<1>3. Right(truth, call.question, call.result)
  <2>1. Len(below) + 1 \in 1..Len(stack[s])
    BY LenProperties DEF Beneath, TruthInv, IInv, TypeOK
  <2>2. QED
    BY <2>1 DEF TruthInv, Honest, Sincere
<1> HIDE DEF querying
<1>4. QED
  BY <1>1, <1>2, <1>3, SetStackSincere, SMTT(60)

\* A failure is not wrong, nor is nothing.
LEMMA FailuresAreRight ==
  ASSUME NEW truth, NEW q
  PROVE  Right(truth, q, Fail(q)) /\ Right(truth, q, None)
BY DEF Right, Fail, None

\* An exception leaves less on the stack, or a failure as the response.
LEMMA ThrowHonest ==
  ASSUME NEW truth, TruthInv(truth), NEW s \in Slots, stack[s] # <<>>,
         Throw(s), UNCHANGED cache
  PROVE  Honest(truth)'
<1> DEFINE trying == {i \in DOMAIN stack[s] : stack[s][i].try}
           i == Max(trying)
           caller == [stack[s][i] EXCEPT !.at = "next", !.try = FALSE]
           below == SubSeq(stack[s], 1, i - 1)
<1>1. /\ DOMAIN stack[s] = 1..Len(stack[s]) /\ Len(stack[s]) \in Nat \ {0}
      /\ stack[s] \in Seq(Calls) /\ TypeOK
      /\ Sincere(truth, stack[s]) /\ OnlyTruth(truth)
  BY StackProperties, LenProperties DEF TruthInv, Honest, IInv
<1>2. CASE trying # {}
  <2>1. i \in trying
    <3>1. trying \in SUBSET Nat /\ \A k \in trying : k <= Len(stack[s])
      BY <1>1
    <3>2. QED
      BY <1>1, <1>2, <3>1, MaxProperties
  <2>2. i \in 1..Len(stack[s]) /\ stack[s][i] \in Calls
    BY <1>1, <2>1, StackProperties
  <2>3. SetStack(s, Append(below, caller)) /\ UNCHANGED response
    BY <1>2 DEF Throw
  <2> HIDE DEF i
  <2>4. /\ i - 1 \in Nat /\ i - 1 <= Len(stack[s]) /\ i - 1 + 1 = i
        /\ i - 1 < Len(stack[s])
    BY <1>1, <2>2
  <2>5. Beneath(below, stack[s]) /\ Len(below) + 1 = i
    BY <1>1, <2>4, BelowProperties, BelowElements DEF Beneath
  <2>6. /\ caller \in Calls /\ caller.question = stack[s][i].question
        /\ caller.result = stack[s][i].result
    BY <2>2 DEF Calls, Frames, Places
  <2>7. Right(truth, caller.question, caller.result)
    BY <1>1, <2>2, <2>6 DEF Sincere
  <2> HIDE DEF below, caller
  <2>8. \A r \in Slots : Sincere(truth, stack'[r])
    BY <2>3, <2>5, <2>6, <2>7, SetStackSincere
  <2>9. QED
    BY <1>1, <2>3, <2>8 DEF Honest, OnlyTruth, cache
<1>3. CASE trying = {}
  <2>1. /\ SetStack(s, <<>>)
        /\ Respond(s, stack[s][1].question, Fail(stack[s][1].question))
    BY <1>3 DEF Throw
  <2>2. \A r \in Slots : Sincere(truth, stack'[r])
    <3>1. /\ stack'[s] = <<>> /\ \A r \in Slots \ {s} : stack'[r] = stack[r]
      BY <1>1, <2>1, EmptySeq, SetStackProperties
    <3>2. Sincere(truth, <<>>)
      BY EmptySeq DEF Sincere
    <3>3. QED
      BY <3>1, <3>2 DEF TruthInv, Honest
  <2>3. OnlyTruth(truth)'
    BY <1>1, <2>1, FailuresAreRight DEF OnlyTruth, cache, Respond, TypeOK
  <2>4. QED
    BY <2>2, <2>3 DEF Honest
<1>4. QED
  BY <1>2, <1>3

LEMMA LastRight ==
  ASSUME NEW truth, TruthInv(truth), NEW s \in Slots, stack[s] # <<>>
  PROVE  /\ Last(stack[s]) \in Calls
         /\ Right(truth, Last(stack[s]).question, Last(stack[s]).result)
<1>1. /\ Len(stack[s]) \in Nat \ {0} /\ Last(stack[s]) \in Calls
      /\ Sincere(truth, stack[s])
  BY StackProperties DEF TruthInv, Honest, IInv
<1>2. Len(stack[s]) \in 1..Len(stack[s])
  BY <1>1
<1>3. QED
  BY <1>1, <1>2 DEF Sincere, Last

LEMMA ProcessHonest ==
  ASSUME NEW truth, TruthInv(truth), NEW s \in Slots, NEW q \in Asked,
         Process(s, q)
  PROVE  Honest(truth)'
<1>1. TypeOK /\ OnlyTruth(truth) /\ q \in Names
  BY RecursiveSlotAssumption DEF TruthInv, Honest, IInv
<1>2. /\ <<Call(q)>> \in Seq(Calls) /\ Len(<<Call(q)>>) = 1
      /\ <<Call(q)>>[1] = Call(q)
  BY <1>1, CallType
<1>3. /\ stack'[s] = <<Call(q)>>
      /\ \A r \in Slots \ {s} : stack'[r] = stack[r]
  BY <1>1, <1>2, SetStackProperties DEF Process
<1>4. Sincere(truth, <<Call(q)>>)
  <2>1. Right(truth, q, None) /\ Call(q).question = q /\ Call(q).result = None
    BY FailuresAreRight DEF Call
  <2>2. \A i \in 1..1, j \in 1..1 : i = 1 /\ j # i + 1
    OBVIOUS
  <2>3. QED
    BY <1>2, <2>1, <2>2 DEF Sincere
<1>5. \A r \in Slots : Sincere(truth, stack'[r])
  BY <1>3, <1>4 DEF TruthInv, Honest
<1>6. OnlyTruth(truth)'
  BY <1>1 DEF OnlyTruth, Process, cache, TypeOK
<1>7. QED
  BY <1>5, <1>6 DEF Honest

LEMMA ResetFailsHonest ==
  ASSUME NEW truth, TruthInv(truth), NEW s \in Slots, ResetFails(s)
  PROVE  Honest(truth)'
<1>1. OnlyTruth(truth)'
  BY DEF OnlyTruth, ResetFails, cache, TruthInv, Honest, IInv, TypeOK
<1>2. QED
  BY <1>1 DEF Honest, ResetFails, cache, TruthInv

\* What the cache knows is right for the call that looks it up.
LEMMA LookHonest ==
  ASSUME NEW truth, TruthInv(truth), NEW s \in Slots, Look(s)
  PROVE  Honest(truth)'
<1> DEFINE call == Last(stack[s])
           known == m_answers[call.question]
<1>1. /\ stack[s] # <<>> /\ call.at = "look" /\ UNCHANGED cache
      /\ TypeOK /\ OnlyTruth(truth) /\ Sincere(truth, stack[s])
  BY DEF Look, IsAt, TruthInv, Honest, IInv
<1>2. /\ call \in Calls /\ call.question \in Names /\ ~call.try
      /\ Right(truth, call.question, call.result)
  BY <1>1, LastRight DEF Calls, Frames
<1>2a. known \in Answers \union {None} /\ Right(truth, call.question, known)
  BY <1>1, <1>2 DEF TypeOK, OnlyTruth
<1>3. CASE Len(stack[s]) > MaxRecursionDepth
  BY <1>1, <1>3, ThrowHonest DEF Look
<1>4. CASE ~(Len(stack[s]) > MaxRecursionDepth)
  <2> DEFINE next == IF known # None
                     THEN [call EXCEPT !.at = "done", !.result = known]
                     ELSE [call EXCEPT !.at = "refer"]
  <2>1. Become(s, next) /\ UNCHANGED response
    BY <1>4 DEF Look
  <2>2. /\ next \in Calls /\ next.question = call.question
        /\ next.result \in {known, call.result}
    BY <1>2, <1>2a DEF Calls, Frames, Places
  <2>3. Right(truth, next.question, next.result)
    BY <1>2, <1>2a, <2>2
  <2> HIDE DEF next
  <2>4. \A r \in Slots : Sincere(truth, stack'[r])
    BY <1>1, <1>2, <2>1, <2>2, <2>3, BecomeSincere
  <2>5. QED
    BY <1>1, <2>1, <2>4 DEF Honest, OnlyTruth, cache
<1>5. QED
  BY <1>3, <1>4

\* A query starts anew with a referral; whether that is true does not matter.
LEMMA QueryHonest ==
  ASSUME NEW truth, TruthInv(truth), NEW s \in Slots, stack[s] # <<>>,
         NEW referral \in Referrals, QueryNameserver(s, referral),
         UNCHANGED <<m_answers, response>>
  PROVE  Honest(truth)'
<1> DEFINE call == [Last(stack[s]) EXCEPT !.zone = referral.zone,
                                          !.left = referral.ns]
<1>1. TypeOK /\ OnlyTruth(truth)
  BY DEF TruthInv, Honest, IInv
<1>2. /\ call \in Frames /\ call.question = Last(stack[s]).question
      /\ call.result = Last(stack[s]).result
      /\ referral.glue \in SUBSET Addresses
  BY <1>1, StackProperties, ZenonT(60) DEF Calls, Frames, Referrals
<1>3. CheckLoop(s, Front(stack[s]), call, referral.glue, TRUE)
  BY DEF QueryNameserver
<1> HIDE DEF call
<1>4. \A r \in Slots : Sincere(truth, stack'[r])
  BY <1>1, <1>2, <1>3, FrontBeneath, CheckLoopSincere
<1>5. QED
  BY <1>1, <1>4 DEF Honest, OnlyTruth

LEMMA ReferHonest ==
  ASSUME NEW truth, TruthInv(truth), NEW s \in Slots, Refer(s)
  PROVE  Honest(truth)'
<1>1. stack[s] # <<>>
  BY DEF Refer, IsAt
<1>2. NearestReferral(Last(stack[s]).question) \in Referrals
  BY <1>1, StackProperties, NearestReferralType
     DEF TruthInv, IInv, Calls, Frames
<1>3. QED
  BY <1>1, <1>2, QueryHonest DEF Refer, cache

LEMMA SendHonest ==
  ASSUME NEW truth, TruthInv(truth), NEW s \in Slots, Send(s)
  PROVE  Honest(truth)'
<1> DEFINE next == [Last(stack[s]) EXCEPT !.at = "wait"]
<1>1. stack[s] # <<>> /\ UNCHANGED cache /\ Last(stack[s]).at = "ask"
  BY DEF Send, IsAt
<1>2. CASE late[s]
  BY <1>1, <1>2, ThrowHonest DEF Send
<1>3. CASE ~late[s]
  <2>1. Become(s, next) /\ UNCHANGED response
    BY <1>3 DEF Send
  <2>2. /\ next \in Calls /\ next.question = Last(stack[s]).question
        /\ Right(truth, next.question, next.result)
    BY <1>1, LastRight DEF Calls, Frames, Places
  <2> HIDE DEF next
  <2>3. \A r \in Slots : Sincere(truth, stack'[r])
    BY <1>1, <2>1, <2>2, BecomeSincere
  <2>4. QED
    BY <1>1, <2>1, <2>3 DEF TruthInv, Honest, OnlyTruth, cache
<1>4. QED
  BY <1>2, <1>3

\* What classify_response makes of the truth is the truth or a failure.
LEMMA ClassifyHonest ==
  ASSUME NEW truth, Truthful(truth), NEW call \in Calls,
         NEW ip \in call.addresses, NEW raw \in Replies(call.question, ip)
  PROVE  LET reply == Classify(call, raw)
         IN  /\ reply.type \in AnswerTypes => Right(truth, call.question, reply)
             /\ reply.type = "additional" =>
                  [reply EXCEPT !.type = "data"] = truth[call.question]
             /\ reply.type = "alias" =>
                  truth[reply.target] = truth[call.question]
<1>1. call.question \in Names /\ ip \in Addresses
  BY DEF Calls, Frames
<1>2. CASE Classify(call, raw) = Fail(call.question)
  <2>1. Fail(call.question).type = "fail"
    BY DEF Fail
  <2>2. QED
    BY <1>2, <2>1, FailuresAreRight
<1>3. CASE Classify(call, raw) = raw
  BY <1>1, <1>3 DEF Truthful, Right
<1>4. QED
  BY <1>2, <1>3 DEF Classify

\* What add_answer puts in the cache is right there if it is for the question.
LEMMA AddAnswerHonest ==
  ASSUME NEW truth, TruthInv(truth), NEW q \in Names, NEW answer,
         Right(truth, q, answer), AddAnswer(q, answer), UNCHANGED response
  PROVE  OnlyTruth(truth)'
BY DEF TruthInv, Honest, IInv, TypeOK, OnlyTruth, AddAnswer

LEMMA ReceiveHonest ==
  ASSUME NEW truth, TruthInv(truth), Truthful(truth), NEW s \in Slots,
         Receive(s)
  PROVE  Honest(truth)'
<1> DEFINE call == Last(stack[s])
<1>1. /\ stack[s] # <<>> /\ TypeOK /\ call.at = "wait" /\ UNCHANGED response
      /\ OnlyTruth(truth)
  BY DEF Receive, IsAt, TruthInv, Honest, IInv
<1>2. /\ call \in Calls /\ call.question \in Names
      /\ Right(truth, call.question, call.result)
  BY <1>1, LastRight DEF Calls, Frames
<1>3. PICK ip \in call.addresses : \E raw \in Replies(call.question, ip) :
        \/ ReceiveAnswer(s, Classify(call, raw))
        \/ ReceiveAdditional(s, Classify(call, raw))
        \/ ReceiveReferral(s, Classify(call, raw))
        \/ ReceiveAlias(s, Classify(call, raw))
  BY DEF Receive
<1> PICK raw \in Replies(call.question, ip) :
        \/ ReceiveAnswer(s, Classify(call, raw))
        \/ ReceiveAdditional(s, Classify(call, raw))
        \/ ReceiveReferral(s, Classify(call, raw))
        \/ ReceiveAlias(s, Classify(call, raw))
  BY <1>3
<1> DEFINE reply == Classify(call, raw)
<1>4. /\ reply.type \in AnswerTypes => reply \in Answers
      /\ reply.type = "additional" => reply \in Additional
      /\ reply.type = "referral" => reply \in Referrals
      /\ reply.type = "alias" => reply \in Aliases
  BY <1>2, ClassifyProperties
<1>5. /\ reply.type \in AnswerTypes => Right(truth, call.question, reply)
      /\ reply.type = "additional" =>
           [reply EXCEPT !.type = "data"] = truth[call.question]
      /\ reply.type = "alias" => truth[reply.target] = truth[call.question]
  BY <1>2, ClassifyHonest
<1> HIDE DEF reply
<1>6. CASE ReceiveAnswer(s, reply)
  <2> DEFINE next == [call EXCEPT !.at = "done", !.result = reply, !.try = FALSE]
  <2>1. /\ next \in Calls /\ next.question = call.question
        /\ next.result = reply
    BY <1>2, <1>4, <1>6 DEF ReceiveAnswer, Calls, Frames, Places
  <2>2. /\ AddAnswer(call.question, reply) /\ Become(s, next)
        /\ Right(truth, call.question, reply)
    BY <1>5, <1>6 DEF ReceiveAnswer
  <2> HIDE DEF next
  <2>3. \A r \in Slots : Sincere(truth, stack'[r])
    BY <1>1, <2>1, <2>2, BecomeSincere
  <2>4. QED
    BY <1>1, <1>2, <2>2, <2>3, AddAnswerHonest DEF Honest
<1>7. CASE ReceiveAdditional(s, reply)
  <2> DEFINE answer == [reply EXCEPT !.type = "data"]
             next == [call EXCEPT !.at = "done", !.result = answer, !.try = FALSE]
  <2>1. answer \in Answers /\ Right(truth, call.question, answer)
    BY <1>4, <1>5, <1>7
       DEF ReceiveAdditional, Additional, Answers, AnswerTypes, Right
  <2>2. Become(s, next) /\ UNCHANGED cache
    BY <1>7 DEF ReceiveAdditional
  <2> HIDE DEF answer
  <2>3. /\ next \in Calls /\ next.question = call.question
        /\ next.result = answer
    BY <1>2, <2>1 DEF Calls, Frames, Places
  <2> HIDE DEF next
  <2>4. \A r \in Slots : Sincere(truth, stack'[r])
    BY <1>1, <2>1, <2>2, <2>3, BecomeSincere
  <2>5. QED
    BY <1>1, <2>2, <2>4 DEF Honest, OnlyTruth, cache
<1>8. CASE ReceiveReferral(s, reply)
  <2>1. reply \in Referrals
    BY <1>4, <1>8 DEF ReceiveReferral
  <2>2. QED
    BY <1>1, <1>8, <2>1, QueryHonest DEF ReceiveReferral
<1>9. CASE ReceiveAlias(s, reply)
  <2> DEFINE caller == [call EXCEPT !.at = "alias"]
  <2>1. reply.target \in Names /\ truth[reply.target] = truth[call.question]
    BY <1>4, <1>5, <1>9 DEF ReceiveAlias, Aliases
  <2>2. /\ caller \in Calls /\ caller.question = call.question
        /\ caller.result = call.result
    BY <1>2 DEF Calls, Frames, Places
  <2>3. /\ SetStack(s, Append(Front(stack[s]), caller) \o <<Call(reply.target)>>)
        /\ UNCHANGED cache
    BY <1>9 DEF ReceiveAlias
  <2> HIDE DEF caller
  <2>4. \A r \in Slots : Sincere(truth, stack'[r])
    BY <1>1, <2>1, <2>2, <2>3, CallSincere
  <2>5. QED
    BY <1>1, <2>3, <2>4 DEF Honest, OnlyTruth, cache
<1>10. QED
  BY <1>6, <1>7, <1>8, <1>9 DEF reply

LEMMA NoReplyHonest ==
  ASSUME NEW truth, TruthInv(truth), NEW s \in Slots, NoReply(s)
  PROVE  Honest(truth)'
<1> DEFINE next == [Last(stack[s]) EXCEPT !.at = "next", !.try = FALSE]
<1>1. stack[s] # <<>> /\ Become(s, next) /\ UNCHANGED <<m_answers, response>>
  BY DEF NoReply, IsAt, cache
<1>2. /\ next \in Calls /\ next.question = Last(stack[s]).question
      /\ Right(truth, next.question, next.result)
  BY <1>1, LastRight DEF Calls, Frames, Places
<1> HIDE DEF next
<1>3. \A r \in Slots : Sincere(truth, stack'[r])
  BY <1>1, <1>2, BecomeSincere
<1>4. QED
  BY <1>1, <1>3 DEF TruthInv, Honest, OnlyTruth

LEMMA NextNameserverHonest ==
  ASSUME NEW truth, TruthInv(truth), NEW s \in Slots, NextNameserver(s)
  PROVE  Honest(truth)'
<1> DEFINE call == Last(stack[s])
<1>1. /\ stack[s] # <<>> /\ call.at = "next" /\ OnlyTruth(truth)
      /\ UNCHANGED <<m_answers, response>>
  BY DEF NextNameserver, IsAt, cache, TruthInv, Honest
<1>2. /\ call \in Calls /\ call.question \in Names /\ call.left \in Seq(Names)
  BY <1>1, LastRight DEF Calls, Frames
<1>3. CASE call.left = <<>>
  <2> DEFINE next == [call EXCEPT !.at = "done", !.result = Fail(call.question)]
  <2>1. Fail(call.question) \in Answers
    BY <1>2, CallType
  <2>2. /\ next \in Calls /\ next.question = call.question
        /\ next.result = Fail(call.question)
    BY <1>1, <1>2, <2>1 DEF Calls, Frames, Places
  <2>3. Become(s, next)
    BY <1>3 DEF NextNameserver
  <2> HIDE DEF next
  <2>4. \A r \in Slots : Sincere(truth, stack'[r])
    BY <1>1, <2>2, <2>3, FailuresAreRight, BecomeSincere
  <2>5. QED
    BY <1>1, <2>4 DEF Honest, OnlyTruth
<1>4. CASE call.left # <<>>
  <2> DEFINE caller == [call EXCEPT !.at = "server", !.left = Tail(@)]
  <2>1. Head(call.left) \in Names /\ Tail(call.left) \in Seq(Names)
    BY <1>2, <1>4, HeadTailProperties
  <2>2. /\ caller \in Calls /\ caller.question = call.question
        /\ caller.result = call.result /\ caller.at = "server"
    BY <1>1, <1>2, <2>1 DEF Calls, Frames, Places
  <2>3. SetStack(s, Append(Front(stack[s]), caller)
                      \o <<Call(Head(call.left))>>)
    BY <1>4 DEF NextNameserver
  <2> HIDE DEF caller
  <2>4. \A r \in Slots : Sincere(truth, stack'[r])
    BY <1>1, <2>1, <2>2, <2>3, CallSincere
  <2>5. QED
    BY <1>1, <2>4 DEF Honest, OnlyTruth
<1>5. QED
  BY <1>3, <1>4

\* The addresses found for a name server decide what is asked, and nothing
\* else.
LEMMA ReturnToServerHonest ==
  ASSUME NEW truth, TruthInv(truth), NEW s \in Slots, stack[s] # <<>>,
         Len(stack[s]) # 1, NEW result \in Answers, ReturnToServer(s, result)
  PROVE  Honest(truth)'
<1> DEFINE addresses == IF /\ result.type = "data"
                           /\ result.owner = Last(stack[s]).question
                        THEN result.addresses ELSE {}
<1>1. TypeOK /\ OnlyTruth(truth) /\ UNCHANGED <<m_answers, response>>
  BY DEF TruthInv, Honest, IInv, ReturnToServer, cache
<1>2. Caller(s) \in Frames /\ addresses \in SUBSET Addresses
  BY <1>1, CallerProperties DEF Calls, Answers
<1>3. CheckLoop(s, Front(Front(stack[s])), Caller(s), addresses, FALSE)
  BY DEF ReturnToServer
<1> HIDE DEF addresses
<1>4. \A r \in Slots : Sincere(truth, stack'[r])
  BY <1>1, <1>2, <1>3, FrontFrontBeneath, CheckLoopSincere
<1>5. QED
  BY <1>1, <1>4 DEF Honest, OnlyTruth

\* What is right for an alias's target is right for the alias, and is put in
\* the cache for the question of the call that follows it.
LEMMA ReturnToAliasHonest ==
  ASSUME NEW truth, TruthInv(truth), NEW s \in Slots, stack[s] # <<>>,
         Len(stack[s]) # 1, NEW result \in Answers,
         Right(truth, Last(stack[s]).question, result),
         ReturnToAlias(s, result)
  PROVE  Honest(truth)'
<1> DEFINE next == [Caller(s) EXCEPT !.at = "done", !.result = result,
                                     !.try = FALSE]
           n == Len(stack[s])
<1>1. /\ TypeOK /\ Sincere(truth, stack[s]) /\ Caller(s).at = "alias"
      /\ UNCHANGED response
  BY DEF TruthInv, Honest, IInv, ReturnToAlias
<1>2. /\ Caller(s) \in Calls /\ Caller(s).question \in Names
  BY <1>1, CallerProperties DEF Calls, Frames
<1>3. truth[Last(stack[s]).question] = truth[Caller(s).question]
  <2>1. n \in Nat \ {0} /\ n - 1 \in Nat /\ n # 1
    BY <1>1, StackProperties
  <2> HIDE DEF n
  <2>2. n - 1 \in 1..n /\ n \in 1..n /\ n = n - 1 + 1
    BY <2>1
  <2>3. Caller(s) = stack[s][n - 1] /\ Last(stack[s]) = stack[s][n]
    BY DEF Caller, Last, n
  <2>4. QED
    BY <1>1, <2>2, <2>3 DEF Sincere, n
<1>4. Right(truth, Caller(s).question, result)
  BY <1>3 DEF Right
<1>5. /\ next \in Calls /\ next.question = Caller(s).question
      /\ next.result = result
  BY <1>2 DEF Calls, Frames, Places
<1>6. /\ AddAnswer(Caller(s).question, result)
      /\ SetStack(s, Append(Front(Front(stack[s])), next))
  BY DEF ReturnToAlias
<1> HIDE DEF next
<1>7. \A r \in Slots : Sincere(truth, stack'[r])
  BY <1>1, <1>4, <1>5, <1>6, FrontFrontBeneath, SetStackSincere
<1>8. QED
  BY <1>1, <1>2, <1>4, <1>6, <1>7, AddAnswerHonest DEF Honest

LEMMA ReturnHonest ==
  ASSUME NEW truth, TruthInv(truth), NEW s \in Slots, Return(s)
  PROVE  Honest(truth)'
<1> DEFINE result == Last(stack[s]).result
<1>1. stack[s] # <<>> /\ TypeOK /\ IsAt(s, "done") /\ OnlyTruth(truth)
  BY DEF Return, IsAt, TruthInv, Honest, IInv
<1>2. result \in Answers /\ Right(truth, Last(stack[s]).question, result)
  BY <1>1, LastRight DEF Calls, IsAt
<1>3. CASE Len(stack[s]) = 1
  <2>1. ReturnToProcess(s, result) /\ stack[s][1] = Last(stack[s])
    BY <1>3 DEF Return, Last
  <2> HIDE DEF result
  <2>2. /\ stack'[s] = <<>> /\ \A r \in Slots \ {s} : stack'[r] = stack[r]
    BY <1>1, <2>1, EmptySeq, SetStackProperties DEF ReturnToProcess
  <2>3. Sincere(truth, <<>>)
    BY EmptySeq DEF Sincere
  <2>4. \A r \in Slots : Sincere(truth, stack'[r])
    BY <2>2, <2>3 DEF TruthInv, Honest
  <2>5. OnlyTruth(truth)'
    BY <1>1, <1>2, <2>1
       DEF OnlyTruth, ReturnToProcess, Respond, cache, TypeOK
  <2>6. QED
    BY <2>4, <2>5 DEF Honest
<1>4. CASE Len(stack[s]) # 1
  <2>1. ReturnToServer(s, result) \/ ReturnToAlias(s, result)
    BY <1>4 DEF Return
  <2> HIDE DEF result
  <2>2. QED
    BY <1>1, <1>2, <1>4, <2>1, ReturnToServerHonest, ReturnToAliasHonest
<1>5. QED
  BY <1>3, <1>4

LEMMA OthersHonest ==
  ASSUME NEW truth, TruthInv(truth),
         \/ \E s \in Slots : Late(s)
         \/ \E n \in Names : ForgetAnswer(n) \/ ForgetReferral(n)
         \/ UNCHANGED vars
  PROVE  Honest(truth)'
<1>1. UNCHANGED <<stack, response>>
  BY DEF Late, ForgetAnswer, ForgetReferral, vars
<1>2. \A n \in Names : m_answers'[n] \in {m_answers[n], None}
  BY DEF Late, ForgetAnswer, ForgetReferral, vars, cache, TruthInv, IInv, TypeOK
<1>3. QED
  BY <1>1, <1>2, FailuresAreRight DEF TruthInv, Honest, OnlyTruth

LEMMA TruthInit == ASSUME NEW truth PROVE Init => TruthInv(truth)
<1> SUFFICES ASSUME Init PROVE Honest(truth)
  BY InitInv DEF TruthInv
<1>1. OnlyTruth(truth)
  BY FailuresAreRight DEF Init, OnlyTruth
<1>2. \A s \in Slots : Sincere(truth, stack[s])
  BY EmptySeq DEF Init, Sincere
<1>3. QED
  BY <1>1, <1>2 DEF Honest

LEMMA TruthStep ==
  ASSUME NEW truth, Truthful(truth)
  PROVE  TruthInv(truth) /\ [Next]_vars => TruthInv(truth)'
<1> SUFFICES ASSUME TruthInv(truth), [Next]_vars PROVE Honest(truth)'
  BY NextKeeps DEF TruthInv
<1>1. ASSUME NEW s \in Slots, NEW q \in Asked, Process(s, q)
      PROVE  Honest(truth)'
  BY <1>1, ProcessHonest
<1>2. ASSUME NEW s \in Slots, Step(s) PROVE Honest(truth)'
  <2>1. CASE Error(s)
    BY <2>1, ThrowHonest DEF Error, IsAt
  <2>2. QED
    BY <1>2, <2>1, LookHonest, ReferHonest, SendHonest, ReceiveHonest,
       NoReplyHonest, NextNameserverHonest, ReturnHonest DEF Step
<1>3. QED
  BY <1>1, <1>2, ResetFailsHonest, OthersHonest DEF Next

\* Whatever the truth is, as long as servers tell it: the cache and the
\* clients get nothing but the truth or that it could not be found, whoever
\* asked for what, whatever is lost, late, forgotten or not cached, and
\* wherever referrals lead.
THEOREM NothingButTheTruth ==
  ASSUME NEW truth, Truthful(truth)
  PROVE  Spec => []OnlyTruth(truth)
<1>1. Init => TruthInv(truth)
  BY TruthInit
<1>2. TruthInv(truth) /\ [Next]_vars => TruthInv(truth)'
  BY TruthStep
<1>3. TruthInv(truth) => OnlyTruth(truth)
  BY DEF TruthInv, Honest
<1>4. QED
  BY <1>1, <1>2, <1>3, PTL DEF Spec

\* So it is in the world of MCRecursiveWorld, for any slots, questions and
\* faults, and any depth: the alias of x's that leads to y, and that of the
\* name server, are never taken for each other.
THEOREM NeverWrongInTheWorld ==
  ASSUME Names = MCNames,
         \A q \in Names, ip \in Addresses : Replies(q, ip) = MCReplies(q, ip)
  PROVE  Spec => []NeverWrong
<1> DEFINE truth == [q \in Names |-> Truth(q)]
<1>1. Truthful(truth)
  <2> SUFFICES ASSUME NEW q \in Names, NEW ip \in Addresses,
                      NEW reply \in MCReplies(q, ip)
               PROVE  /\ reply.type \in AnswerTypes => reply = Truth(q)
                      /\ reply.type = "additional" =>
                           [reply EXCEPT !.type = "data"] = Truth(q)
                      /\ reply.type = "alias" =>
                           reply.target \in Names /\ Truth(reply.target) = Truth(q)
    BY DEF Truthful
  <2>1. Truth(n_z) = Answer("data", n_z, {"nz"})
    BY DEF Truth, n_x, n_z, w_x, w_y
  <2>2. CASE reply \in RootReplies(q)
    <3>1. \/ reply.type = "referral"
          \/ q = n_z /\ reply = Answer("additional", n_z, {"nz"})
      BY <2>2 DEF RootReplies, Referral
    <3>2. QED
      BY <2>1, <3>1 DEF Answer, AnswerTypes
  <2>3. CASE reply \in NzReplies(q)
    BY <2>3 DEF NzReplies, Alias, Answer, AnswerTypes, Truth, n_x, n_z, v_x,
       w_x, w_y, MCNames
  <2>4. QED
    BY <2>2, <2>3 DEF MCReplies
<1> HIDE DEF truth
<1>2. OnlyTruth(truth) /\ TypeOK => NeverWrong
  <2> SUFFICES ASSUME OnlyTruth(truth), TypeOK PROVE NeverWrong
    OBVIOUS
  <2>1. \A n \in Names : truth[n] = Truth(n)
    BY DEF truth
  <2>2. \A n \in Names : \/ m_answers[n].type \in {"none", "fail"}
                         \/ m_answers[n] = Truth(n)
    BY <2>1 DEF OnlyTruth, Right
  <2>3. ASSUME NEW s \in Slots, response[s] # None
        PROVE  \/ response[s].answer.type = "fail"
               \/ response[s].answer = Truth(response[s].question)
    <3>1. /\ response[s].question \in Names
          /\ response[s].answer.type # "none"
      BY <2>3 DEF TypeOK, Responses, Answers, AnswerTypes
    <3>2. QED
      BY <2>1, <2>3, <3>1 DEF OnlyTruth, Right
  <2>4. QED
    BY <2>2, <2>3 DEF NeverWrong
<1>3. Init => TruthInv(truth)
  BY TruthInit
<1>4. TruthInv(truth) /\ [Next]_vars => TruthInv(truth)'
  BY <1>1, TruthStep
<1>5. TruthInv(truth) => OnlyTruth(truth)
  BY DEF TruthInv, Honest
<1>6. QED
  BY <1>2, <1>3, <1>4, <1>5, TypeCorrect, PTL DEF Spec
=============================================================================
