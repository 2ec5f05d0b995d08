-------------------------- MODULE TcpServerProofs --------------------------
(***************************************************************************)
(* For any number of connection threads and of connections, and whatever   *)
(* becomes of the requests: the thread pool lends every thread to one      *)
(* connection at a time, and while the forwarding client has taken nothing *)
(* every answer is given to the question it answers.                       *)
(*                                                                         *)
(* That two threads never serve the same connection follows from every     *)
(* connection being in one place, yet to come, accepted or served; that a  *)
(* thread does not give itself back twice follows from run giving it back  *)
(* only where it still has its socket.                                     *)
(***************************************************************************)
EXTENDS TcpServer, FiniteSetTheorems, SequenceTheorems, TLAPS

\* A connection waits in one place, once, and no thread has it then.
Unserved ==
  /\ IsInjective(coming) /\ IsInjective(arriving)
  /\ Range(coming) \intersect Range(arriving) = {}
  /\ \A t \in Threads :
       m_socket[t] \notin Range(coming) \union Range(arriving)

IInv == TypeOK /\ LentOnce /\ Unserved

-----------------------------------------------------------------------------
(* Sequences without repetition *)

LEMMA SetToSeqOf ==
  ASSUME NEW S, IsFiniteSet(S)
  PROVE  /\ SetToSeq(S) \in Seq(S)
         /\ IsInjective(SetToSeq(S))
         /\ Range(SetToSeq(S)) = S
<1> DEFINE D == 1..Cardinality(S)
           s == SetToSeq(S)
<1>1. Cardinality(S) \in Nat /\ ExistsBijection(D, S)
  BY FS_CardinalityType
<1>2. PICK f \in Bijection(D, S) : TRUE
  BY <1>1 DEF ExistsBijection
<1>3. f \in [D -> S] /\ IsInjective(f)
  BY <1>2 DEF Bijection, Injection, IsInjective
<1>4. s \in [D -> S] /\ IsInjective(s)
  BY <1>3 DEF SetToSeq
<1>5. s \in Seq(S) /\ DOMAIN s = D
  BY <1>1, <1>4
<1>6. s \in Injection(D, S)
  BY <1>4 DEF Injection, IsInjective
<1>7. IsFiniteSet(D) /\ Cardinality(D) = Cardinality(S)
  BY <1>1, FS_Interval
<1>8. s \in Surjection(D, S)
  BY <1>6, <1>7, FS_Injection
<1>9. Range(s) = S
  BY <1>4, <1>5, <1>8 DEF Surjection, Range
<1>10. QED
  BY <1>4, <1>5, <1>9

LEMMA Containing ==
  ASSUME NEW S, NEW s \in Seq(S), NEW e
  PROVE  Contains(s, e) <=> e \in Range(s)
BY DEF Contains, Range

LEMMA Elements ==
  ASSUME NEW S, NEW s \in Seq(S)
  PROVE  Range(s) \subseteq S
BY DEF Range

LEMMA AppendNew ==
  ASSUME NEW S, NEW s \in Seq(S), NEW e \in S, IsInjective(s), e \notin Range(s)
  PROVE  /\ Append(s, e) \in Seq(S)
         /\ Range(Append(s, e)) = Range(s) \union {e}
         /\ IsInjective(Append(s, e))
BY SMTT(60) DEF Range, IsInjective

LEMMA Split ==
  ASSUME NEW S, NEW s \in Seq(S), IsInjective(s), NEW n \in 0..Len(s)
  PROVE  LET first == SubSeq(s, 1, n)
             rest == SubSeq(s, n + 1, Len(s))
         IN  /\ first \in Seq(S) /\ rest \in Seq(S)
             /\ IsInjective(first) /\ IsInjective(rest)
             /\ Range(first) \union Range(rest) = Range(s)
             /\ Range(first) \intersect Range(rest) = {}
<1> DEFINE first == SubSeq(s, 1, n)
           rest == SubSeq(s, n + 1, Len(s))
<1>1. /\ Len(s) \in Nat /\ n \in Nat /\ n <= Len(s) /\ DOMAIN s = 1..Len(s)
      /\ \A i \in 1..Len(s) : s[i] \in S
  OBVIOUS
<1>2. /\ first \in Seq(S) /\ Len(first) = n /\ DOMAIN first = 1..n
      /\ \A i \in 1..n : first[i] = s[i]
  <2>1. \A i \in 1..n : s[i] \in S
    BY <1>1
  <2>2. /\ first \in Seq(S) /\ Len(first) = IF 1 <= n THEN n - 1 + 1 ELSE 0
        /\ \A i \in 1..n - 1 + 1 : first[i] = s[1 + i - 1]
    BY <1>1, <2>1, SubSeqProperties
  <2> HIDE DEF first
  <2>3. QED
    BY <1>1, <2>2
<1>3. /\ rest \in Seq(S) /\ Len(rest) = Len(s) - n
      /\ DOMAIN rest = 1..(Len(s) - n)
      /\ \A i \in 1..(Len(s) - n) : rest[i] = s[n + i]
  <2>1. \A i \in n + 1..Len(s) : s[i] \in S
    BY <1>1
  <2>2. /\ rest \in Seq(S)
        /\ Len(rest) = IF n + 1 <= Len(s) THEN Len(s) - (n + 1) + 1 ELSE 0
        /\ \A i \in 1..Len(s) - (n + 1) + 1 : rest[i] = s[(n + 1) + i - 1]
    BY <1>1, <2>1, SubSeqProperties
  <2> HIDE DEF rest
  <2>3. Len(rest) = Len(s) - n
    <3>1. Len(rest) = IF n + 1 <= Len(s) THEN Len(s) - (n + 1) + 1 ELSE 0
      BY <2>2
    <3>2. /\ n + 1 <= Len(s) => Len(s) - (n + 1) + 1 = Len(s) - n
          /\ ~(n + 1 <= Len(s)) => Len(s) - n = 0
      <4>1. \A a, b \in Nat :
              b <= a => /\ a - (b + 1) + 1 = a - b
                        /\ ~(b + 1 <= a) => a - b = 0
        OBVIOUS
      <4>2. QED
        BY <1>1, <4>1
    <3>3. QED
      BY <3>1, <3>2
  <2>4. ASSUME NEW i \in 1..(Len(s) - n) PROVE rest[i] = s[n + i]
    <3>1. i \in 1..Len(s) - (n + 1) + 1 /\ (n + 1) + i - 1 = n + i
      BY <1>1
    <3>2. QED
      BY <2>2, <3>1
  <2>5. QED
    BY <2>2, <2>3, <2>4
<1> HIDE DEF first, rest
<1>4. IsInjective(first)
  BY <1>1, <1>2 DEF IsInjective
<1>5. IsInjective(rest)
  <2>1. ASSUME NEW i \in 1..(Len(s) - n), NEW j \in 1..(Len(s) - n),
               rest[i] = rest[j]
        PROVE  i = j
    <3>1. n + i \in 1..Len(s) /\ n + j \in 1..Len(s)
      BY <1>1
    <3>2. n + i = n + j
      BY <1>1, <1>3, <2>1, <3>1 DEF IsInjective
    <3>3. QED
      BY <1>1, <3>2
  <2>2. QED
    BY <1>3, <2>1 DEF IsInjective
<1>6. ASSUME NEW x \in Range(s) PROVE x \in Range(first) \union Range(rest)
  <2>1. PICK i \in 1..Len(s) : x = s[i]
    BY <1>1 DEF Range
  <2>2. CASE i <= n
    BY <1>1, <1>2, <2>1, <2>2 DEF Range
  <2>3. CASE i > n
    <3>1. i - n \in 1..(Len(s) - n) /\ rest[i - n] = x
      BY <1>1, <1>3, <2>1, <2>3
    <3>2. QED
      BY <1>3, <3>1 DEF Range
  <2>4. QED
    BY <1>1, <2>1, <2>2, <2>3
<1>7. ASSUME NEW i \in 1..(Len(s) - n)
      PROVE  /\ n + i \in 1..Len(s) /\ rest[i] = s[n + i]
             /\ \A j \in 1..n : j \in 1..Len(s) /\ j # n + i
  BY <1>1, <1>3
<1>8. Range(first) \subseteq Range(s) /\ Range(rest) \subseteq Range(s)
  <2>1. Range(first) \subseteq Range(s)
    BY <1>1, <1>2 DEF Range
  <2>2. Range(rest) \subseteq Range(s)
    BY <1>1, <1>3, <1>7 DEF Range
  <2>3. QED
    BY <2>1, <2>2
<1>9. Range(first) \intersect Range(rest) = {}
  <2>1. SUFFICES ASSUME NEW j \in 1..n, NEW i \in 1..(Len(s) - n),
                        first[j] = rest[i]
                 PROVE  FALSE
    BY <1>2, <1>3 DEF Range
  <2>2. s[j] = s[n + i]
    BY <1>2, <1>7, <2>1
  <2>3. QED
    BY <1>1, <1>7, <2>2 DEF IsInjective
<1>10. QED
  BY <1>2, <1>3, <1>4, <1>5, <1>6, <1>8, <1>9 DEF first, rest

LEMMA TakeLast ==
  ASSUME NEW S, NEW s \in Seq(S), s # << >>, IsInjective(s)
  PROVE  /\ Front(s) \in Seq(S) /\ IsInjective(Front(s))
         /\ Last(s) \in Range(s) /\ Last(s) \in S
         /\ Range(Front(s)) = Range(s) \ {Last(s)}
<1> DEFINE n == Len(s) - 1
           rest == SubSeq(s, n + 1, Len(s))
<1>1. n \in 0..Len(s) /\ Len(s) \in Nat \ {0} /\ Last(s) = s[Len(s)]
  BY DEF Last
<1>2. Range(rest) = {Last(s)}
  <2>1. rest \in Seq(S) /\ Len(rest) = 1 /\ rest[1] = Last(s)
    BY <1>1, SubSeqProperties
  <2>2. QED
    BY <2>1 DEF Range
<1>3. Last(s) \in S /\ Last(s) \in Range(s)
  BY <1>1 DEF Range
<1>4. QED
  BY <1>1, <1>2, <1>3, Split DEF Front

LEMMA TakeHead ==
  ASSUME NEW S, NEW s \in Seq(S), s # << >>, IsInjective(s)
  PROVE  /\ Tail(s) \in Seq(S) /\ IsInjective(Tail(s))
         /\ Head(s) \in Range(s) /\ Head(s) \in S
         /\ Range(Tail(s)) = Range(s) \ {Head(s)}
<1> DEFINE first == SubSeq(s, 1, 1)
           rest == SubSeq(s, 1 + 1, Len(s))
<1>1. 1 \in 0..Len(s) /\ Head(s) = s[1] /\ Tail(s) = SubSeq(s, 1 + 1, Len(s))
  BY TailIsSubSeq
<1>2. Range(first) = {Head(s)}
  <2>1. first \in Seq(S) /\ Len(first) = 1 /\ first[1] = Head(s)
    BY <1>1, SubSeqProperties
  <2>2. QED
    BY <2>1 DEF Range
<1>3. Head(s) \in S /\ Head(s) \in Range(s)
  BY <1>1 DEF Range
<1>4. /\ rest \in Seq(S) /\ IsInjective(rest)
      /\ Range(first) \union Range(rest) = Range(s)
      /\ Range(first) \intersect Range(rest) = {}
  BY <1>1, Split
<1>5. Tail(s) = rest
  BY <1>1
<1> HIDE DEF first, rest
<1>6. QED
  BY <1>2, <1>3, <1>4, <1>5

-----------------------------------------------------------------------------
(* The invariant holds initially *)

LEMMA InvariantInit == Init => IInv
<1>1. SUFFICES ASSUME Init PROVE IInv
  OBVIOUS
<1>2. /\ coming \in Seq(Connections) /\ IsInjective(coming)
      /\ Range(coming) = Connections
      /\ m_free_threads \in Seq(Threads) /\ IsInjective(m_free_threads)
      /\ Range(m_free_threads) = Threads
  BY <1>1, TcpServerAssumption, SetToSeqOf DEF Init
<1>3. arriving = << >> /\ IsInjective(arriving) /\ Range(arriving) = {}
  BY <1>1 DEF Init, IsInjective, Range
<1>4. \A t \in Threads : pc[t] = "idle" /\ m_socket[t] = None
  BY <1>1 DEF Init
<1>5. TypeOK
  <2>1. /\ pc \in [Threads -> ThreadStates]
        /\ m_socket \in [Threads -> Connections \union {None}]
        /\ acceptor \in AcceptorStates
    BY <1>1 DEF Init, AcceptorStates, ThreadStates
  <2>2. read \in [Connections -> Nat]
    BY <1>1 DEF Init
  <2>3. \A c \in Connections : read[c] <= MaxRequests[c]
    BY <1>1, TcpServerAssumption DEF Init
  <2>4. /\ answers \in [Connections -> Seq(Requests)]
        /\ to_handler \in [Threads -> Seq(Requests)]
        /\ from_handler \in [Threads -> Seq(Requests)]
        /\ to_resolver \in [Threads -> Seq(Requests)]
        /\ from_resolver \in [Threads -> Seq(Requests)]
    BY <1>1 DEF Init
  <2>5. /\ slots_in \in Seq(Channelled) /\ slots_out \in Seq(Channelled)
        /\ slots \subseteq Channelled /\ forwarder_out \in Seq(Requests)
    BY <1>1 DEF Init
  <2>6. forwards \in [Requests -> {"no", "asking", "answered", "unanswered"}]
    BY <1>1 DEF Init
  <2>7. lost \subseteq Requests /\ shutdown \in BOOLEAN
    BY <1>1 DEF Init
  <2>8. QED
    BY <1>2, <1>3, <1>4, <2>1, <2>2, <2>3, <2>4, <2>5, <2>6, <2>7 DEF TypeOK
<1>6. LentOnce
  BY <1>2, <1>4, Containing DEF LentOnce
<1>7. Unserved
  BY <1>2, <1>3, <1>4, TcpServerAssumption DEF Unserved
<1>8. QED
  BY <1>5, <1>6, <1>7 DEF IInv

-----------------------------------------------------------------------------
(* Lending threads *)

\* The threads of the pool are those without a socket.
LEMMA Free ==
  ASSUME IInv
  PROVE  \A t \in Threads : m_socket[t] = None <=> t \in Range(m_free_threads)
BY Containing DEF IInv, TypeOK, LentOnce

\* What a step must do to the pool and the sockets to keep them right
LEMMA Lending ==
  ASSUME m_free_threads' \in Seq(Threads), IsInjective(m_free_threads'),
         \A t \in Threads :
           m_socket'[t] = None <=> t \in Range(m_free_threads'),
         \A t, u \in Threads : m_socket'[t] = m_socket'[u] /\ t # u
                                 => m_socket'[t] = None
  PROVE  LentOnce'
BY Containing DEF LentOnce

LEMMA Same ==
  ASSUME IInv, UNCHANGED <<coming, arriving, m_free_threads, m_socket>>
  PROVE  LentOnce' /\ Unserved'
BY DEF IInv, LentOnce, Unserved

LEMMA DoneStep ==
  ASSUME IInv, NEW t \in Threads, m_socket[t] # None, Done(t)
  PROVE  /\ coming' = coming /\ arriving' = arriving
         /\ acceptor' \in AcceptorStates
         /\ m_free_threads' \in Seq(Threads)
         /\ m_socket' = [m_socket EXCEPT ![t] = None]
         /\ LentOnce' /\ Unserved'
<1>1. /\ coming' = coming /\ arriving' = arriving
      /\ m_free_threads' = Append(m_free_threads, t)
      /\ m_socket' = [m_socket EXCEPT ![t] = None]
  BY DEF Done, Put
<1>2. acceptor' \in AcceptorStates
  BY DEF IInv, TypeOK, Done, Put, AcceptorStates
<1>3. /\ m_free_threads \in Seq(Threads) /\ IsInjective(m_free_threads)
      /\ m_socket \in [Threads -> Connections \union {None}]
  BY DEF IInv, TypeOK, LentOnce
<1>4. t \notin Range(m_free_threads)
  BY Free
<1>5. /\ m_free_threads' \in Seq(Threads) /\ IsInjective(m_free_threads')
      /\ Range(m_free_threads') = Range(m_free_threads) \union {t}
  BY <1>1, <1>3, <1>4, AppendNew
<1>6. \A u \in Threads :
        m_socket'[u] = None <=> u \in Range(m_free_threads')
  BY <1>1, <1>3, <1>5, Free
<1>7. \A u, v \in Threads : m_socket'[u] = m_socket'[v] /\ u # v
                              => m_socket'[u] = None
  BY <1>1, <1>3 DEF IInv, LentOnce
<1>8. LentOnce'
  BY <1>5, <1>6, <1>7, Lending
<1>9. Unserved'
  <2>1. Range(coming) \subseteq Connections /\ Range(arriving) \subseteq Connections
    BY Elements DEF IInv, TypeOK
  <2>2. None \notin Range(coming) \union Range(arriving)
    BY <2>1, TcpServerAssumption
  <2>3. QED
    BY <1>1, <1>3, <2>2 DEF IInv, Unserved
<1>10. QED
  BY <1>1, <1>2, <1>5, <1>8, <1>9

LEMMA AcceptStep ==
  ASSUME IInv, Accept
  PROVE  IInv'
<1>1. PICK n \in 1..Len(coming) : /\ arriving' = SubSeq(coming, 1, n)
                                  /\ coming' = SubSeq(coming, n + 1, Len(coming))
  BY DEF Accept
<1>2. /\ coming \in Seq(Connections) /\ IsInjective(coming)
      /\ n \in 0..Len(coming)
  BY DEF IInv, TypeOK, Unserved
<1>3. /\ arriving' \in Seq(Connections) /\ coming' \in Seq(Connections)
      /\ IsInjective(arriving') /\ IsInjective(coming')
      /\ Range(arriving') \union Range(coming') = Range(coming)
      /\ Range(arriving') \intersect Range(coming') = {}
  BY <1>1, <1>2, Split
<1>4. UNCHANGED <<acceptor, m_free_threads, threads, handlers, channels,
                  resolver, forwarder, lost, shutdown>>
  BY DEF Accept
<1>5. TypeOK'
  BY <1>3, <1>4 DEF IInv, TypeOK, threads, handlers, channels, resolver,
                    forwarder
<1>6. LentOnce'
  BY <1>4 DEF IInv, LentOnce, threads
<1>7. Unserved'
  BY <1>3, <1>4 DEF IInv, Unserved, threads
<1>8. QED
  BY <1>5, <1>6, <1>7 DEF IInv

LEMMA ServeStep ==
  ASSUME IInv, Serve
  PROVE  IInv'
<1> DEFINE t == Last(m_free_threads)
           c == Head(arriving)
<1>1. /\ m_free_threads' = Front(m_free_threads)
      /\ m_socket' = [m_socket EXCEPT ![t] = c]
      /\ arriving' = Tail(arriving)
      /\ acceptor' = "accepting"
      /\ m_free_threads # << >> /\ arriving # << >>
      /\ UNCHANGED <<coming, pc, read, answers, handlers, channels, resolver,
                     forwarder, lost, shutdown>>
  BY DEF Serve
<1>2. /\ m_free_threads \in Seq(Threads) /\ IsInjective(m_free_threads)
      /\ arriving \in Seq(Connections) /\ IsInjective(arriving)
      /\ m_socket \in [Threads -> Connections \union {None}]
  BY DEF IInv, TypeOK, LentOnce, Unserved
<1>3. /\ m_free_threads' \in Seq(Threads) /\ IsInjective(m_free_threads')
      /\ t \in Threads /\ t \in Range(m_free_threads)
      /\ Range(m_free_threads') = Range(m_free_threads) \ {t}
  BY <1>1, <1>2, TakeLast
<1>4. /\ arriving' \in Seq(Connections) /\ IsInjective(arriving')
      /\ c \in Connections /\ c \in Range(arriving)
      /\ Range(arriving') = Range(arriving) \ {c}
  BY <1>1, <1>2, TakeHead
<1> HIDE DEF t, c
<1>5. c # None
  BY <1>4, TcpServerAssumption
<1>6. m_socket' \in [Threads -> Connections \union {None}]
  BY <1>1, <1>2, <1>3, <1>4
<1>7. TypeOK'
  <2>1. \A u \in Threads : pc'[u] \in {"reading", "asking", "written"}
                           => m_socket'[u] # None
    BY <1>1, <1>2, <1>3, <1>5 DEF IInv, TypeOK
  <2>2. QED
    BY <1>1, <1>3, <1>4, <1>6, <2>1
       DEF IInv, TypeOK, handlers, channels, resolver, forwarder, AcceptorStates
<1>8. LentOnce'
  <2>1. \A u \in Threads :
          m_socket'[u] = None <=> u \in Range(m_free_threads')
    BY <1>1, <1>2, <1>3, <1>5, Free
  <2>2. \A u \in Threads : m_socket[u] # c
    BY <1>4 DEF IInv, Unserved
  <2>3. \A u, v \in Threads : m_socket'[u] = m_socket'[v] /\ u # v
                                => m_socket'[u] = None
    BY <1>1, <1>2, <1>3, <2>2 DEF IInv, LentOnce
  <2>4. QED
    BY <1>3, <2>1, <2>3, Lending
<1>9. Unserved'
  <2>1. c \notin Range(coming)
    BY <1>4 DEF IInv, Unserved
  <2>2. QED
    BY <1>1, <1>2, <1>3, <1>4, <2>1 DEF IInv, Unserved
<1>10. QED
  BY <1>7, <1>8, <1>9 DEF IInv

LEMMA TimeoutStep ==
  ASSUME IInv, Timeout
  PROVE  IInv'
<1>1. /\ acceptor' = "accepting" /\ arriving' = << >>
      /\ UNCHANGED <<coming, m_free_threads, threads, handlers, channels,
                     resolver, forwarder, lost, shutdown>>
  BY DEF Timeout
<1>2. IsInjective(arriving') /\ Range(arriving') = {}
  BY <1>1 DEF IsInjective, Range
<1>3. TypeOK'
  BY <1>1, SMTT(60) DEF IInv, TypeOK, threads, handlers, channels, resolver, forwarder,
              AcceptorStates
<1>4. LentOnce'
  BY <1>1 DEF IInv, LentOnce, threads
<1>5. Unserved'
  BY <1>1, <1>2 DEF IInv, Unserved, threads
<1>6. QED
  BY <1>3, <1>4, <1>5 DEF IInv

-----------------------------------------------------------------------------
(* Serving them *)

LEMMA ReadStep ==
  ASSUME IInv, NEW t \in Threads, Read(t)
  PROVE  IInv'
<1> DEFINE c == m_socket[t]
           r == [connection |-> c, number |-> read[c] + 1]
<1>1. /\ pc[t] = "reading" /\ read[c] < MaxRequests[c]
      /\ read' = [read EXCEPT ![c] = @ + 1]
      /\ to_handler' = [to_handler EXCEPT ![t] = Append(@,
                          [connection |-> c, number |-> read'[c]])]
      /\ pc' = [pc EXCEPT ![t] = "asking"]
      /\ UNCHANGED <<coming, acceptor, arriving, m_free_threads, m_socket,
                     answers, from_handler, to_resolver, from_resolver,
                     slots_in, slots, slots_out, forwards, forwarder_out, lost,
                     shutdown>>
  BY DEF Read, pool, channels, resolver, forwarder
<1>2. c \in Connections /\ read \in [Connections -> Nat]
  BY <1>1 DEF IInv, TypeOK
<1>3. /\ read' \in [Connections -> Nat]
      /\ read'[c] = read[c] + 1
      /\ \A d \in Connections : read'[d] <= MaxRequests[d]
  <2>1. MaxRequests \in [Connections -> Nat]
    BY TcpServerAssumption
  <2>2. \A d \in Connections : read[d] <= MaxRequests[d]
    BY DEF IInv, TypeOK
  <2> HIDE DEF c
  <2>3. read' \in [Connections -> Nat] /\ read'[c] = read[c] + 1
    BY <1>1, <1>2
  <2>4. ASSUME NEW d \in Connections PROVE read'[d] <= MaxRequests[d]
    BY <1>1, <1>2, <2>1, <2>2
  <2>5. QED
    BY <2>3, <2>4
<1>4. r \in Requests
  <2>1. read[c] + 1 \in 1..MaxRequests[c]
    BY <1>1, <1>2, TcpServerAssumption
  <2>2. r \in [connection : {c}, number : 1..MaxRequests[c]]
    BY <2>1
  <2>3. QED
    BY <1>2, <2>2 DEF Requests
<1>5. to_handler' \in [Threads -> Seq(Requests)]
  <2>1. to_handler' = [to_handler EXCEPT ![t] = Append(@, r)]
    BY <1>1, <1>3
  <2> HIDE DEF r, c
  <2>2. to_handler \in [Threads -> Seq(Requests)]
    BY DEF IInv, TypeOK
  <2>3. Append(to_handler[t], r) \in Seq(Requests)
    BY <1>4, <2>2
  <2>4. QED
    BY <2>1, <2>2, <2>3
<1>6. /\ pc' \in [Threads -> ThreadStates]
      /\ \A u \in Threads : pc'[u] \in {"reading", "asking", "written"}
                            => m_socket'[u] # None
  BY <1>1 DEF IInv, TypeOK, ThreadStates
<1> HIDE DEF r, c
<1>7. TypeOK'
  BY <1>1, <1>3, <1>5, <1>6 DEF IInv, TypeOK
<1>8. QED
  BY <1>1, <1>7, Same DEF IInv

LEMMA AnswerStep ==
  ASSUME IInv, NEW t \in Threads, Answer(t)
  PROVE  IInv'
<1>1. /\ pc[t] = "asking" /\ from_handler[t] # << >>
      /\ from_handler' = [from_handler EXCEPT ![t] = Tail(@)]
      /\ UNCHANGED <<read, to_handler, to_resolver, from_resolver, slots_in,
                     slots, slots_out, forwards, forwarder_out, lost, shutdown>>
  BY DEF Answer, channels, resolver, forwarder
<1>2. /\ m_socket[t] # None /\ m_socket[t] \in Connections
      /\ from_handler \in [Threads -> Seq(Requests)]
      /\ answers \in [Connections -> Seq(Requests)]
  BY <1>1 DEF IInv, TypeOK
<1>3. from_handler' \in [Threads -> Seq(Requests)]
  BY <1>1, <1>2
<1>4. CASE /\ answers' = [answers EXCEPT ![m_socket[t]] =
                            Append(@, Head(from_handler[t]))]
           /\ pc' = [pc EXCEPT ![t] = "written"]
           /\ UNCHANGED <<pool, m_socket>>
  <2>1. Head(from_handler[t]) \in Requests
    BY <1>1, <1>2
  <2>2. answers' \in [Connections -> Seq(Requests)]
    BY <1>2, <1>4, <2>1
  <2>3. /\ pc' \in [Threads -> ThreadStates]
        /\ \A u \in Threads : pc'[u] \in {"reading", "asking", "written"}
                              => m_socket'[u] # None
    BY <1>1, <1>4 DEF IInv, TypeOK, ThreadStates
  <2>4. TypeOK'
    BY <1>1, <1>3, <1>4, <2>2, <2>3 DEF IInv, TypeOK, pool
  <2>5. QED
    BY <1>4, <2>4, Same DEF IInv, pool
<1>5. CASE /\ Done(t)
           /\ pc' = [pc EXCEPT ![t] = "idle"]
           /\ UNCHANGED answers
  <2>1. /\ coming' = coming /\ arriving' = arriving
        /\ acceptor' \in AcceptorStates
        /\ m_free_threads' \in Seq(Threads)
        /\ m_socket' = [m_socket EXCEPT ![t] = None]
        /\ LentOnce' /\ Unserved'
    BY <1>2, <1>5, DoneStep
  <2>2. /\ pc' \in [Threads -> ThreadStates]
        /\ m_socket' \in [Threads -> Connections \union {None}]
        /\ \A u \in Threads : pc'[u] \in {"reading", "asking", "written"}
                              => m_socket'[u] # None
    BY <1>5, <2>1 DEF IInv, TypeOK, ThreadStates
  <2>3. TypeOK'
    BY <1>1, <1>3, <1>5, <2>1, <2>2 DEF IInv, TypeOK
  <2>4. QED
    BY <2>1, <2>3 DEF IInv
<1>6. QED
  BY <1>4, <1>5 DEF Answer

\* A thread that is done, and goes to whatever place without a connection
LEMMA LeaveStep ==
  ASSUME IInv, NEW t \in Threads, HangUp(t) \/ StopAsking(t)
  PROVE  IInv'
<1>1. /\ Done(t) /\ pc[t] \in {"reading", "asking"}
      /\ \E place \in {"idle", "ended"} : pc' = [pc EXCEPT ![t] = place]
      /\ UNCHANGED <<read, answers, handlers, channels, resolver, forwarder,
                     lost, shutdown>>
  BY DEF HangUp, StopAsking
<1>2. m_socket[t] # None
  BY <1>1 DEF IInv, TypeOK
<1>3. /\ coming' = coming /\ arriving' = arriving
      /\ acceptor' \in AcceptorStates
      /\ m_free_threads' \in Seq(Threads)
      /\ m_socket' = [m_socket EXCEPT ![t] = None]
      /\ LentOnce' /\ Unserved'
  BY <1>1, <1>2, DoneStep
<1>4. /\ pc' \in [Threads -> ThreadStates]
      /\ m_socket' \in [Threads -> Connections \union {None}]
      /\ \A u \in Threads : pc'[u] \in {"reading", "asking", "written"}
                            => m_socket'[u] # None
  BY <1>1, <1>3 DEF IInv, TypeOK, ThreadStates
<1>5. TypeOK'
  BY <1>1, <1>3, <1>4
     DEF IInv, TypeOK, handlers, channels, resolver, forwarder
<1>6. QED
  BY <1>3, <1>5 DEF IInv

\* A thread that goes on, and keeps the connection it has if it has one
LEMMA GoOnStep ==
  ASSUME IInv, NEW t \in Threads, Start(t) \/ End(t) \/ Continue(t)
  PROVE  IInv'
<1>1. /\ \E place \in ThreadStates : pc' = [pc EXCEPT ![t] = place]
      /\ pc'[t] \in {"reading", "asking", "written"} => m_socket[t] # None
      /\ UNCHANGED <<pool, m_socket, read, answers, handlers, channels,
                     resolver, forwarder, lost, shutdown>>
  BY DEF IInv, TypeOK, Start, End, Continue, ThreadStates
<1>2. /\ pc' \in [Threads -> ThreadStates]
      /\ \A u \in Threads : pc'[u] \in {"reading", "asking", "written"}
                            => m_socket'[u] # None
  BY <1>1 DEF IInv, TypeOK
<1>3. TypeOK'
  BY <1>1, <1>2
     DEF IInv, TypeOK, pool, handlers, channels, resolver, forwarder
<1>4. QED
  BY <1>1, <1>3, Same DEF IInv, pool

-----------------------------------------------------------------------------
(* Handing requests on *)

\* A request goes from the head of a queue to the end of another, or to a set.
LEMMA Taking ==
  ASSUME NEW S, NEW D, NEW f \in [D -> Seq(S)], NEW d \in D, f[d] # << >>
  PROVE  Head(f[d]) \in S /\ [f EXCEPT ![d] = Tail(@)] \in [D -> Seq(S)]
OBVIOUS

LEMMA Giving ==
  ASSUME NEW S, NEW D, NEW f \in [D -> Seq(S)], NEW d \in D, NEW e \in S
  PROVE  [f EXCEPT ![d] = Append(@, e)] \in [D -> Seq(S)]
OBVIOUS

LEMMA HandleStep ==
  ASSUME IInv, NEW t \in Threads, Handle(t)
  PROVE  IInv'
<1> DEFINE r == Head(to_handler[t])
<1>1. /\ to_handler[t] # << >>
      /\ to_handler' = [to_handler EXCEPT ![t] = Tail(@)]
      /\ UNCHANGED <<pool, threads, slots_in, slots, slots_out, forwarder_out,
                     from_resolver, shutdown>>
  BY DEF Handle, resolver, channels
<1>2. /\ to_handler \in [Threads -> Seq(Requests)]
      /\ from_handler \in [Threads -> Seq(Requests)]
      /\ to_resolver \in [Threads -> Seq(Requests)]
      /\ forwards \in [Requests -> {"no", "asking", "answered", "unanswered"}]
      /\ lost \subseteq Requests
  BY DEF IInv, TypeOK
<1>3. r \in Requests /\ to_handler' \in [Threads -> Seq(Requests)]
  BY <1>1, <1>2, Taking
<1>4. /\ from_handler' = from_handler
           \/ from_handler' = [from_handler EXCEPT ![t] = Append(@, r)]
      /\ to_resolver' = to_resolver
           \/ to_resolver' = [to_resolver EXCEPT ![t] = Append(@, r)]
      /\ forwards' = forwards \/ forwards' = [forwards EXCEPT ![r] = "asking"]
      /\ lost' = lost \/ lost' = lost \union {r}
  BY DEF Handle, channels
<1> HIDE DEF r
<1>5. /\ from_handler' \in [Threads -> Seq(Requests)]
      /\ to_resolver' \in [Threads -> Seq(Requests)]
  <2>1. /\ [from_handler EXCEPT ![t] = Append(@, r)]
              \in [Threads -> Seq(Requests)]
        /\ [to_resolver EXCEPT ![t] = Append(@, r)]
              \in [Threads -> Seq(Requests)]
    BY <1>2, <1>3, Giving
  <2>2. QED
    BY <1>2, <1>4, <2>1
<1>6. /\ forwards' \in [Requests -> {"no", "asking", "answered", "unanswered"}]
      /\ lost' \subseteq Requests
  BY <1>2, <1>3, <1>4
<1>7. TypeOK'
  BY <1>1, <1>3, <1>5, <1>6 DEF IInv, TypeOK, pool, threads
<1>8. QED
  BY <1>1, <1>7, Same DEF IInv, pool, threads

LEMMA ResponseStep ==
  ASSUME IInv, NEW t \in Threads,
         GetResolverResponse(t) \/ GetForwarderResponse(t)
  PROVE  IInv'
<1>1. /\ from_handler \in [Threads -> Seq(Requests)]
      /\ from_resolver \in [Threads -> Seq(Requests)]
      /\ forwarder_out \in Seq(Requests)
  BY DEF IInv, TypeOK
<1>2. CASE GetResolverResponse(t)
  <2>1. /\ from_resolver[t] # << >>
        /\ from_resolver' = [from_resolver EXCEPT ![t] = Tail(@)]
        /\ from_handler' = [from_handler EXCEPT ![t] =
                              Append(@, Head(from_resolver[t]))]
        /\ UNCHANGED <<pool, threads, to_handler, to_resolver, resolver,
                       forwarder, lost, shutdown>>
    BY <1>2 DEF GetResolverResponse
  <2>2. /\ Head(from_resolver[t]) \in Requests
        /\ from_resolver' \in [Threads -> Seq(Requests)]
    BY <1>1, <2>1, Taking
  <2>3. from_handler' \in [Threads -> Seq(Requests)]
    BY <1>1, <2>1, <2>2, Giving
  <2>4. TypeOK'
    BY <2>1, <2>2, <2>3 DEF IInv, TypeOK, pool, threads, resolver, forwarder
  <2>5. QED
    BY <2>1, <2>4, Same DEF IInv, pool, threads
<1>3. CASE GetForwarderResponse(t)
  <2>1. /\ forwarder_out # << >> /\ forwarder_out' = Tail(forwarder_out)
        /\ from_handler' = [from_handler EXCEPT ![t] =
                              Append(@, Head(forwarder_out))]
        /\ UNCHANGED <<pool, threads, to_handler, channels, resolver, forwards,
                       lost, shutdown>>
    BY <1>3 DEF GetForwarderResponse
  <2>2. Head(forwarder_out) \in Requests /\ forwarder_out' \in Seq(Requests)
    BY <1>1, <2>1
  <2>3. from_handler' \in [Threads -> Seq(Requests)]
    BY <1>1, <2>1, <2>2, Giving
  <2>4. TypeOK'
    BY <2>1, <2>2, <2>3 DEF IInv, TypeOK, pool, threads, channels, resolver
  <2>5. QED
    BY <2>1, <2>4, Same DEF IInv, pool, threads
<1>4. QED
  BY <1>2, <1>3

LEMMA MuxStep ==
  ASSUME IInv, NEW t \in Threads, Mux(t)
  PROVE  IInv'
<1> DEFINE r == Head(to_resolver[t])
           x == [request |-> r, channel |-> t]
<1>1. /\ to_resolver[t] # << >>
      /\ to_resolver' = [to_resolver EXCEPT ![t] = Tail(@)]
      /\ slots_in' = slots_in \/ slots_in' = Append(slots_in, x)
      /\ lost' = lost \/ lost' = lost \union {r}
      /\ UNCHANGED <<pool, threads, handlers, from_resolver, slots, slots_out,
                     forwarder, shutdown>>
  BY DEF Mux
<1>2. /\ to_resolver \in [Threads -> Seq(Requests)]
      /\ slots_in \in Seq(Channelled) /\ lost \subseteq Requests
  BY DEF IInv, TypeOK
<1>3. r \in Requests /\ to_resolver' \in [Threads -> Seq(Requests)]
  BY <1>1, <1>2, Taking
<1>4. x \in Channelled
  BY <1>3 DEF Channelled
<1> HIDE DEF r, x
<1>5. slots_in' \in Seq(Channelled) /\ lost' \subseteq Requests
  <2>1. Append(slots_in, x) \in Seq(Channelled)
    BY <1>2, <1>4
  <2>2. QED
    BY <1>1, <1>2, <1>3, <2>1
<1>6. TypeOK'
  BY <1>1, <1>3, <1>5 DEF IInv, TypeOK, pool, threads, handlers, forwarder
<1>7. QED
  BY <1>1, <1>6, Same DEF IInv, pool, threads

LEMMA SlotStep ==
  ASSUME IInv, Resolve \/ Demux \/ \E x \in slots : Resolved(x)
  PROVE  IInv'
<1>1. /\ slots_in \in Seq(Channelled) /\ slots_out \in Seq(Channelled)
      /\ slots \subseteq Channelled /\ lost \subseteq Requests
      /\ from_resolver \in [Threads -> Seq(Requests)]
  BY DEF IInv, TypeOK
<1>2. CASE Resolve
  <2>1. TypeOK'
    BY <1>1, <1>2 DEF Resolve, IInv, TypeOK, pool, threads, handlers, channels,
                      forwarder
  <2>2. QED
    BY <1>2, <2>1, Same DEF Resolve, IInv, pool, threads
<1>3. CASE Demux
  <2>1. Head(slots_out) \in Channelled /\ slots_out' \in Seq(Channelled)
    BY <1>1, <1>3 DEF Demux
  <2>2. Head(slots_out).request \in Requests /\ Head(slots_out).channel \in Threads
    BY <2>1 DEF Channelled
  <2>3. from_resolver' = [from_resolver EXCEPT ![Head(slots_out).channel] =
                            Append(@, Head(slots_out).request)]
    BY <1>3 DEF Demux
  <2>4. from_resolver' \in [Threads -> Seq(Requests)]
    BY <1>1, <2>2, <2>3, Giving
  <2>5. TypeOK'
    BY <1>3, <2>1, <2>4 DEF Demux, IInv, TypeOK, pool, threads, handlers,
                            forwarder
  <2>6. QED
    BY <1>3, <2>5, Same DEF Demux, IInv, pool, threads
<1>4. CASE \E x \in slots : Resolved(x)
  <2>1. PICK x \in slots : Resolved(x)
    BY <1>4
  <2>2. x \in Channelled /\ x.request \in Requests
    BY <1>1 DEF Channelled
  <2>3. /\ slots' \subseteq Channelled /\ slots_out' \in Seq(Channelled)
        /\ lost' \subseteq Requests
    <3>1. Append(slots_out, x) \in Seq(Channelled)
      BY <1>1, <2>2
    <3>2. QED
      BY <1>1, <2>1, <2>2, <3>1 DEF Resolved
  <2>4. UNCHANGED <<pool, threads, handlers, channels, slots_in, forwarder,
                    shutdown>>
    BY <2>1 DEF Resolved
  <2>5. TypeOK'
    BY <2>3, <2>4 DEF IInv, TypeOK, pool, threads, handlers, channels, forwarder
  <2>6. QED
    BY <2>4, <2>5, Same DEF IInv, pool, threads
<1>5. QED
  BY <1>2, <1>3, <1>4

LEMMA ForwardedStep ==
  ASSUME IInv, NEW r \in Requests, Forwarded(r)
  PROVE  IInv'
<1>1. /\ forwards \in [Requests -> {"no", "asking", "answered", "unanswered"}]
      /\ forwarder_out \in Seq(Requests) /\ lost \subseteq Requests
  BY DEF IInv, TypeOK
<1>2. /\ forwards' \in [Requests -> {"no", "asking", "answered", "unanswered"}]
      /\ forwarder_out' \in Seq(Requests) /\ lost' \subseteq Requests
  BY <1>1 DEF Forwarded
<1>3. UNCHANGED <<pool, threads, handlers, channels, resolver, shutdown>>
  BY DEF Forwarded
<1>4. TypeOK'
  BY <1>2, <1>3 DEF IInv, TypeOK, pool, threads, handlers, channels, resolver
<1>5. QED
  BY <1>3, <1>4, Same DEF IInv, pool, threads

\* Waiting for a thread, and the steps of the program's end
LEMMA WaitingStep ==
  ASSUME IInv,
         Wait \/ WaitFor \/ SpuriousWakeup \/ EndAccepting \/ Shutdown
  PROVE  IInv'
<1>1. /\ acceptor' \in AcceptorStates /\ shutdown' \in BOOLEAN
      /\ UNCHANGED <<coming, arriving, m_free_threads, threads, handlers,
                     channels, resolver, forwarder, lost>>
  BY DEF IInv, TypeOK, Wait, WaitFor, SpuriousWakeup, EndAccepting, Shutdown,
         AcceptorStates, pool
<1>2. TypeOK'
  BY <1>1 DEF IInv, TypeOK, threads, handlers, channels, resolver, forwarder
<1>3. QED
  BY <1>1, <1>2, Same DEF IInv, threads

-----------------------------------------------------------------------------
LEMMA InvariantStep == IInv /\ [Next]_vars => IInv'
<1>1. SUFFICES ASSUME IInv, [Next]_vars PROVE IInv'
  OBVIOUS
<1>2. CASE Acceptor
  BY <1>1, <1>2, AcceptStep, ServeStep, TimeoutStep, WaitingStep DEF Acceptor
<1>3. CASE Shutdown
  BY <1>1, <1>3, WaitingStep
<1>4. ASSUME NEW t \in Threads, Connection(t)
      PROVE  IInv'
  BY <1>1, <1>4, ReadStep, AnswerStep, LeaveStep, GoOnStep DEF Connection
<1>5. ASSUME NEW t \in Threads,
             Handler(t) \/ GetForwarderResponse(t) \/ Mux(t)
      PROVE  IInv'
  BY <1>1, <1>5, HandleStep, ResponseStep, MuxStep DEF Handler
<1>6. CASE Resolve \/ Demux \/ \E x \in slots : Resolved(x)
  BY <1>1, <1>6, SlotStep
<1>7. ASSUME NEW r \in Requests, Forwarded(r)
      PROVE  IInv'
  BY <1>1, <1>7, ForwardedStep
<1>8. CASE UNCHANGED vars
  <2>1. TypeOK'
    BY <1>1, <1>8 DEF IInv, TypeOK, vars, pool, threads, handlers, channels,
                      resolver, forwarder
  <2>2. QED
    BY <1>1, <1>8, <2>1, Same DEF IInv, vars, pool, threads
<1>9. QED
  BY <1>1, <1>2, <1>3, <1>4, <1>5, <1>6, <1>7, <1>8 DEF Next

\* Every variable keeps its type, whatever clients and resolvers do.
THEOREM TypeCorrect == Spec => []TypeOK
<1>1. IInv => TypeOK
  BY DEF IInv
<1>2. QED
  BY InvariantInit, InvariantStep, <1>1, PTL DEF Spec

\* thread_pool lends every connection thread to one connection at a time, and
\* run gives the thread back exactly once, however the connection ends.
THEOREM LendsOnce == Spec => []LentOnce
<1>1. IInv => LentOnce
  BY DEF IInv
<1>2. QED
  BY InvariantInit, InvariantStep, <1>1, PTL DEF Spec

-----------------------------------------------------------------------------
(* Answers.  While a connection thread asks, its request is in one place   *)
(* between its handler and the slots, or lost; while it does not, there is *)
(* none.  A response from the forwarding resolver goes to any handler,     *)
(* which is why all this ends with the first request that is forwarded.    *)

NoForwards == \A r \in Requests : forwards[r] = "no"

Places == {"to_handler", "from_handler", "to_resolver", "from_resolver",
           "slots_in", "slots", "slots_out", "nowhere"}

\* A queue of all channels has x, and nothing else of its channel.
Once(queue, x) ==
  \E i \in DOMAIN queue :
    /\ queue[i] = x
    /\ \A j \in DOMAIN queue : queue[j].channel = x.channel => j = i

Absent(queue, t) == \A i \in DOMAIN queue : queue[i].channel # t

\* The request r, and no other of thread t, is at a place.
At(t, place, r) ==
  LET x == [request |-> r, channel |-> t]
  IN  /\ to_handler[t] = IF place = "to_handler" THEN <<r>> ELSE <<>>
      /\ from_handler[t] = IF place = "from_handler" THEN <<r>> ELSE <<>>
      /\ to_resolver[t] = IF place = "to_resolver" THEN <<r>> ELSE <<>>
      /\ from_resolver[t] = IF place = "from_resolver" THEN <<r>> ELSE <<>>
      /\ IF place = "slots_in" THEN Once(slots_in, x) ELSE Absent(slots_in, t)
      /\ {y \in slots : y.channel = t} = IF place = "slots" THEN {x} ELSE {}
      /\ IF place = "slots_out" THEN Once(slots_out, x)
                                ELSE Absent(slots_out, t)

NoRequest == [connection |-> None, number |-> 0]
AnyRequest == Requests \union {NoRequest}

\* The latest request of the connection that t serves
Current(t) == [connection |-> m_socket[t], number |-> read[m_socket[t]]]

Carried(t) == \E place \in Places, r \in AnyRequest :
  /\ At(t, place, r)
  /\ pc[t] \in {"idle", "reading", "written"} => place = "nowhere"
  /\ pc[t] = "asking" => r = Current(t)

\* Every request that was read is answered, but the one that is asked for.
Counted ==
  /\ \A c \in Range(coming) \union Range(arriving) : Len(answers[c]) = read[c]
  /\ \A t \in Threads : m_socket[t] # None =>
       /\ pc[t] \in {"idle", "reading", "written"} =>
            Len(answers[m_socket[t]]) = read[m_socket[t]]
       /\ pc[t] = "asking" => Len(answers[m_socket[t]]) + 1 = read[m_socket[t]]

OwnAnswers == \A c \in Connections : \A n \in DOMAIN answers[c] :
  answers[c][n] = [connection |-> c, number |-> n]

Served ==
  forwarder_out = <<>> /\ Counted /\ OwnAnswers /\ \A t \in Threads : Carried(t)

ServedInv == IInv /\ (NoForwards => Served)

\* A forwarded request stays one that was forwarded.
LEMMA NeverForwarded ==
  ASSUME IInv, [Next]_vars, NoForwards'
  PROVE  NoForwards /\ UNCHANGED forwards
<1>1. forwards \in [Requests -> {"no", "asking", "answered", "unanswered"}]
  BY DEF IInv, TypeOK
<1>2. ASSUME NEW t \in Threads, Handle(t)
      PROVE  UNCHANGED forwards
  <2>1. Head(to_handler[t]) \in Requests
    BY <1>2, Taking, SMTT(60) DEF Handle, IInv, TypeOK
  <2>2. CASE forwards' = [forwards EXCEPT ![Head(to_handler[t])] = "asking"]
    BY <1>1, <2>1, <2>2 DEF NoForwards
  <2>3. QED
    BY <1>2, <2>2 DEF Handle
<1>3. ASSUME NEW r \in Requests, Forwarded(r)
      PROVE  UNCHANGED forwards
  BY <1>1, <1>3 DEF Forwarded, NoForwards
<1>4. UNCHANGED forwards
  BY <1>2, <1>3 DEF Next, Acceptor, Accept, Serve, Wait, WaitFor,
     SpuriousWakeup, Timeout, EndAccepting, Shutdown, Connection, Start, End,
     Read, HangUp, Answer, Continue, StopAsking, Handler, GetResolverResponse,
     GetForwarderResponse, Mux, Resolve, Demux, Resolved, vars, forwarder
<1>5. QED
  BY <1>4 DEF NoForwards

\* Handing a request on from a queue that all channels share, or to one.
LEMMA AppendKeeps ==
  ASSUME NEW q \in Seq(Channelled), NEW x \in Channelled, NEW t \in Threads,
         t # x.channel
  PROVE  /\ Absent(q, t) => Absent(Append(q, x), t)
         /\ \A r : Once(q, [request |-> r, channel |-> t])
                     => Once(Append(q, x), [request |-> r, channel |-> t])
<1>1. /\ Len(q) \in Nat /\ DOMAIN q = 1..Len(q)
      /\ DOMAIN Append(q, x) = 1..(Len(q) + 1)
      /\ \A i \in 1..Len(q) : Append(q, x)[i] = q[i]
      /\ Append(q, x)[Len(q) + 1] = x
  OBVIOUS
<1>2. \A i \in 1..(Len(q) + 1) : i \in 1..Len(q) \/ i = Len(q) + 1
  BY <1>1
<1> DEFINE s == Append(q, x)
           d == 1..(Len(q) + 1)
<1> HIDE DEF s
<1>3. /\ DOMAIN s = d /\ \A i \in 1..Len(q) : i \in d /\ s[i] = q[i]
      /\ s[Len(q) + 1] = x
  BY <1>1 DEF s
<1> HIDE DEF d
<1>4. Absent(q, t) => Absent(s, t)
  BY <1>1, <1>2, <1>3 DEF Absent, d
<1>5. ASSUME NEW r, Once(q, [request |-> r, channel |-> t])
      PROVE  Once(s, [request |-> r, channel |-> t])
  <2> DEFINE y == [request |-> r, channel |-> t]
  <2>1. y.channel = t
    OBVIOUS
  <2> HIDE DEF y
  <2>2. PICK i \in 1..Len(q) :
          q[i] = y /\ \A j \in 1..Len(q) : q[j].channel = t => j = i
    BY <1>1, <1>5, <2>1 DEF Once, y
  <2>3. \A j \in d : s[j].channel = t => j = i
    BY <1>2, <1>3, <2>2 DEF d
  <2>4. QED
    BY <1>3, <2>1, <2>2, <2>3 DEF Once, y
<1>6. QED
  BY <1>4, <1>5 DEF s

LEMMA AppendFirst ==
  ASSUME NEW q \in Seq(Channelled), NEW x \in Channelled,
         Absent(q, x.channel)
  PROVE  Once(Append(q, x), x)
<1>1. /\ Len(q) \in Nat /\ DOMAIN q = 1..Len(q)
      /\ DOMAIN Append(q, x) = 1..(Len(q) + 1)
      /\ \A i \in 1..Len(q) : Append(q, x)[i] = q[i]
      /\ Append(q, x)[Len(q) + 1] = x
  OBVIOUS
<1>2. /\ \A i \in 1..(Len(q) + 1) : i \in 1..Len(q) \/ i = Len(q) + 1
      /\ Len(q) + 1 \in 1..(Len(q) + 1)
  BY <1>1
<1>3. QED
  BY <1>1, <1>2 DEF Once, Absent

LEMMA TailKeeps ==
  ASSUME NEW q \in Seq(Channelled), q # <<>>, NEW t \in Threads,
         t # Head(q).channel
  PROVE  /\ Absent(q, t) => Absent(Tail(q), t)
         /\ \A r : Once(q, [request |-> r, channel |-> t])
                     => Once(Tail(q), [request |-> r, channel |-> t])
<1> DEFINE n == Len(q)
           s == Tail(q)
<1>1. /\ n \in Nat \ {0} /\ DOMAIN q = 1..n
      /\ DOMAIN s = 1..(n - 1) /\ Head(q) = q[1]
      /\ \A i \in 1..(n - 1) : s[i] = q[i + 1]
  OBVIOUS
<1> HIDE DEF s, n
<1>2. \A i \in 1..(n - 1) : i + 1 \in 1..n
  BY <1>1
<1>3. Absent(q, t) => Absent(s, t)
  BY <1>1, <1>2 DEF Absent
<1>4. ASSUME NEW r, Once(q, [request |-> r, channel |-> t])
      PROVE  Once(s, [request |-> r, channel |-> t])
  <2> DEFINE y == [request |-> r, channel |-> t]
  <2>1. y.channel = t
    OBVIOUS
  <2> HIDE DEF y
  <2>2. PICK i \in 1..n :
          q[i] = y /\ \A j \in 1..n : q[j].channel = t => j = i
    BY <1>1, <1>4, <2>1 DEF Once, y
  <2>3. i # 1
    BY <1>1, <2>1, <2>2
  <2>4. i - 1 \in 1..(n - 1) /\ (i - 1) + 1 = i
    BY <1>1, <2>3
  <2>5. s[i - 1] = y
    BY <1>1, <2>2, <2>4
  <2>6. \A j \in 1..(n - 1) : s[j].channel = t => j = i - 1
    BY <1>1, <1>2, <2>2
  <2>7. QED
    BY <1>1, <2>1, <2>4, <2>5, <2>6 DEF Once, y
<1>5. QED
  BY <1>3, <1>4 DEF s

LEMMA TailLast ==
  ASSUME NEW q \in Seq(Channelled), q # <<>>, NEW r, NEW t,
         Head(q).channel = t, Once(q, [request |-> r, channel |-> t])
  PROVE  Head(q) = [request |-> r, channel |-> t] /\ Absent(Tail(q), t)
<1> DEFINE n == Len(q)
           s == Tail(q)
           y == [request |-> r, channel |-> t]
<1>1. /\ n \in Nat \ {0} /\ DOMAIN q = 1..n
      /\ DOMAIN s = 1..(n - 1) /\ Head(q) = q[1]
      /\ \A i \in 1..(n - 1) : s[i] = q[i + 1]
      /\ y.channel = t
  OBVIOUS
<1> HIDE DEF s, n, y
<1>2. PICK i \in 1..n :
        q[i] = y /\ \A j \in 1..n : q[j].channel = t => j = i
  BY <1>1 DEF Once, y
<1>3. i = 1
  BY <1>1, <1>2
<1>4. \A j \in 1..(n - 1) : j + 1 \in 1..n /\ j + 1 # 1
  BY <1>1
<1>5. QED
  BY <1>1, <1>2, <1>3, <1>4 DEF Absent, s, y

\* Where a request of a thread can be, by what is not empty
LEMMA Whereabouts ==
  ASSUME NEW t, NEW place, NEW r, At(t, place, r)
  PROVE  /\ to_handler[t] # <<>> =>
              place = "to_handler" /\ to_handler[t] = <<r>>
         /\ from_handler[t] # <<>> =>
              place = "from_handler" /\ from_handler[t] = <<r>>
         /\ to_resolver[t] # <<>> =>
              place = "to_resolver" /\ to_resolver[t] = <<r>>
         /\ from_resolver[t] # <<>> =>
              place = "from_resolver" /\ from_resolver[t] = <<r>>
         /\ ~Absent(slots_in, t) =>
              place = "slots_in" /\ Once(slots_in, [request |-> r, channel |-> t])
         /\ \A y \in slots : y.channel = t =>
              place = "slots" /\ y = [request |-> r, channel |-> t]
         /\ ~Absent(slots_out, t) =>
              place = "slots_out" /\ Once(slots_out, [request |-> r, channel |-> t])
BY DEF At

\* A thread whose request stays where it is
LEMMA CarriedStays ==
  ASSUME NEW u, Carried(u),
         \A place \in Places, r \in AnyRequest :
           At(u, place, r) => At(u, place, r)',
         pc[u] = pc'[u], Current(u)' = Current(u) \/ pc[u] # "asking"
  PROVE  Carried(u)'
BY DEF Carried

LEMMA NothingMoves ==
  ASSUME NEW u, UNCHANGED <<to_handler, from_handler, to_resolver,
                            from_resolver, slots_in, slots, slots_out>>
  PROVE  \A place, r : At(u, place, r) <=> At(u, place, r)'
BY DEF At

\* A thread whose request is handed on from one place to the next, or lost
LEMMA CarriedOn ==
  ASSUME NEW u, Carried(u),
         \A place \in Places, r \in AnyRequest : At(u, place, r) =>
           place # "nowhere" /\ \E next \in Places : At(u, next, r)',
         UNCHANGED <<pc, m_socket, read>>
  PROVE  Carried(u)'
<1>1. PICK place \in Places, r \in AnyRequest :
        /\ At(u, place, r)
        /\ pc[u] \in {"idle", "reading", "written"} => place = "nowhere"
        /\ pc[u] = "asking" => r = Current(u)
  BY DEF Carried
<1>2. PICK next \in Places : At(u, next, r)' /\ place # "nowhere"
  BY <1>1
<1>3. Current(u)' = Current(u) /\ AnyRequest' = AnyRequest
  BY DEF Current, AnyRequest, Requests
<1>4. QED
  BY <1>1, <1>2, <1>3 DEF Carried

LEMMA ServedInit == Init => ServedInv
<1> SUFFICES ASSUME Init PROVE ServedInv
  OBVIOUS
<1>1. IInv
  BY InvariantInit
<1>2. \A t \in Threads : At(t, "nowhere", NoRequest)
  BY DEF Init, At, Absent
<1>3. \A t \in Threads : Carried(t)
  <2>1. \A t \in Threads : pc[t] = "idle"
    BY DEF Init
  <2>2. "nowhere" \in Places /\ NoRequest \in AnyRequest
    BY DEF Places, AnyRequest
  <2>3. QED
    BY <1>2, <2>1, <2>2 DEF Carried
<1>4. \A c \in Connections : answers[c] = <<>> /\ read[c] = 0
  BY DEF Init
<1>5. Counted
  <2>1. Range(coming) \union Range(arriving) \subseteq Connections
    BY <1>1, Elements DEF IInv, TypeOK
  <2>2. \A t \in Threads : m_socket[t] = None
    BY DEF Init
  <2>3. QED
    BY <1>4, <2>1, <2>2 DEF Counted
<1>6. OwnAnswers
  BY <1>4 DEF OwnAnswers
<1>7. QED
  BY <1>1, <1>3, <1>5, <1>6 DEF ServedInv, Served, Init

\* Steps of the accepting thread.  A thread that is lent is not asking, and
\* its connection has read nothing that is not answered.
LEMMA AcceptorServed ==
  ASSUME IInv, IInv', Served, Acceptor \/ Shutdown
  PROVE  Served'
<1>1. UNCHANGED <<pc, read, answers, to_handler, from_handler, to_resolver,
                  from_resolver, slots_in, slots, slots_out, forwarder_out>>
  BY DEF Acceptor, Accept, Serve, Wait, WaitFor, SpuriousWakeup, Timeout,
     EndAccepting, Shutdown, threads, handlers, channels, resolver, forwarder
<1>2. OwnAnswers' /\ forwarder_out' = <<>>
  BY <1>1 DEF Served, OwnAnswers
<1>3. \A t \in Threads : m_socket'[t] = m_socket[t] \/ pc[t] # "asking"
  <2>1. CASE Serve
    <3>1. m_socket' = [m_socket EXCEPT ![Last(m_free_threads)] = Head(arriving)]
      BY <2>1 DEF Serve
    <3>2. m_socket \in [Threads -> Connections \union {None}]
      BY DEF IInv, TypeOK
    <3>3. Last(m_free_threads) \in Range(m_free_threads)
      BY <2>1, TakeLast DEF Serve, IInv, TypeOK, LentOnce
    <3>4. \A t \in Threads : t = Last(m_free_threads) => m_socket[t] = None
      BY <3>3, Free
    <3>5. QED
      BY <3>1, <3>2, <3>4 DEF IInv, TypeOK
  <2>2. CASE ~Serve
    BY <2>2 DEF Acceptor, Accept, Wait, WaitFor, SpuriousWakeup, Timeout,
       EndAccepting, Shutdown, threads
  <2>3. QED
    BY <2>1, <2>2
<1>4. ASSUME NEW t \in Threads PROVE Carried(t)'
  <2>1. \A place, r : At(t, place, r) <=> At(t, place, r)'
    BY <1>1, NothingMoves
  <2>2. Current(t)' = Current(t) \/ pc[t] # "asking"
    BY <1>1, <1>3 DEF Current
  <2>3. QED
    BY <1>1, <2>1, <2>2, CarriedStays DEF Served
<1>5. Counted'
  <2>1. /\ Range(coming') \union Range(arriving')
             \subseteq Range(coming) \union Range(arriving)
        /\ \A t \in Threads : m_socket'[t] = m_socket[t]
             \/ m_socket'[t] \in Range(coming) \union Range(arriving)
    <3>1. CASE Accept
      <4>1. PICK n \in 1..Len(coming) :
              /\ arriving' = SubSeq(coming, 1, n)
              /\ coming' = SubSeq(coming, n + 1, Len(coming))
        BY <3>1 DEF Accept
      <4>2. /\ coming \in Seq(Connections) /\ IsInjective(coming)
            /\ n \in 0..Len(coming)
        BY DEF IInv, TypeOK, Unserved
      <4>3. QED
        BY <3>1, <4>1, <4>2, Split DEF Accept, threads
    <3>2. CASE Serve
      <4>1. /\ arriving \in Seq(Connections) /\ IsInjective(arriving)
            /\ arriving # <<>> /\ coming' = coming /\ arriving' = Tail(arriving)
            /\ m_socket' = [m_socket EXCEPT ![Last(m_free_threads)] =
                              Head(arriving)]
        BY <3>2 DEF Serve, IInv, TypeOK, Unserved
      <4>2. /\ Head(arriving) \in Range(arriving)
            /\ Range(arriving') \subseteq Range(arriving)
        BY <4>1, TakeHead
      <4>3. m_socket \in [Threads -> Connections \union {None}]
        BY DEF IInv, TypeOK
      <4>4. QED
        BY <4>1, <4>2, <4>3
    <3>3. CASE Timeout
      BY <3>3 DEF Timeout, threads, Range
    <3>4. CASE Wait \/ WaitFor \/ SpuriousWakeup \/ EndAccepting \/ Shutdown
      BY <3>4 DEF Wait, WaitFor, SpuriousWakeup, EndAccepting, Shutdown,
         threads, pool
    <3>5. QED
      BY <3>1, <3>2, <3>3, <3>4 DEF Acceptor
  <2>2. QED
    BY <1>1, <1>3, <2>1 DEF Served, Counted
<1>6. QED
  BY <1>2, <1>4, <1>5 DEF Served

\* What a step must do to the counts when it changes one connection's thread
LEMMA Counting ==
  ASSUME IInv, Served, NEW t \in Threads,
         UNCHANGED <<coming, arriving>>,
         \A u \in Threads \ {t} : m_socket'[u] = m_socket[u] /\ pc'[u] = pc[u],
         \A c \in Connections : c # m_socket[t] =>
           read'[c] = read[c] /\ answers'[c] = answers[c],
         m_socket[t] # None,
         m_socket'[t] # None =>
           /\ m_socket'[t] = m_socket[t]
           /\ pc'[t] \in {"idle", "reading", "written"} =>
                Len(answers'[m_socket[t]]) = read'[m_socket[t]]
           /\ pc'[t] = "asking" =>
                Len(answers'[m_socket[t]]) + 1 = read'[m_socket[t]]
  PROVE  Counted'
<1>1. Range(coming) \union Range(arriving) \subseteq Connections
  BY Elements DEF IInv, TypeOK
<1>2. \A c \in Range(coming) \union Range(arriving) : c # m_socket[t]
  BY DEF IInv, Unserved
<1>3. \A u \in Threads \ {t} : m_socket[u] # None =>
        m_socket[u] \in Connections /\ m_socket[u] # m_socket[t]
  BY DEF IInv, TypeOK, LentOnce
<1>4. QED
  BY <1>1, <1>2, <1>3 DEF Served, Counted

\* The threads that a step of one connection thread leaves alone
LEMMA OthersCarried ==
  ASSUME IInv, Served, NEW t \in Threads, m_socket[t] # None,
         UNCHANGED <<to_resolver, from_resolver, slots_in, slots, slots_out>>,
         \A u \in Threads \ {t} :
           /\ m_socket'[u] = m_socket[u] /\ pc'[u] = pc[u]
           /\ to_handler'[u] = to_handler[u]
           /\ from_handler'[u] = from_handler[u],
         \A c \in Connections : c # m_socket[t] => read'[c] = read[c]
  PROVE  \A u \in Threads \ {t} : Carried(u)'
<1> SUFFICES ASSUME NEW u \in Threads \ {t} PROVE Carried(u)'
  OBVIOUS
<1>1. \A place, r : At(u, place, r) => At(u, place, r)'
  BY DEF At
<1>2. Current(u)' = Current(u) \/ pc[u] # "asking"
  <2>1. m_socket[u] # None => /\ m_socket[u] \in Connections
                              /\ m_socket[u] # m_socket[t]
    BY DEF IInv, TypeOK, LentOnce
  <2>2. pc[u] = "asking" => m_socket[u] # None
    BY DEF IInv, TypeOK
  <2>3. QED
    BY <2>1, <2>2 DEF Current
<1>3. QED
  BY <1>1, <1>2, CarriedStays DEF Served

\* A thread that has a connection and is neither asking nor has ended
LEMMA NotAsking ==
  ASSUME Served, NEW t \in Threads, pc[t] \in {"idle", "reading", "written"}
  PROVE  \E r \in AnyRequest : At(t, "nowhere", r)
BY DEF Served, Carried

LEMMA ReadServed ==
  ASSUME IInv, IInv', Served, NEW t \in Threads, Read(t)
  PROVE  Served'
<1> DEFINE c == m_socket[t]
<1>1. /\ pc[t] = "reading"
      /\ read' = [read EXCEPT ![c] = @ + 1]
      /\ pc' = [pc EXCEPT ![t] = "asking"]
      /\ UNCHANGED <<coming, arriving, m_socket, answers, from_handler,
                     to_resolver, from_resolver, slots_in, slots, slots_out,
                     forwarder_out>>
  BY DEF Read, pool, channels, resolver, forwarder
<1>2. /\ c \in Connections /\ c # None
      /\ read \in [Connections -> Nat] /\ pc \in [Threads -> ThreadStates]
      /\ to_handler \in [Threads -> Seq(Requests)]
      /\ to_handler' \in [Threads -> Seq(Requests)]
      /\ answers \in [Connections -> Seq(Requests)]
  BY <1>1 DEF IInv, TypeOK
<1>3. PICK q \in AnyRequest : At(t, "nowhere", q)
  BY <1>1, NotAsking
<1>4. PICK r : /\ r = [connection |-> c, number |-> read'[c]]
               /\ to_handler' = [to_handler EXCEPT ![t] = Append(@, r)]
  BY DEF Read
<1>5. to_handler'[t] = <<r>>
  <2>1. to_handler[t] = <<>>
    BY <1>3 DEF At
  <2>2. QED
    BY <1>2, <1>4, <2>1
<1>6. Carried(t)'
  <2>1. At(t, "to_handler", r)'
    BY <1>1, <1>3, <1>5 DEF At
  <2>2. pc'[t] = "asking" /\ r = Current(t)'
    BY <1>1, <1>2, <1>4 DEF Current
  <2>3. <<r>> \in Seq(Requests)
    BY <1>2, <1>5
  <2>4. r \in Requests
    BY <2>3
  <2>5. r \in AnyRequest' /\ "to_handler" \in Places
    BY <2>4 DEF AnyRequest, Places, Requests
  <2>6. QED
    BY <2>1, <2>2, <2>5 DEF Carried
<1>7. \A u \in Threads \ {t} : Carried(u)'
  BY <1>1, <1>2, <1>4, OthersCarried
<1>8. Counted'
  <2>1. Len(answers[c]) = read[c]
    BY <1>1, <1>2 DEF Served, Counted
  <2>2. Len(answers'[c]) + 1 = read'[c] /\ pc'[t] = "asking"
    BY <1>1, <1>2, <2>1
  <2>3. QED
    BY <1>1, <1>2, <2>2, Counting
<1>9. QED
  BY <1>1, <1>6, <1>7, <1>8 DEF Served, OwnAnswers

\* The answer a thread is given is to what it asked for last.
LEMMA AnswerServed ==
  ASSUME IInv, IInv', Served, NEW t \in Threads, Answer(t)
  PROVE  Served'
<1> DEFINE c == m_socket[t]
<1>1. /\ pc[t] = "asking" /\ from_handler[t] # <<>>
      /\ from_handler' = [from_handler EXCEPT ![t] = Tail(@)]
      /\ UNCHANGED <<read, to_handler, to_resolver, from_resolver, slots_in,
                     slots, slots_out, forwarder_out>>
  BY DEF Answer, channels, resolver, forwarder
<1>2. /\ c \in Connections /\ c # None /\ m_socket \in [Threads -> Connections \union {None}]
      /\ read \in [Connections -> Nat] /\ pc \in [Threads -> ThreadStates]
      /\ from_handler \in [Threads -> Seq(Requests)]
      /\ answers \in [Connections -> Seq(Requests)]
  BY <1>1 DEF IInv, TypeOK
<1>3. PICK r \in AnyRequest : /\ r = Current(t) /\ At(t, "from_handler", r)
                              /\ from_handler[t] = <<r>>
  <2>1. PICK place \in Places, r \in AnyRequest :
          At(t, place, r) /\ r = Current(t)
    BY <1>1 DEF Served, Carried
  <2>2. QED
    BY <1>1, <2>1, Whereabouts
<1>4. At(t, "nowhere", r)'
  <2>1. from_handler'[t] = <<>>
    BY <1>1, <1>2, <1>3
  <2>2. QED
    BY <1>1, <1>3, <2>1 DEF At
<1>5. /\ UNCHANGED <<coming, arriving>>
      /\ \A u \in Threads \ {t} : m_socket'[u] = m_socket[u] /\ pc'[u] = pc[u]
      /\ pc'[t] \in {"written", "idle"}
  BY <1>1, <1>2 DEF Answer, Done, Put, pool
<1>6. Carried(t)'
  <2>1. AnyRequest' = AnyRequest /\ "nowhere" \in Places
    BY DEF AnyRequest, Requests, Places
  <2>2. QED
    BY <1>3, <1>4, <1>5, <2>1 DEF Carried
<1>7. \A u \in Threads \ {t} : Carried(u)'
  BY <1>1, <1>2, <1>5, OthersCarried
<1>8. Len(answers[c]) + 1 = read[c]
  BY <1>1, <1>2 DEF Served, Counted
<1>9. CASE /\ answers' = [answers EXCEPT ![c] = Append(@, Current(t))]
           /\ UNCHANGED m_socket
  <2>1. /\ Len(answers'[c]) = read[c]
        /\ \A d \in Connections : d # c => answers'[d] = answers[d]
    <3>1. Len(Append(answers[c], Current(t))) = Len(answers[c]) + 1
      BY <1>2
    <3>2. QED
      BY <1>2, <1>8, <1>9, <3>1
  <2>2. Counted'
    BY <1>1, <1>2, <1>5, <1>9, <2>1, Counting
  <2>3. OwnAnswers'
    <3>1. /\ Len(answers[c]) \in Nat
          /\ DOMAIN Append(answers[c], Current(t)) = 1..(Len(answers[c]) + 1)
          /\ \A n \in 1..Len(answers[c]) :
               Append(answers[c], Current(t))[n] = answers[c][n]
          /\ Append(answers[c], Current(t))[Len(answers[c]) + 1] = Current(t)
          /\ DOMAIN answers[c] = 1..Len(answers[c])
      BY <1>2
    <3>2. ASSUME NEW n \in DOMAIN answers'[c]
          PROVE  answers'[c][n] = [connection |-> c, number |-> n]
      <4>1. n \in 1..Len(answers[c]) \/ n = Len(answers[c]) + 1
        BY <1>2, <1>9, <3>1
      <4>2. CASE n \in 1..Len(answers[c])
        BY <1>2, <1>9, <3>1, <4>2 DEF Served, OwnAnswers
      <4>3. CASE n = Len(answers[c]) + 1
        BY <1>2, <1>8, <1>9, <3>1, <4>3 DEF Current
      <4>4. QED
        BY <4>1, <4>2, <4>3
    <3>3. QED
      BY <1>2, <2>1, <3>2, SMTT(60) DEF Served, OwnAnswers
  <2>4. QED
    BY <1>1, <1>6, <1>7, <2>2, <2>3 DEF Served
<1>10. CASE m_socket' = [m_socket EXCEPT ![t] = None] /\ UNCHANGED answers
  <2>1. Counted'
    BY <1>1, <1>2, <1>5, <1>10, Counting
  <2>2. QED
    BY <1>1, <1>6, <1>7, <1>10, <2>1 DEF Served, OwnAnswers
<1>11. QED
  BY <1>1, <1>3, <1>9, <1>10 DEF Answer, Done

\* A thread that goes on, or leaves its connection
LEMMA GoOnServed ==
  ASSUME IInv, IInv', Served, NEW t \in Threads,
         Start(t) \/ End(t) \/ Continue(t) \/ HangUp(t) \/ StopAsking(t)
  PROVE  Served'
<1>1. /\ UNCHANGED <<coming, arriving, read, answers, to_handler, from_handler,
                     to_resolver, from_resolver, slots_in, slots, slots_out,
                     forwarder_out>>
      /\ m_socket' = m_socket \/ m_socket' = [m_socket EXCEPT ![t] = None]
  BY DEF Start, End, Continue, HangUp, StopAsking, Done, Put, pool, handlers,
     channels, resolver, forwarder
<1>2. /\ m_socket \in [Threads -> Connections \union {None}]
      /\ pc \in [Threads -> ThreadStates]
  BY DEF IInv, TypeOK
<1>3. /\ \A u \in Threads \ {t} : m_socket'[u] = m_socket[u] /\ pc'[u] = pc[u]
      /\ pc'[t] # "asking"
      /\ pc'[t] \in {"idle", "reading", "written"} =>
           pc[t] \in {"idle", "reading", "written"}
  BY <1>1, <1>2 DEF Start, End, Continue, HangUp, StopAsking
<1>4. ASSUME NEW u \in Threads PROVE Carried(u)'
  <2>1. PICK place \in Places, r \in AnyRequest :
          /\ At(u, place, r)
          /\ pc[u] \in {"idle", "reading", "written"} => place = "nowhere"
          /\ pc[u] = "asking" => r = Current(u)
    BY DEF Served, Carried
  <2>2. At(u, place, r)' /\ AnyRequest' = AnyRequest
    BY <1>1, <2>1, NothingMoves DEF AnyRequest, Requests
  <2>3. CASE u = t
    BY <1>3, <2>1, <2>2, <2>3 DEF Carried
  <2>4. CASE u # t
    BY <1>1, <1>3, <2>1, <2>2, <2>4 DEF Carried, Current
  <2>5. QED
    BY <2>3, <2>4
<1>5. Counted'
  <2>1. \A u \in Threads : m_socket'[u] # None => m_socket'[u] = m_socket[u]
    BY <1>1, <1>2
  <2>2. \A u \in Threads : u # t => pc'[u] = pc[u]
    BY <1>3
  <2>3. QED
    BY <1>1, <1>3, <2>1, <2>2 DEF Served, Counted
<1>6. QED
  BY <1>1, <1>4, <1>5 DEF Served, OwnAnswers

\* Steps that only hand a request of one thread on
LEMMA HandedOn ==
  ASSUME IInv, Served, NEW t \in Threads,
         UNCHANGED <<pool, threads, forwarder_out>>,
         \A place \in Places, r \in AnyRequest : At(t, place, r) =>
           place # "nowhere" /\ \E next \in Places : At(t, next, r)',
         \A u \in Threads \ {t} : \A place \in Places, r \in AnyRequest :
           At(u, place, r) => At(u, place, r)'
  PROVE  Served'
<1>1. UNCHANGED <<coming, arriving, pc, m_socket, read, answers>>
  BY DEF pool, threads
<1>2. Carried(t)'
  BY <1>1, CarriedOn DEF Served
<1>3. ASSUME NEW u \in Threads \ {t} PROVE Carried(u)'
  BY <1>1, CarriedStays DEF Served, Current
<1>4. Counted' /\ OwnAnswers'
  BY <1>1 DEF Served, Counted, OwnAnswers
<1>5. QED
  BY <1>1, <1>2, <1>3, <1>4 DEF Served

LEMMA HandleServed ==
  ASSUME IInv, Served, NEW t \in Threads, Handle(t)
  PROVE  Served'
<1>1. /\ to_handler[t] # <<>>
      /\ to_handler' = [to_handler EXCEPT ![t] = Tail(@)]
      /\ UNCHANGED <<pool, threads, slots_in, slots, slots_out, forwarder_out,
                     from_resolver>>
  BY DEF Handle, resolver, channels
<1>2. /\ to_handler \in [Threads -> Seq(Requests)]
      /\ from_handler \in [Threads -> Seq(Requests)]
      /\ to_resolver \in [Threads -> Seq(Requests)]
  BY DEF IInv, TypeOK
<1>3. ASSUME NEW place \in Places, NEW r \in AnyRequest, At(t, place, r)
      PROVE  place # "nowhere" /\ \E next \in Places : At(t, next, r)'
  <2>1. place = "to_handler" /\ to_handler[t] = <<r>>
    BY <1>1, <1>3, Whereabouts
  <2>2. Head(to_handler[t]) = r /\ to_handler'[t] = <<>> /\ r \in Requests
    <3>1. <<r>> \in Seq(Requests)
      BY <1>2, <2>1
    <3>2. r \in Requests /\ Head(<<r>>) = r /\ Tail(<<r>>) = <<>>
      BY <3>1
    <3>3. QED
      BY <1>1, <1>2, <2>1, <3>2
  <2>3. from_handler[t] = <<>> /\ to_resolver[t] = <<>>
    BY <1>3, <2>1 DEF At
  <2>4. CASE from_handler' = from_handler /\ to_resolver' = to_resolver
    <3>1. At(t, "nowhere", r)'
      BY <1>1, <1>3, <2>1, <2>2, <2>4 DEF At
    <3>2. QED
      BY <2>1, <3>1 DEF Places
  <2>5. CASE /\ from_handler' = [from_handler EXCEPT ![t] = Append(@, r)]
             /\ to_resolver' = to_resolver
    <3>1. from_handler'[t] = <<r>>
      BY <1>2, <2>3, <2>5
    <3>2. At(t, "from_handler", r)'
      BY <1>1, <1>3, <2>1, <2>2, <2>5, <3>1 DEF At
    <3>3. QED
      BY <2>1, <3>2 DEF Places
  <2>6. CASE /\ to_resolver' = [to_resolver EXCEPT ![t] = Append(@, r)]
             /\ from_handler' = from_handler
    <3>1. to_resolver'[t] = <<r>>
      BY <1>2, <2>3, <2>6
    <3>2. At(t, "to_resolver", r)'
      BY <1>1, <1>3, <2>1, <2>2, <2>6, <3>1 DEF At
    <3>3. QED
      BY <2>1, <3>2 DEF Places
  <2>7. QED
    BY <2>2, <2>4, <2>5, <2>6 DEF Handle, channels
<1>4. \A u \in Threads \ {t} : \A place \in Places, r \in AnyRequest :
        At(u, place, r) => At(u, place, r)'
  <2>1. \A u \in Threads \ {t} : /\ to_handler'[u] = to_handler[u]
                                 /\ from_handler'[u] = from_handler[u]
                                 /\ to_resolver'[u] = to_resolver[u]
    BY <1>1, <1>2 DEF Handle, channels
  <2>2. QED
    BY <1>1, <2>1 DEF At
<1>5. QED
  BY <1>1, <1>3, <1>4, HandedOn

LEMMA ResponseServed ==
  ASSUME IInv, Served, NEW t \in Threads, GetResolverResponse(t)
  PROVE  Served'
<1>1. /\ from_resolver[t] # <<>>
      /\ from_resolver' = [from_resolver EXCEPT ![t] = Tail(@)]
      /\ from_handler' = [from_handler EXCEPT ![t] =
                            Append(@, Head(from_resolver[t]))]
      /\ UNCHANGED <<pool, threads, to_handler, to_resolver, slots_in, slots,
                     slots_out, forwarder_out>>
  BY DEF GetResolverResponse, resolver, forwarder
<1>2. /\ from_resolver \in [Threads -> Seq(Requests)]
      /\ from_handler \in [Threads -> Seq(Requests)]
  BY DEF IInv, TypeOK
<1>3. ASSUME NEW place \in Places, NEW r \in AnyRequest, At(t, place, r)
      PROVE  place # "nowhere" /\ \E next \in Places : At(t, next, r)'
  <2>1. place = "from_resolver" /\ from_resolver[t] = <<r>>
    BY <1>1, <1>3, Whereabouts
  <2>2. from_handler[t] = <<>>
    BY <1>3, <2>1 DEF At
  <2>3. from_resolver'[t] = <<>> /\ from_handler'[t] = <<r>>
    <3>1. Head(<<r>>) = r /\ Tail(<<r>>) = <<>> /\ Append(<<>>, r) = <<r>>
      OBVIOUS
    <3>2. from_handler'[t] = Append(from_handler[t], Head(from_resolver[t]))
      BY <1>1, <1>2
    <3>3. QED
      BY <1>1, <1>2, <2>1, <2>2, <3>1, <3>2
  <2>4. At(t, "from_handler", r)'
    BY <1>1, <1>3, <2>1, <2>3 DEF At
  <2>5. QED
    BY <2>1, <2>4 DEF Places
<1>4. \A u \in Threads \ {t} : \A place \in Places, r \in AnyRequest :
        At(u, place, r) => At(u, place, r)'
  <2>1. \A u \in Threads \ {t} : /\ from_handler'[u] = from_handler[u]
                                 /\ from_resolver'[u] = from_resolver[u]
    BY <1>1, <1>2
  <2>2. QED
    BY <1>1, <2>1 DEF At
<1>5. QED
  BY <1>1, <1>3, <1>4, HandedOn

LEMMA MuxServed ==
  ASSUME IInv, Served, NEW t \in Threads, Mux(t)
  PROVE  Served'
<1>1. /\ to_resolver[t] # <<>>
      /\ to_resolver' = [to_resolver EXCEPT ![t] = Tail(@)]
      /\ UNCHANGED <<pool, threads, to_handler, from_handler, from_resolver,
                     slots, slots_out, forwarder_out>>
  BY DEF Mux, handlers, forwarder
<1>2. /\ to_resolver \in [Threads -> Seq(Requests)]
      /\ slots_in \in Seq(Channelled)
  BY DEF IInv, TypeOK
<1>3. PICK r : r = Head(to_resolver[t])
  OBVIOUS
<1>4. PICK x : x = [request |-> r, channel |-> t]
  OBVIOUS
<1>5. r \in Requests /\ x \in Channelled /\ x.channel = t
  BY <1>1, <1>2, <1>3, <1>4, Taking DEF Channelled
<1>6. slots_in' = slots_in \/ slots_in' = Append(slots_in, x)
  BY <1>3, <1>4 DEF Mux
<1>7. ASSUME NEW place \in Places, NEW q \in AnyRequest, At(t, place, q)
      PROVE  place # "nowhere" /\ \E next \in Places : At(t, next, q)'
  <2>1. place = "to_resolver" /\ to_resolver[t] = <<q>>
    BY <1>1, <1>7, Whereabouts
  <2>2. q = r /\ to_resolver'[t] = <<>>
    <3>1. Head(<<q>>) = q /\ Tail(<<q>>) = <<>>
      OBVIOUS
    <3>2. QED
      BY <1>1, <1>2, <1>3, <2>1, <3>1
  <2>3. Absent(slots_in, t)
    BY <1>7, <2>1 DEF At
  <2>4. CASE slots_in' = slots_in
    <3>1. At(t, "nowhere", q)'
      BY <1>1, <1>7, <2>1, <2>2, <2>4 DEF At
    <3>2. QED
      BY <2>1, <3>1 DEF Places
  <2>5. CASE slots_in' = Append(slots_in, x)
    <3>1. Once(slots_in', [request |-> q, channel |-> t])
      BY <1>2, <1>4, <1>5, <2>2, <2>3, <2>5, AppendFirst
    <3>2. At(t, "slots_in", q)'
      BY <1>1, <1>7, <2>1, <2>2, <3>1 DEF At, Once
    <3>3. QED
      BY <2>1, <3>2 DEF Places
  <2>6. QED
    BY <1>6, <2>4, <2>5
<1>8. ASSUME NEW u \in Threads \ {t}, NEW place \in Places,
             NEW q \in AnyRequest, At(u, place, q)
      PROVE  At(u, place, q)'
  <2>1. to_resolver'[u] = to_resolver[u]
    BY <1>1, <1>2
  <2>2. /\ Absent(slots_in, u) => Absent(slots_in', u)
        /\ Once(slots_in, [request |-> q, channel |-> u])
             => Once(slots_in', [request |-> q, channel |-> u])
    BY <1>2, <1>5, <1>6, AppendKeeps
  <2>3. QED
    BY <1>1, <1>8, <2>1, <2>2 DEF At, Once, Absent
<1>9. QED
  BY <1>1, <1>7, <1>8, HandedOn

\* From the queue into a slot
LEMMA ResolveServed ==
  ASSUME IInv, Served, Resolve
  PROVE  Served'
<1>1. /\ slots_in # <<>> /\ slots_in' = Tail(slots_in)
      /\ UNCHANGED <<pool, threads, to_handler, from_handler, to_resolver,
                     from_resolver, slots_out, forwarder_out>>
  BY DEF Resolve, handlers, channels, forwarder
<1>2. PICK x : x = Head(slots_in) /\ slots' = slots \union {x}
  BY DEF Resolve
<1>3. slots_in \in Seq(Channelled) /\ x \in Channelled
  BY <1>1, <1>2 DEF IInv, TypeOK
<1>4. PICK t \in Threads : x.channel = t
  BY <1>3 DEF Channelled
<1>5. ~Absent(slots_in, t)
  BY <1>1, <1>2, <1>3, <1>4 DEF Absent
<1>6. ASSUME NEW place \in Places, NEW q \in AnyRequest, At(t, place, q)
      PROVE  place # "nowhere" /\ \E next \in Places : At(t, next, q)'
  <2>1. place = "slots_in" /\ Once(slots_in, [request |-> q, channel |-> t])
    BY <1>5, <1>6, Whereabouts
  <2>2. x = [request |-> q, channel |-> t] /\ Absent(slots_in', t)
    BY <1>1, <1>2, <1>3, <1>4, <2>1, TailLast
  <2>3. {y \in slots : y.channel = t} = {}
    BY <1>6, <2>1 DEF At
  <2>4. {y \in slots' : y.channel = t} = {x}
    BY <1>2, <1>4, <2>3
  <2>5. At(t, "slots", q)'
    BY <1>1, <1>6, <2>1, <2>2, <2>4 DEF At, Absent
  <2>6. QED
    BY <2>1, <2>5 DEF Places
<1>7. ASSUME NEW u \in Threads \ {t}, NEW place \in Places,
             NEW q \in AnyRequest, At(u, place, q)
      PROVE  At(u, place, q)'
  <2>1. {y \in slots' : y.channel = u} = {y \in slots : y.channel = u}
    BY <1>2, <1>4
  <2>2. /\ Absent(slots_in, u) => Absent(slots_in', u)
        /\ Once(slots_in, [request |-> q, channel |-> u])
             => Once(slots_in', [request |-> q, channel |-> u])
    BY <1>1, <1>2, <1>3, <1>4, TailKeeps
  <2>3. QED
    BY <1>1, <1>7, <2>1, <2>2 DEF At, Once, Absent
<1>8. QED
  BY <1>1, <1>6, <1>7, HandedOn

\* Out of a slot into the queue, or lost
LEMMA ResolvedServed ==
  ASSUME IInv, Served, NEW x \in slots, Resolved(x)
  PROVE  Served'
<1>1. /\ slots' = slots \ {x}
      /\ slots_out' = slots_out \/ slots_out' = Append(slots_out, x)
      /\ UNCHANGED <<pool, threads, to_handler, from_handler, to_resolver,
                     from_resolver, slots_in, forwarder_out>>
  BY DEF Resolved, handlers, channels, forwarder
<1>2. slots_out \in Seq(Channelled) /\ x \in Channelled
  BY DEF IInv, TypeOK
<1>3. PICK t \in Threads : x.channel = t
  BY <1>2 DEF Channelled
<1>4. ASSUME NEW place \in Places, NEW q \in AnyRequest, At(t, place, q)
      PROVE  place # "nowhere" /\ \E next \in Places : At(t, next, q)'
  <2>1. place = "slots" /\ x = [request |-> q, channel |-> t]
    BY <1>3, <1>4, Whereabouts, ZenonT(60)
  <2>2. {y \in slots : y.channel = t} = {x} /\ Absent(slots_out, t)
    BY <1>4, <2>1 DEF At
  <2>3. {y \in slots' : y.channel = t} = {}
    BY <1>1, <2>2
  <2>4. CASE slots_out' = slots_out
    <3>1. At(t, "nowhere", q)'
      BY <1>1, <1>4, <2>1, <2>3, <2>4 DEF At
    <3>2. QED
      BY <2>1, <3>1 DEF Places
  <2>5. CASE slots_out' = Append(slots_out, x)
    <3>1. Once(slots_out', x)
      BY <1>2, <1>3, <2>2, <2>5, AppendFirst
    <3>2. At(t, "slots_out", q)'
      BY <1>1, <1>4, <2>1, <2>3, <3>1 DEF At, Once
    <3>3. QED
      BY <2>1, <3>2 DEF Places
  <2>6. QED
    BY <1>1, <2>4, <2>5
<1>5. ASSUME NEW u \in Threads \ {t}, NEW place \in Places,
             NEW q \in AnyRequest, At(u, place, q)
      PROVE  At(u, place, q)'
  <2>1. {y \in slots' : y.channel = u} = {y \in slots : y.channel = u}
    BY <1>1, <1>3
  <2>2. /\ Absent(slots_out, u) => Absent(slots_out', u)
        /\ Once(slots_out, [request |-> q, channel |-> u])
             => Once(slots_out', [request |-> q, channel |-> u])
    BY <1>1, <1>2, <1>3, AppendKeeps
  <2>3. QED
    BY <1>1, <1>5, <2>1, <2>2 DEF At, Once, Absent
<1>6. QED
  BY <1>1, <1>4, <1>5, HandedOn

\* run_demux goes by the channel that run_mux gave the request.
LEMMA DemuxServed ==
  ASSUME IInv, Served, Demux
  PROVE  Served'
<1>1. /\ slots_out # <<>> /\ slots_out' = Tail(slots_out)
      /\ UNCHANGED <<pool, threads, to_handler, from_handler, to_resolver,
                     slots_in, slots, forwarder_out>>
  BY DEF Demux, handlers, forwarder
<1>2. PICK x : /\ x = Head(slots_out)
               /\ from_resolver' = [from_resolver EXCEPT ![x.channel] =
                                      Append(@, x.request)]
  BY DEF Demux
<1>3. /\ slots_out \in Seq(Channelled) /\ x \in Channelled
      /\ from_resolver \in [Threads -> Seq(Requests)]
  BY <1>1, <1>2 DEF IInv, TypeOK
<1>4. PICK t \in Threads : x.channel = t
  BY <1>3 DEF Channelled
<1>5. ~Absent(slots_out, t)
  BY <1>1, <1>2, <1>3, <1>4 DEF Absent
<1>6. ASSUME NEW place \in Places, NEW q \in AnyRequest, At(t, place, q)
      PROVE  place # "nowhere" /\ \E next \in Places : At(t, next, q)'
  <2>1. place = "slots_out" /\ Once(slots_out, [request |-> q, channel |-> t])
    BY <1>5, <1>6, Whereabouts
  <2>2. x = [request |-> q, channel |-> t] /\ Absent(slots_out', t)
    BY <1>1, <1>2, <1>3, <1>4, <2>1, TailLast
  <2>3. from_resolver[t] = <<>>
    BY <1>6, <2>1 DEF At
  <2>4. from_resolver'[t] = <<q>>
    <3>1. x.request = q /\ Append(<<>>, q) = <<q>>
      BY <2>2
    <3>2. from_resolver'[t] = Append(from_resolver[t], x.request)
      BY <1>2, <1>3, <1>4
    <3>3. QED
      BY <2>3, <3>1, <3>2
  <2>5. At(t, "from_resolver", q)'
    BY <1>1, <1>6, <2>1, <2>2, <2>4 DEF At, Absent
  <2>6. QED
    BY <2>1, <2>5 DEF Places
<1>7. ASSUME NEW u \in Threads \ {t}, NEW place \in Places,
             NEW q \in AnyRequest, At(u, place, q)
      PROVE  At(u, place, q)'
  <2>1. from_resolver'[u] = from_resolver[u]
    BY <1>2, <1>3, <1>4
  <2>2. /\ Absent(slots_out, u) => Absent(slots_out', u)
        /\ Once(slots_out, [request |-> q, channel |-> u])
             => Once(slots_out', [request |-> q, channel |-> u])
    BY <1>1, <1>2, <1>3, <1>4, TailKeeps
  <2>3. QED
    BY <1>1, <1>7, <2>1, <2>2 DEF At, Once, Absent
<1>8. QED
  BY <1>1, <1>6, <1>7, HandedOn

LEMMA ServedStep == ServedInv /\ [Next]_vars => ServedInv'
<1> SUFFICES ASSUME ServedInv, [Next]_vars PROVE ServedInv'
  OBVIOUS
<1>1. IInv /\ IInv'
  BY InvariantStep DEF ServedInv
<1> SUFFICES ASSUME NoForwards' PROVE Served'
  BY <1>1 DEF ServedInv
<1>2. Served /\ NoForwards /\ UNCHANGED forwards
  BY <1>1, NeverForwarded DEF ServedInv
<1>3. CASE Acceptor \/ Shutdown
  BY <1>1, <1>2, <1>3, AcceptorServed
<1>4. ASSUME NEW t \in Threads, Connection(t)
      PROVE  Served'
  BY <1>1, <1>2, <1>4, ReadServed, AnswerServed, GoOnServed DEF Connection
<1>5. ASSUME NEW t \in Threads, Handler(t) \/ Mux(t)
      PROVE  Served'
  BY <1>1, <1>2, <1>5, HandleServed, ResponseServed, MuxServed DEF Handler
<1>6. ASSUME NEW t \in Threads, GetForwarderResponse(t)
      PROVE  Served'
  BY <1>2, <1>6 DEF GetForwarderResponse, Served
<1>7. CASE Resolve \/ Demux \/ \E x \in slots : Resolved(x)
  BY <1>1, <1>2, <1>7, ResolveServed, DemuxServed, ResolvedServed
<1>8. ASSUME NEW r \in Requests, Forwarded(r)
      PROVE  Served'
  BY <1>2, <1>8 DEF Forwarded, NoForwards
<1>9. CASE UNCHANGED vars
  <2>1. UNCHANGED <<pool, threads, handlers, channels, resolver, forwarder_out>>
    BY <1>9 DEF vars, forwarder
  <2>2. \A t \in Threads : Carried(t)'
    BY <1>2, <2>1, CarriedStays, NothingMoves
       DEF Served, Current, threads, handlers, channels, resolver
  <2>3. QED
    BY <1>2, <2>1, <2>2 DEF Served, Counted, OwnAnswers, pool, threads
<1>10. QED
  BY <1>3, <1>4, <1>5, <1>6, <1>7, <1>8, <1>9 DEF Next

\* As long as no request is forwarded, the answers a client is given are to
\* its own requests, each once and in their order, however many connections
\* share the slots and the multiplexer.
THEOREM AnswersTheirOwn == Spec => []AnswersOwnUnlessForwarded
<1>1. ServedInv => AnswersOwnUnlessForwarded
  BY DEF ServedInv, Served, OwnAnswers, NoForwards, AnswersOwnUnlessForwarded
<1>2. QED
  BY ServedInit, ServedStep, <1>1, PTL DEF Spec
=============================================================================
