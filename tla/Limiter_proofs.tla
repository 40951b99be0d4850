--------------------------- MODULE Limiter_proofs ---------------------------
(***************************************************************************)
(* What TLAPS proves of the limiter in Api, for any limits, windows and    *)
(* clock and any number of requests: what a fixed window promises over     *)
(* every interval of its length.                                           *)
(***************************************************************************)
EXTENDS Api_proofs

-----------------------------------------------------------------------------
(* The inductive invariant. *)

Smaller(m, n) == IF m =< n THEN m ELSE n

Through == {"allowed", "unknown"}

\* The hits of scope k since time s that were answered so.
Since(k, as, s) ==
    {h \in Hits :
        hit[h].answer \in as /\ ScopeOf(h) = k /\ s =< hit[h].at}

\* The hits of scope k before time s that were allowed and count at s.
Early(k, s) ==
    {h \in Hits :
        /\ hit[h].answer = "allowed" /\ ScopeOf(h) = k
        /\ hit[h].at < s /\ s < hit[h].at + Window[k]}

\* The window of scope k started at s, with the hit of f.
Running(k, s, f) ==
    /\ hits[k].expires = s + Window[k]
    /\ s =< clock /\ clock < s + Window[k]
    /\ f \in Since(k, Through, s) /\ hit[f].at = s
    /\ Smaller(hits[k].count, Limit[k]) =< Cardinality(Since(k, Through, s))
    /\ Cardinality(Since(k, {"allowed"}, s) \ {f}) < Smaller(hits[k].count, Limit[k])
    /\ Cardinality(Early(k, s)) < Limit[k]

\* Scope k has no window; one that starts now finds less than the limit before it.
NotRunning(k) ==
    /\ \A h \in Hits :
        hit[h].answer # "none" /\ ScopeOf(h) = k => hit[h].at < clock
    /\ Cardinality(Early(k, clock)) < Limit[k]

Windows ==
    \A k \in Scopes :
        \/ hits[k].count = 0 /\ NotRunning(k)
        \/ hits[k].count > 0 /\ \E s \in Nat, f \in Hits : Running(k, s, f)

Past == \A h \in Hits : hit[h].answer # "none" => hit[h].at =< clock

\* What is counted was sent, and asked for something that is limited.
RefusedAreLimited ==
    \A h \in Hits : hit[h].answer # "none" => ScopeOf(h) \in Scopes

LInv == IInv /\ RefusedAreLimited /\ Past /\ Windows /\ LessThanTwiceTheLimit /\ RefusalsAreEarned

-----------------------------------------------------------------------------
(* Sets of hits. *)

LEMMA FiniteSets ==
  ASSUME NEW S \in SUBSET Hits
  PROVE  IsFiniteSet(S) /\ Cardinality(S) \in Nat
  <1>1. IsFiniteSet(0 .. MaxRetries)
    <2>1. 0 \in Int /\ MaxRetries \in Int
      BY LimitAssumption
    <2>. QED  BY <2>1, FS_Interval
  <1>2. IsFiniteSet(Hits)
    BY <1>1, NamesAssumption, FS_Product DEF Hits
  <1>. QED  BY <1>2, FS_Subset, FS_CardinalityType

LEMMA SmallerSets ==
  ASSUME NEW S \in SUBSET Hits, NEW T \in SUBSET S
  PROVE  Cardinality(T) =< Cardinality(S)
  BY FiniteSets, FS_Subset

LEMMA OneMoreElement ==
  ASSUME NEW S \in SUBSET Hits, NEW h
  PROVE  /\ Cardinality(S \cup {h}) =< Cardinality(S) + 1
         /\ h \notin S => Cardinality(S \cup {h}) = Cardinality(S) + 1
         /\ Cardinality(S) =< Cardinality(S \ {h}) + 1
  <1>1. IsFiniteSet(S) /\ Cardinality(S) \in Nat
    BY FiniteSets
  <1>2. Cardinality(S \cup {h}) = IF h \in S THEN Cardinality(S) ELSE Cardinality(S) + 1
    BY <1>1, FS_AddElement
  <1>3. Cardinality(S \ {h}) = IF h \in S THEN Cardinality(S) - 1 ELSE Cardinality(S)
    BY <1>1, FS_RemoveElement
  <1>. QED  BY <1>1, <1>2, <1>3

LEMMA TwoSets ==
  ASSUME NEW S \in SUBSET Hits, NEW T \in SUBSET Hits
  PROVE  Cardinality(S \cup T) =< Cardinality(S) + Cardinality(T)
  <1>1. /\ IsFiniteSet(S) /\ Cardinality(S) \in Nat
        /\ IsFiniteSet(T) /\ Cardinality(T) \in Nat
        /\ Cardinality(S \cap T) \in Nat
    BY FiniteSets
  <1>2. Cardinality(S \cup T) = Cardinality(S) + Cardinality(T) - Cardinality(S \cap T)
    BY <1>1, FS_Union
  <1>. QED  BY <1>1, <1>2

LEMMA Limits ==
  ASSUME ApiOK, NEW k \in Scopes
  PROVE  /\ Limit[k] \in Nat /\ Limit[k] > 0
         /\ Window[k] \in Nat /\ Window[k] > 0
         /\ hits[k].count \in Nat /\ hits[k].expires \in Nat
         /\ clock \in Nat
         /\ \A h \in Hits : hit[h].at \in Nat /\ hit[h] \in HitTypes
  BY LimitAssumption DEF ApiOK, LimiterOK, HitTypes

-----------------------------------------------------------------------------
(* A step that counts nobody, and lets no time pass. *)

LEMMA NobodyCounted ==
  ASSUME LInv, IInv', UNCHANGED <<clock, hits, hit>>,
         \A q \in Requests : sent[q] # NotSent => sent'[q] = sent[q]
  PROVE  LInv'
  <1>1. ApiOK /\ Fresh
    BY DEF LInv, IInv
  <1>2. \A h \in Hits : hit[h].answer # "none" => sent'[h[1]] = sent[h[1]]
    <2>. SUFFICES ASSUME NEW h \in Hits, hit[h].answer # "none"
                  PROVE  sent'[h[1]] = sent[h[1]]
      OBVIOUS
    <2>1. h[1] \in Requests /\ h[2] \in 0 .. MaxRetries /\ h = <<h[1], h[2]>>
      BY DEF Hits
    <2>2. ~(resent[h[1]] = 0 /\ Uncounted(h[1]))
      BY <2>1 DEF Uncounted, NotCounted
    <2>. QED  BY <1>1, <2>1, <2>2 DEF Fresh
  <1>3. Past'
    BY DEF LInv, Past
  <1>4. \A k, s : Early(k, s)' = Early(k, s) /\ Since(k, Through, s)' = Since(k, Through, s)
                  /\ Since(k, {"allowed"}, s)' = Since(k, {"allowed"}, s)
    BY <1>2 DEF Early, Since, Through, ScopeOf
  <1>5. Windows'
    <2>. SUFFICES ASSUME NEW k \in Scopes
                  PROVE  \/ hits[k].count = 0 /\ NotRunning(k)'
                         \/ hits[k].count > 0 /\ \E s \in Nat, f \in Hits : Running(k, s, f)'
      BY DEF Windows
    <2>1. CASE hits[k].count = 0 /\ NotRunning(k)
      <3>1. Early(k, clock)' = Early(k, clock)
        BY <1>2 DEF Early, ScopeOf
      <3>. QED  BY <2>1, <3>1, <1>2 DEF NotRunning, ScopeOf
    <2>2. ASSUME hits[k].count > 0, NEW s \in Nat, NEW f \in Hits, Running(k, s, f)
          PROVE  Running(k, s, f)'
      BY <2>2, <1>4 DEF Running
    <2>. QED  BY <2>1, <2>2 DEF LInv, Windows
  <1>6. \A k, t : /\ Counted(k, t, {"allowed"})' = Counted(k, t, {"allowed"})
                  /\ Counted(k, t, {"allowed", "unknown"})' = Counted(k, t, {"allowed", "unknown"})
    BY <1>2 DEF Counted, ScopeOf
  <1>7. LessThanTwiceTheLimit'
    BY <1>6 DEF LInv, LessThanTwiceTheLimit
  <1>8. RefusalsAreEarned'
    BY <1>2, <1>6 DEF LInv, RefusalsAreEarned, ScopeOf
  <1>. QED  BY <1>2, <1>3, <1>5, <1>7, <1>8 DEF LInv, RefusedAreLimited, ScopeOf

-----------------------------------------------------------------------------
(* What was allowed up to now: part in this window, part in the one before. *)

Bounded == \A k \in Scopes : Cardinality(Counted(k, clock, {"allowed"})) < 2 * Limit[k]

LEMMA NowIsBounded == ApiOK /\ Past /\ Windows => Bounded
  <1>. SUFFICES ASSUME ApiOK, Past, Windows, NEW k \in Scopes
                PROVE  Cardinality(Counted(k, clock, {"allowed"})) < 2 * Limit[k]
    BY DEF Bounded
  <1>. DEFINE C == Counted(k, clock, {"allowed"})
  <1>0. /\ Limit[k] \in Nat /\ Limit[k] > 0 /\ Window[k] \in Nat /\ clock \in Nat
        /\ hits[k].count \in Nat /\ \A h \in Hits : hit[h].at \in Nat
    BY Limits
  <1>1. C \in SUBSET Hits /\ Cardinality(C) \in Nat
    <2>1. C \in SUBSET Hits
      BY DEF Counted, ScopeOf
    <2>. QED  BY <2>1, FiniteSets
  <1>2. CASE NotRunning(k)
    <2>1. C \subseteq Early(k, clock) /\ Early(k, clock) \in SUBSET Hits
      BY <1>2 DEF Counted, Early, NotRunning, ScopeOf
    <2>2. Cardinality(C) =< Cardinality(Early(k, clock)) /\ Cardinality(Early(k, clock)) \in Nat
      BY <2>1, SmallerSets, FiniteSets
    <2>3. Cardinality(Early(k, clock)) < Limit[k]
      BY <1>2 DEF NotRunning, ScopeOf
    <2>. QED  BY <2>2, <2>3, <1>0, <1>1
  <1>3. ASSUME NEW s \in Nat, NEW f \in Hits, Running(k, s, f)
        PROVE  Cardinality(C) < 2 * Limit[k]
    <2>. DEFINE E == Early(k, s)
                A == Since(k, {"allowed"}, s)
    <2>1. E \in SUBSET Hits /\ A \in SUBSET Hits /\ A \ {f} \in SUBSET Hits
      BY DEF Early, Since, ScopeOf
    <2>2. C \subseteq E \cup A
      <3>1. s =< clock
        BY <1>3 DEF Running
      <3>. QED  BY <3>1, <1>0 DEF Counted, Early, Since, ScopeOf
    <2>3. Cardinality(E) < Limit[k] /\ Cardinality(A \ {f}) < Smaller(hits[k].count, Limit[k])
      BY <1>3 DEF Running
    <2>. HIDE DEF E, A, C
    <2>4. /\ Cardinality(E) \in Nat /\ Cardinality(A) \in Nat /\ Cardinality(A \ {f}) \in Nat
          /\ Cardinality(E \cup A) \in Nat
      BY <2>1, FiniteSets
    <2>5. /\ Cardinality(C) =< Cardinality(E \cup A)
          /\ Cardinality(E \cup A) =< Cardinality(E) + Cardinality(A)
          /\ Cardinality(A) =< Cardinality(A \ {f}) + 1
      BY <2>1, <2>2, SmallerSets, TwoSets, OneMoreElement
    <2>6. Smaller(hits[k].count, Limit[k]) =< Limit[k] /\ Smaller(hits[k].count, Limit[k]) \in Nat
      BY <1>0 DEF Smaller
    <2>. QED  BY <2>3, <2>4, <2>5, <2>6, <1>0, <1>1
  <1>. QED  BY <1>2, <1>3 DEF Windows

-----------------------------------------------------------------------------
(* Time passes. *)

LEMMA TimePasses ==
  ASSUME LInv, IInv', Tick
  PROVE  LInv'
  <1>0. ApiOK /\ Past /\ Windows /\ LessThanTwiceTheLimit /\ RefusalsAreEarned
    BY DEF LInv, IInv
  <1>1. clock' = clock + 1 /\ UNCHANGED <<sent, hit>> /\ clock \in Nat
    BY <1>0, LimitAssumption DEF Tick, TickClock, request, ApiOK, LimiterOK
  <1>2. \A k \in Scopes : hits'[k] = IF hits[k].expires =< clock + 1 THEN NoKey ELSE hits[k]
    BY <1>1 DEF Tick, TickClock
  <1>3. Past'
    <2>1. \A h \in Hits : hit[h].at \in Nat
      BY <1>0 DEF ApiOK
    <2>. QED  BY <2>1, <1>0, <1>1 DEF Past
  <1>4. Windows'
    <2>. SUFFICES ASSUME NEW k \in Scopes
                  PROVE  \/ hits'[k].count = 0 /\ NotRunning(k)'
                         \/ hits'[k].count > 0 /\ \E s \in Nat, f \in Hits : Running(k, s, f)'
      BY DEF Windows
    <2>0. /\ Limit[k] \in Nat /\ Window[k] \in Nat /\ hits[k].count \in Nat /\ hits[k].expires \in Nat
          /\ \A h \in Hits : hit[h].at \in Nat
      BY <1>0, Limits
    <2>1. CASE hits[k].count = 0 /\ NotRunning(k)
      <3>1. hits'[k].count = 0
        BY <2>1, <1>2 DEF NoKey
      <3>2. Early(k, clock + 1) \subseteq Early(k, clock) /\ Early(k, clock) \in SUBSET Hits
        BY <2>0, <2>1, <1>1 DEF NotRunning, Early, ScopeOf
      <3>3. /\ Cardinality(Early(k, clock + 1)) =< Cardinality(Early(k, clock))
            /\ Cardinality(Early(k, clock + 1)) \in Nat /\ Cardinality(Early(k, clock)) \in Nat
        BY <3>2, SmallerSets, FiniteSets
      <3>4. Early(k, clock)' = Early(k, clock + 1)
        BY <1>1 DEF Early, ScopeOf
      <3>5. Cardinality(Early(k, clock)') < Limit[k]
        BY <2>0, <2>1, <3>3, <3>4 DEF NotRunning, ScopeOf
      <3>6. \A h \in Hits : hit[h].answer # "none" /\ ScopeOf(h) = k => hit[h].at < clock + 1
        BY <2>0, <2>1, <1>1 DEF NotRunning, ScopeOf
      <3>. QED  BY <3>1, <3>5, <3>6, <1>1 DEF NotRunning, ScopeOf
    <2>2. ASSUME hits[k].count > 0, NEW s \in Nat, NEW f \in Hits, Running(k, s, f),
                 s + Window[k] =< clock + 1
          PROVE  hits'[k].count = 0 /\ NotRunning(k)'
      <3>. DEFINE A == Since(k, {"allowed"}, s) \ {f}
      <3>1. hits'[k].count = 0
        BY <2>2, <1>2 DEF Running, NoKey
      <3>2. Early(k, clock + 1) \subseteq A /\ A \in SUBSET Hits
        <4>1. hit[f].at = s
          BY <2>2 DEF Running
        <4>. QED  BY <2>0, <2>2, <4>1, <1>1 DEF Early, Since, ScopeOf
      <3>3. Cardinality(A) < Limit[k]
        <4>1. A \in SUBSET Hits
          BY DEF Since, ScopeOf
        <4>2. Cardinality(A) \in Nat
          BY <4>1, FiniteSets
        <4>3. Cardinality(A) < Smaller(hits[k].count, Limit[k])
          BY <2>2 DEF Running
        <4>. HIDE DEF A
        <4>. QED  BY <2>0, <4>2, <4>3 DEF Smaller
      <3>4. /\ Cardinality(Early(k, clock + 1)) =< Cardinality(A)
            /\ Cardinality(Early(k, clock + 1)) \in Nat /\ Cardinality(A) \in Nat
        BY <3>2, SmallerSets, FiniteSets
      <3>5. Early(k, clock)' = Early(k, clock + 1)
        BY <1>1 DEF Early, ScopeOf
      <3>. HIDE DEF A
      <3>6. Cardinality(Early(k, clock)') < Limit[k]
        BY <2>0, <3>3, <3>4, <3>5
      <3>7. \A h \in Hits : hit[h].answer # "none" => hit[h].at < clock + 1
        BY <2>0, <1>0, <1>1 DEF Past
      <3>. QED  BY <3>1, <3>6, <3>7, <1>1 DEF NotRunning, ScopeOf
    <2>3. ASSUME hits[k].count > 0, NEW s \in Nat, NEW f \in Hits, Running(k, s, f),
                 ~(s + Window[k] =< clock + 1)
          PROVE  hits'[k].count > 0 /\ Running(k, s, f)'
      <3>1. hits'[k] = hits[k]
        BY <2>3, <1>2 DEF Running
      <3>2. /\ Since(k, Through, s)' = Since(k, Through, s) /\ Early(k, s)' = Early(k, s)
            /\ Since(k, {"allowed"}, s)' = Since(k, {"allowed"}, s)
        BY <1>1 DEF Since, Early, Through, ScopeOf
      <3>. QED  BY <2>0, <2>3, <3>1, <3>2, <1>1 DEF Running
    <2>. QED  BY <2>1, <2>2, <2>3, <1>0 DEF Windows
  <1>5. (ApiOK /\ Past /\ Windows => Bounded)'
    BY NowIsBounded, PTL
  <1>6. \A k, t : /\ Counted(k, t, {"allowed"})' = Counted(k, t, {"allowed"})
                  /\ Counted(k, t, {"allowed", "unknown"})' = Counted(k, t, {"allowed", "unknown"})
    BY <1>1 DEF Counted, ScopeOf
  <1>7. LessThanTwiceTheLimit'
    <2>. SUFFICES ASSUME NEW k \in Scopes, NEW t \in 0 .. clock'
                  PROVE  Cardinality(Counted(k, t, {"allowed"})') < 2 * Limit[k]
      BY DEF LessThanTwiceTheLimit
    <2>1. CASE t = clock'
      <3>1. ApiOK'
        BY DEF IInv
      <3>2. Counted(k, clock, {"allowed"})' = Counted(k, t, {"allowed"})'
        BY <2>1 DEF Counted, ScopeOf
      <3>. QED  BY <3>1, <3>2, <1>3, <1>4, <1>5 DEF Bounded
    <2>2. CASE t # clock'
      <3>1. t \in 0 .. clock
        BY <2>2, <1>1
      <3>. QED  BY <3>1, <1>0, <1>6 DEF LessThanTwiceTheLimit
    <2>. QED  BY <2>1, <2>2
  <1>8. RefusalsAreEarned'
    BY <1>0, <1>1, <1>6 DEF RefusalsAreEarned, ScopeOf
  <1>. QED  BY <1>1, <1>3, <1>4, <1>7, <1>8 DEF LInv, RefusedAreLimited, ScopeOf

-----------------------------------------------------------------------------
(* A request is counted. *)

LEMMA SomebodyCounted ==
  ASSUME LInv, IInv', NEW h \in Hits, NEW k \in Scopes, k = ScopeOf(h),
         hit[h] = NotCounted, Hit(k), UNCHANGED <<clock, sent>>,
         NEW a \in {"allowed", "refused", "unknown"},
         hit' = [hit EXCEPT ![h] = [at |-> clock, answer |-> a]],
         a = "allowed" => Allow(k),
         a = "refused" => ~Allow(k)
  PROVE  LInv'
  <1>. DEFINE n == hits[k].count
  <1>0. ApiOK /\ Past /\ Windows /\ LessThanTwiceTheLimit /\ RefusalsAreEarned
    BY DEF LInv, IInv
  <1>1. /\ hit'[h] = [at |-> clock, answer |-> a]
        /\ \A q \in Hits \ {h} : hit'[q] = hit[q]
        /\ hit[h].answer = "none"
    BY <1>0 DEF ApiOK, NotCounted
  <1>2. /\ hits'[k].count = n + 1
        /\ hits'[k].expires = IF n = 0 THEN clock + Window[k] ELSE hits[k].expires
        /\ \A j \in Scopes \ {k} : hits'[j] = hits[j]
    BY <1>0 DEF ApiOK, LimiterOK, Hit, Incr, Expiry
  <1>3. \A j \in Scopes : /\ Limit[j] \in Nat /\ Limit[j] > 0 /\ Window[j] \in Nat /\ Window[j] > 0
                          /\ hits[j].count \in Nat /\ hits[j].expires \in Nat
    BY <1>0, Limits
  <1>4. clock \in Nat /\ \A q \in Hits : hit[q].at \in Nat
    BY <1>0, <1>3, Limits
  <1>5. a = "allowed" => n + 1 =< Limit[k]
    BY DEF Allow, Incr
  <1>6. a = "refused" => n + 1 > Limit[k]
    BY <1>3 DEF Allow, Incr
  <1>7. Past'
    BY <1>0, <1>1, <1>4 DEF Past
  <1>8. ASSUME NEW s \in Nat, s =< clock
        PROVE  /\ \A j : Early(j, s)' = Early(j, s)
               /\ Since(k, Through, s)' = IF a \in Through THEN Since(k, Through, s) \cup {h}
                                                           ELSE Since(k, Through, s)
               /\ Since(k, {"allowed"}, s)' = IF a = "allowed" THEN Since(k, {"allowed"}, s) \cup {h}
                                                              ELSE Since(k, {"allowed"}, s)
               /\ \A as : "none" \notin as => h \notin Since(k, as, s)
    <2>1. \A j : Early(j, s)' = Early(j, s)
      BY <1>1, <1>4, <1>8 DEF Early, ScopeOf
    <2>2. Since(k, Through, s)' = IF a \in Through THEN Since(k, Through, s) \cup {h}
                                                 ELSE Since(k, Through, s)
      BY <1>1, <1>4, <1>8 DEF Since, Through, ScopeOf
    <2>3. Since(k, {"allowed"}, s)' = IF a = "allowed" THEN Since(k, {"allowed"}, s) \cup {h}
                                                    ELSE Since(k, {"allowed"}, s)
      BY <1>1, <1>4, <1>8 DEF Since, ScopeOf
    <2>4. \A as : "none" \notin as => h \notin Since(k, as, s)
      BY <1>1 DEF Since, ScopeOf
    <2>. QED  BY <2>1, <2>2, <2>3, <2>4
  <1>9. ASSUME NEW j \in Scopes \ {k}, NEW s \in Nat
        PROVE  /\ Since(j, Through, s)' = Since(j, Through, s)
               /\ Since(j, {"allowed"}, s)' = Since(j, {"allowed"}, s)
    BY <1>1 DEF Since, Through, ScopeOf
  <1>10. ASSUME NEW j \in Scopes \ {k}
         PROVE  \/ hits'[j].count = 0 /\ NotRunning(j)'
                \/ hits'[j].count > 0 /\ \E s \in Nat, f \in Hits : Running(j, s, f)'
    <2>1. CASE hits[j].count = 0 /\ NotRunning(j)
      <3>1. Early(j, clock)' = Early(j, clock)
        BY <1>1, <1>4 DEF Early, ScopeOf
      <3>2. \A q \in Hits : hit'[q].answer # "none" /\ ScopeOf(q) = j => hit'[q].at < clock
        BY <2>1, <1>1 DEF NotRunning, ScopeOf
      <3>. QED  BY <2>1, <3>1, <3>2, <1>2 DEF NotRunning, ScopeOf
    <2>2. ASSUME hits[j].count > 0, NEW s \in Nat, NEW f \in Hits, Running(j, s, f)
          PROVE  Running(j, s, f)'
      <3>1. s =< clock /\ f # h
        BY <2>2, <1>1 DEF Running, Since, Through, ScopeOf
      <3>2. Early(j, s)' = Early(j, s)
        BY <3>1, <1>8
      <3>. QED  BY <2>2, <3>1, <3>2, <1>1, <1>2, <1>9 DEF Running
    <2>. QED  BY <2>1, <2>2, <1>0, <1>2 DEF Windows
  <1>11. ASSUME n = 0
         PROVE  \E s \in Nat, f \in Hits : Running(k, s, f)'
    <2>. DEFINE T == Since(k, Through, clock)
                A == Since(k, {"allowed"}, clock)
    <2>0. NotRunning(k)
      BY <1>0, <1>11 DEF Windows
    <2>1. a \in Through
      BY <1>6, <1>3, <1>11 DEF Through
    <2>2. T \in SUBSET Hits /\ h \notin T /\ T' = T \cup {h}
      BY <1>1, <1>4, <2>1 DEF Since, Through, ScopeOf
    <2>3. A = {} /\ A' \ {h} = {}
      <3>1. \A q \in Hits : q \in A => FALSE
        BY <2>0, <1>4 DEF Since, NotRunning, ScopeOf
      <3>2. A' \subseteq A \cup {h}
        BY <1>1 DEF Since, ScopeOf
      <3>. QED  BY <3>1, <3>2 DEF Since, ScopeOf
    <2>4. Early(k, clock)' = Early(k, clock)
      BY <1>1, <1>4 DEF Early, ScopeOf
    <2>5. Cardinality(T) \in Nat /\ Cardinality(T') = Cardinality(T) + 1
      BY <2>2, FiniteSets, OneMoreElement
    <2>6. Cardinality(A' \ {h}) = 0
      BY <2>3, FS_EmptySet
    <2>7. Smaller(n + 1, Limit[k]) = 1
      BY <1>11, <1>3 DEF Smaller
    <2>8. Cardinality(Early(k, clock)) < Limit[k]
      BY <2>0 DEF NotRunning, ScopeOf
    <2>9. h \in T' /\ hit'[h].at = clock
      BY <2>2, <1>1
    <2>10. Since(k, Through, clock)' = T' /\ Since(k, {"allowed"}, clock)' = A'
      OBVIOUS
    <2>. HIDE DEF T, A
    <2>11. PICK s \in Nat : s = clock
      BY <1>4
    <2>12. /\ Since(k, Through, s)' = T' /\ Since(k, {"allowed"}, s)' = A'
           /\ Early(k, s)' = Early(k, clock)'
      BY <2>11, <2>10 DEF Since, Early, ScopeOf
    <2>13. hits'[k].expires = s + Window[k] /\ s =< clock' /\ clock' < s + Window[k]
      BY <2>11, <1>2, <1>3, <1>4, <1>11
    <2>14. h \in Since(k, Through, s)' /\ hit'[h].at = s
      BY <2>9, <2>11, <2>12
    <2>15. Smaller(hits'[k].count, Limit[k]) = 1
      BY <2>7, <1>2
    <2>16. 1 =< Cardinality(Since(k, Through, s)')
      BY <2>5, <2>12
    <2>17. Cardinality(Since(k, {"allowed"}, s)' \ {h}) < 1
      BY <2>6, <2>12
    <2>18. Cardinality(Early(k, s)') < Limit[k]
      BY <2>4, <2>8, <2>12
    <2>19. Running(k, s, h)'
      BY <2>13, <2>14, <2>15, <2>16, <2>17, <2>18 DEF Running
    <2>. QED  BY <2>19
  <1>12. ASSUME NEW s \in Nat, NEW f \in Hits, Running(k, s, f), n > 0
         PROVE  Running(k, s, f)'
    <2>. DEFINE T == Since(k, Through, s)
                A == Since(k, {"allowed"}, s)
    <2>1. s =< clock /\ f \in T /\ hit[f].at = s /\ clock < s + Window[k] /\ hits[k].expires = s + Window[k]
      BY <1>12 DEF Running
    <2>2. /\ Smaller(n, Limit[k]) =< Cardinality(T)
          /\ Cardinality(A \ {f}) < Smaller(n, Limit[k])
          /\ Cardinality(Early(k, s)) < Limit[k]
      BY <1>12 DEF Running
    <2>3. /\ Early(k, s)' = Early(k, s)
          /\ T' = IF a \in Through THEN T \cup {h} ELSE T
          /\ A' = IF a = "allowed" THEN A \cup {h} ELSE A
          /\ h \notin T /\ h \notin A
      BY <2>1, <1>8 DEF Through
    <2>4. f # h /\ hit'[f].at = s
      BY <2>1, <2>3, <1>1
    <2>5. T \in SUBSET Hits /\ A \in SUBSET Hits
      BY DEF Since, ScopeOf
    <2>. HIDE DEF T, A, n
    <2>6. Cardinality(T) \in Nat /\ Cardinality(A \ {f}) \in Nat /\ Cardinality((A \cup {h}) \ {f}) \in Nat
      BY <2>5, FiniteSets
    <2>7. /\ Cardinality(T \cup {h}) = Cardinality(T) + 1
          /\ Cardinality((A \ {f}) \cup {h}) =< Cardinality(A \ {f}) + 1
      <3>1. A \ {f} \in SUBSET Hits
        BY <2>5
      <3>. QED  BY <2>3, <2>5, <3>1, OneMoreElement
    <2>8. (A \cup {h}) \ {f} = (A \ {f}) \cup {h}
      BY <2>4
    <2>9. n \in Nat /\ Limit[k] \in Nat
      BY <1>3 DEF n
    <2>10. Smaller(n + 1, Limit[k]) =< Cardinality(T')
      <3>1. CASE a \in Through
        <4>1. Smaller(n + 1, Limit[k]) =< Smaller(n, Limit[k]) + 1 /\ Smaller(n, Limit[k]) \in Nat
          BY <2>9 DEF Smaller
        <4>2. T' = T \cup {h}
          BY <3>1, <2>3
        <4>. QED  BY <4>1, <4>2, <2>2, <2>6, <2>7, <2>9 DEF Smaller
      <3>2. CASE a \notin Through
        <4>1. a = "refused"
          BY <3>2 DEF Through
        <4>2. Smaller(n + 1, Limit[k]) = Smaller(n, Limit[k])
          BY <4>1, <1>6, <2>9 DEF Smaller, n
        <4>. QED  BY <3>2, <4>2, <2>2, <2>3
      <3>. QED  BY <3>1, <3>2
    <2>11. Cardinality(A' \ {f}) < Smaller(n + 1, Limit[k])
      <3>1. CASE a = "allowed"
        <4>1. Smaller(n + 1, Limit[k]) = n + 1 /\ Smaller(n, Limit[k]) = n
          BY <3>1, <1>5, <2>9 DEF Smaller, n
        <4>2. A' \ {f} = (A \ {f}) \cup {h}
          BY <3>1, <2>3, <2>8
        <4>3. Cardinality(A' \ {f}) \in Nat /\ Cardinality(A' \ {f}) =< Cardinality(A \ {f}) + 1
          BY <4>2, <2>6, <2>7, <2>8
        <4>. QED  BY <4>1, <4>3, <2>2, <2>6, <2>9
      <3>2. CASE a # "allowed"
        <4>1. Smaller(n, Limit[k]) =< Smaller(n + 1, Limit[k])
              /\ Smaller(n, Limit[k]) \in Nat /\ Smaller(n + 1, Limit[k]) \in Nat
          BY <2>9 DEF Smaller
        <4>2. A' = A
          BY <3>2, <2>3
        <4>. QED  BY <4>1, <4>2, <2>2, <2>6
      <3>. QED  BY <3>1, <3>2
    <2>12. Since(k, Through, s)' = T' /\ Since(k, {"allowed"}, s)' = A'
      BY DEF T, A
    <2>13. f \in T'
      BY <2>1, <2>3
    <2>14. hits'[k].count = n + 1 /\ hits'[k].expires = s + Window[k]
      BY <1>2, <1>12, <2>1 DEF n
    <2>. QED
      BY <2>1, <2>2, <2>3, <2>4, <2>10, <2>11, <2>12, <2>13, <2>14 DEF Running
  <1>13. Windows'
    <2>1. n > 0 => \E s \in Nat, f \in Hits : Running(k, s, f)'
      BY <1>0, <1>12 DEF Windows
    <2>2. n = 0 => \E s \in Nat, f \in Hits : Running(k, s, f)'
      BY <1>11
    <2>3. hits'[k].count > 0 /\ \E s \in Nat, f \in Hits : Running(k, s, f)'
      BY <2>1, <2>2, <1>2, <1>3
    <2>. QED  BY <2>3, <1>10 DEF Windows
  <1>14. (ApiOK /\ Past /\ Windows => Bounded)'
    BY NowIsBounded, PTL
  <1>15. LessThanTwiceTheLimit'
    <2>. SUFFICES ASSUME NEW j \in Scopes, NEW t \in 0 .. clock
                  PROVE  Cardinality(Counted(j, t, {"allowed"})') < 2 * Limit[j]
      BY DEF LessThanTwiceTheLimit
    <2>1. CASE t = clock
      <3>1. ApiOK'
        BY DEF IInv
      <3>2. Counted(j, clock, {"allowed"})' = Counted(j, t, {"allowed"})'
        BY <2>1 DEF Counted, ScopeOf
      <3>. QED  BY <3>1, <3>2, <1>7, <1>13, <1>14 DEF Bounded
    <2>2. CASE t # clock
      <3>1. t < clock
        BY <2>2, <1>4
      <3>2. Counted(j, t, {"allowed"})' = Counted(j, t, {"allowed"})
        BY <3>1, <1>1, <1>4 DEF Counted, ScopeOf
      <3>. QED  BY <3>2, <1>0 DEF LessThanTwiceTheLimit
    <2>. QED  BY <2>1, <2>2
  <1>16. RefusalsAreEarned'
    <2>. DEFINE C(q) == Counted(ScopeOf(q), hit[q].at, {"allowed", "unknown"})
    <2>. SUFFICES ASSUME NEW q \in Hits, hit'[q].answer = "refused"
                  PROVE  Limit[ScopeOf(q)] =< Cardinality(C(q)')
      BY DEF RefusalsAreEarned, ScopeOf
    <2>1. C(q)' \in SUBSET Hits
      BY DEF Counted, ScopeOf
    <2>2. CASE q # h
      <3>1. hit'[q] = hit[q] /\ C(q) \subseteq C(q)'
        BY <2>2, <1>1 DEF Counted, ScopeOf
      <3>2. Limit[ScopeOf(q)] =< Cardinality(C(q))
        BY <3>1, <1>0 DEF RefusalsAreEarned, ScopeOf
      <3>3. Cardinality(C(q)) \in Nat /\ Cardinality(C(q)') \in Nat /\ Cardinality(C(q)) =< Cardinality(C(q)')
        BY <2>1, <3>1, FiniteSets, SmallerSets
      <3>4. ScopeOf(q) \in Scopes
        BY <3>1, <1>0 DEF LInv, RefusedAreLimited, ScopeOf
      <3>. HIDE DEF C
      <3>. QED  BY <3>2, <3>3, <3>4, <1>3
    <2>3. CASE q = h
      <3>1. a = "refused"
        BY <2>3, <1>1
      <3>2. n >= Limit[k] /\ n > 0
        BY <3>1, <1>6, <1>3
      <3>3. PICK s \in Nat, f \in Hits : Running(k, s, f)
        BY <3>2, <1>0 DEF Windows
      <3>4. Since(k, Through, s) \subseteq C(h)'
        <4>1. s =< clock /\ clock < s + Window[k]
          BY <3>3 DEF Running
        <4>2. \A p \in Since(k, Through, s) : p # h /\ hit[p].at =< clock
          BY <1>0, <1>1 DEF Since, Through, Past, ScopeOf
        <4>. QED  BY <4>1, <4>2, <1>1, <1>3, <1>4 DEF Counted, Since, Through, ScopeOf
      <3>5. Limit[k] =< Cardinality(Since(k, Through, s))
        <4>1. Smaller(n, Limit[k]) =< Cardinality(Since(k, Through, s))
          BY <3>3 DEF Running
        <4>2. Smaller(n, Limit[k]) = Limit[k]
          BY <3>2, <1>3 DEF Smaller
        <4>. QED  BY <4>1, <4>2
      <3>6. /\ Cardinality(Since(k, Through, s)) \in Nat /\ Cardinality(C(h)') \in Nat
            /\ Cardinality(Since(k, Through, s)) =< Cardinality(C(h)')
        BY <2>1, <2>3, <3>4, FiniteSets, SmallerSets
      <3>. HIDE DEF C
      <3>. QED  BY <2>3, <3>5, <3>6, <1>3
    <2>. QED  BY <2>2, <2>3
  <1>17. RefusedAreLimited'
    BY <1>1 DEF LInv, RefusedAreLimited, ScopeOf
  <1>. QED  BY <1>7, <1>13, <1>15, <1>16, <1>17 DEF LInv

LEMMA LimiterStep ==
  ASSUME LInv, IInv', NEW r \in Requests, RateLimit(r)
  PROVE  LInv'
  <1>. DEFINE k == Scope[sent[r].op]
  <1>0. ApiOK /\ Fresh /\ OnRoute
    BY DEF LInv, IInv
  <1>1. UNCHANGED <<clock, sent>> /\ At(r, "limit")
    BY DEF RateLimit
  <1>. DEFINE h == <<r, resent[r]>>
  <1>2. h \in Hits /\ hit[h] = NotCounted /\ k \in Scopes /\ k = ScopeOf(h)
    <2>1. Uncounted(r) /\ k \in Scopes
      BY <1>0, <1>1, NamesAssumption DEF OnRoute, At, Scope
    <2>2. resent[r] \in 0 .. MaxRetries /\ resent[r] \in resent[r] .. MaxRetries
      BY <1>0, LimitAssumption DEF ApiOK
    <2>. QED  BY <2>1, <2>2 DEF Uncounted, Hits, ScopeOf
  <1>3. CASE UNCHANGED <<hits, hit>>
    BY <1>1, <1>3, NobodyCounted
  <1>4. ASSUME NEW a \in {"allowed", "refused", "unknown"},
               Hit(k), hit' = [hit EXCEPT ![h] = [at |-> clock, answer |-> a]],
               a = "allowed" => Allow(k), a = "refused" => ~Allow(k)
        PROVE  LInv'
    BY <1>1, <1>2, <1>4, SomebodyCounted
  <1>5. \/ UNCHANGED <<hits, hit>>
        \/ \E a \in {"allowed", "refused", "unknown"} :
              /\ Hit(k) /\ hit' = [hit EXCEPT ![h] = [at |-> clock, answer |-> a]]
              /\ a = "allowed" => Allow(k)
              /\ a = "refused" => ~Allow(k)
    BY DEF RateLimit
  <1>. QED  BY <1>3, <1>4, <1>5

LEMMA LimiterInvariant == Spec => []LInv
  <1>1. Init /\ IInv => LInv
    <2>. SUFFICES ASSUME Init, IInv PROVE LInv
      OBVIOUS
    <2>1. /\ \A h \in Hits : hit[h].answer = "none"
          /\ clock = 0 /\ \A k \in Scopes : hits[k].count = 0
      BY DEF Init, LimitInit, NotCounted, NoKey
    <2>2. ASSUME NEW k \in Scopes PROVE NotRunning(k)
      <3>1. Early(k, clock) = {}
        BY <2>1 DEF Early, ScopeOf
      <3>2. Cardinality(Early(k, clock)) < Limit[k]
        BY <3>1, FS_EmptySet, LimitAssumption
      <3>. QED  BY <2>1, <3>2 DEF NotRunning, ScopeOf
    <2>3. ASSUME NEW k \in Scopes, NEW t PROVE Cardinality(Counted(k, t, {"allowed"})) < 2 * Limit[k]
      <3>1. Counted(k, t, {"allowed"}) = {}
        BY <2>1 DEF Counted, ScopeOf
      <3>2. Cardinality(Counted(k, t, {"allowed"})) = 0
        BY <3>1, FS_EmptySet
      <3>3. Limit[k] \in Nat /\ Limit[k] > 0
        BY LimitAssumption
      <3>. QED  BY <3>2, <3>3
    <2>. QED
      BY <2>1, <2>2, <2>3 DEF LInv, Past, Windows, RefusedAreLimited, LessThanTwiceTheLimit, RefusalsAreEarned, ScopeOf
  <1>2. ASSUME LInv, IInv', [Next]_vars PROVE LInv'
    <2>0. ApiOK
      BY <1>2 DEF LInv, IInv
    <2>1. CASE Tick
      BY <1>2, <2>1, TimePasses
    <2>2. ASSUME NEW r \in Requests, RateLimit(r) PROVE LInv'
      BY <1>2, <2>2, LimiterStep
    <2>3. ASSUME UNCHANGED <<clock, hits, hit>>,
                 \A q \in Requests : sent[q] # NotSent => sent'[q] = sent[q]
          PROVE  LInv'
      BY <1>2, <2>3, NobodyCounted
    <2>4. ASSUME NEW r \in Requests, NEW b \in Browsers, NEW op \in Ops, Send(r, b, op) PROVE LInv'
      <3>1. \A q \in Requests : sent[q] # NotSent => sent'[q] = sent[q]
        BY <2>0, <2>4 DEF Send, ApiOK
      <3>. QED  BY <2>3, <2>4, <3>1 DEF Send
    <2>5. ASSUME NEW r \in Requests, RequireAuth(r) \/ Deliver(r) PROVE LInv'
      BY <2>3, <2>5 DEF RequireAuth, Deliver
    <2>6. ASSUME NEW r \in Requests, Handle(r) PROVE LInv'
      <3>1. IInv
        BY <1>2 DEF LInv
      <3>. QED  BY <2>3, <2>6, <3>1, HandlersAreTruthful
    <2>7. CASE UNCHANGED vars
      BY <2>3, <2>7 DEF vars, request
    <2>. QED  BY <1>2, <2>1, <2>2, <2>4, <2>5, <2>6, <2>7 DEF Next
  <1>. QED  BY <1>1, <1>2, Invariant, PTL DEF Spec

-----------------------------------------------------------------------------
(* What it is for. *)

\* Whatever the turns of the fixed window, the limiter allows less than twice the limit in
\* any interval of its length (rate_limit.go:11-24).
THEOREM TheLimitHolds == Spec => []LessThanTwiceTheLimit
  <1>1. LInv => LessThanTwiceTheLimit
    BY DEF LInv
  <1>. QED  BY <1>1, LimiterInvariant, PTL

\* Nobody is turned away before the address has taken the limit's hits within the last
\* window's length, refusals apart, for any number of times the driver sends a request's
\* script (rate_limit.go:14-17; redis/client.go:26-34).
THEOREM NobodyIsBanned == Spec => []RefusalsAreEarned
  <1>1. LInv => RefusalsAreEarned
    BY DEF LInv
  <1>. QED  BY <1>1, LimiterInvariant, PTL

=============================================================================
