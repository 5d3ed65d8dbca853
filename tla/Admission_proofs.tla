-------------------------- MODULE Admission_proofs --------------------------
(***************************************************************************)
(* Theorems about Admission, for any number of connections, addresses and  *)
(* user names and any limits.                                              *)
(***************************************************************************)
EXTENDS Admission, FiniteSetTheorems, TLAPS

USE ConnAssumption, LimitAssumption

\* The entry of an address that is not in the map counts nothing.
UnlistedIsZero == \A a \in Addrs \ listed : perAddr[a] = 0

\* A task holds its user name from the reservation on, and a session keeps the
\* name even when its task ended without removing it.
Holds(c) == pc[c] \in {"named", "registered", "serving", "unnaming"} \/ c \in sessions

NamesHeld ==
    \A c \in Conns : /\ Holds(c) => holder[NameOf[c]] = c
                     /\ pc[c] = "unnaming" => c \notin sessions

\* The two counts: the total is exact, the one of an address never too high.
Counts ==
    /\ total = Cardinality(Active)
    /\ total <= MaxTotal
    /\ UnlistedIsZero
    /\ NoLockout

Safe == TypeOK /\ NamesHeld /\ Counts

----------------------------------------------------------------------------
\* Sets of connections are finite, and one connection more or less is one.
LEMMA OneMore ==
    ASSUME NEW S \in SUBSET Conns, NEW c \in Conns
    PROVE  /\ IsFiniteSet(S) /\ Cardinality(S) \in Nat
           /\ c \notin S => Cardinality(S \cup {c}) = Cardinality(S) + 1
           /\ c \in S => Cardinality(S) >= 1 /\ Cardinality(S \ {c}) = Cardinality(S) - 1
<1>1. IsFiniteSet(S) /\ Cardinality(S) \in Nat BY FS_Subset, FS_CardinalityType
<1>2. c \notin S => Cardinality(S \cup {c}) = Cardinality(S) + 1 BY <1>1, FS_AddElement
<1>3. ASSUME c \in S
      PROVE  Cardinality(S) >= 1 /\ Cardinality(S \ {c}) = Cardinality(S) - 1
  <2>1. S # {} BY <1>3
  <2>2. Cardinality(S) # 0 BY <1>1, <2>1, FS_EmptySet
  <2>3. Cardinality(S \ {c}) = Cardinality(S) - 1 BY <1>1, <1>3, FS_RemoveElement
  <2> QED BY <1>1, <2>2, <2>3
<1> QED BY <1>1, <1>2, <1>3

LEMMA SafeInit == Init => Safe
<1> SUFFICES ASSUME Init PROVE Safe OBVIOUS
<1>1. TypeOK BY DEF Init, TypeOK, Labels
<1>2. NamesHeld BY DEF Init, NamesHeld, Holds
<1>3. Active = {} /\ \A a \in Addrs : Counted(a) = {} BY DEF Init, Active, Counted
<1>4. Cardinality({}) = 0 BY FS_EmptySet
<1>5. UnlistedIsZero BY DEF Init, UnlistedIsZero
<1>6. NoLockout
  <2> SUFFICES ASSUME NEW a \in Addrs PROVE perAddr[a] <= Cardinality(Counted(a))
    BY DEF NoLockout
  <2>1. perAddr[a] = 0 BY DEF Init
  <2>2. Cardinality(Counted(a)) = 0 BY <1>3, <1>4
  <2> QED BY <2>1, <2>2
<1>7. total = Cardinality(Active) /\ total <= MaxTotal
  BY <1>3, <1>4, LimitAssumption DEF Init
<1>8. Counts BY <1>5, <1>6, <1>7 DEF Counts
<1> QED BY <1>1, <1>2, <1>8 DEF Safe

\* Names: the map entry decides who gets the name, and only its holder frees it.
LEMMA NamesStep ==
    ASSUME TypeOK, NamesHeld, NEW c \in Conns,
           \/ Accept(c) \/ Reject(c) \/ HandshakeFails(c) \/ CheckUsers(c)
           \/ ReserveName(c) \/ Register(c) \/ Welcome(c) \/ Disconnect(c)
           \/ ReleaseName(c) \/ LeaveTotal(c) \/ LeaveAddr(c) \/ RemoveEntry(c)
    PROVE  NamesHeld'
<1>1. CASE Accept(c) \/ Reject(c) \/ HandshakeFails(c) \/ CheckUsers(c)
           \/ LeaveTotal(c) \/ LeaveAddr(c) \/ RemoveEntry(c) \/ Welcome(c)
  <2>1. /\ sessions' = sessions /\ holder' = holder
        /\ \A d \in Conns \ {c} : pc'[d] = pc[d]
        /\ pc'[c] \in {"named", "serving", "registered", "unnaming"} => pc[c] = "registered"
        /\ pc'[c] # "unnaming"
    BY <1>1 DEF TypeOK, Accept, Reject, HandshakeFails, CheckUsers, LeaveTotal, LeaveAddr,
                RemoveEntry, Welcome, Goto
  <2> QED BY <2>1 DEF NamesHeld, Holds
<1>2. CASE ReserveName(c)
  BY <1>2 DEF TypeOK, NamesHeld, Holds, ReserveName, Taken, Goto
<1>3. CASE Register(c) BY <1>3 DEF TypeOK, NamesHeld, Holds, Register, Goto
<1>4. CASE Disconnect(c) BY <1>4 DEF TypeOK, NamesHeld, Holds, Disconnect, Goto
<1>5. CASE ReleaseName(c)
  <2>1. holder[NameOf[c]] = c /\ c \notin sessions /\ sessions' = sessions
    BY <1>5 DEF NamesHeld, Holds, ReleaseName
  <2>2. ASSUME NEW d \in Conns, Holds(d)' PROVE holder'[NameOf[d]] = d
    <3>1. d # c BY <1>5, <2>1, <2>2 DEF TypeOK, Holds, ReleaseName, Goto
    <3>2. Holds(d) BY <1>5, <2>1, <2>2, <3>1 DEF TypeOK, Holds, ReleaseName, Goto
    <3>3. NameOf[d] # NameOf[c] BY <2>1, <3>1, <3>2 DEF NamesHeld
    <3> QED BY <1>5, <3>2, <3>3 DEF TypeOK, NamesHeld, ReleaseName
  <2>3. ASSUME NEW d \in Conns, pc'[d] = "unnaming" PROVE d \notin sessions'
    BY <1>5, <2>3 DEF TypeOK, NamesHeld, ReleaseName, Goto
  <2> QED BY <2>2, <2>3 DEF NamesHeld
<1> QED BY <1>1, <1>2, <1>3, <1>4, <1>5

\* Types and counts: a step counts its own connection, once.
LEMMA CountsStep ==
    ASSUME TypeOK, Counts, NEW c \in Conns,
           \/ Accept(c) \/ Reject(c) \/ HandshakeFails(c) \/ CheckUsers(c)
           \/ ReserveName(c) \/ Register(c) \/ Welcome(c) \/ Disconnect(c)
           \/ ReleaseName(c) \/ LeaveTotal(c) \/ LeaveAddr(c) \/ RemoveEntry(c)
    PROVE  TypeOK' /\ Counts'
<1> DEFINE a == AddrOf[c]
<1>0. /\ Active \in SUBSET Conns /\ \A b \in Addrs : Counted(b) \in SUBSET Conns
      /\ a \in Addrs
  BY DEF Active, Counted
<1>1. CASE Accept(c)
  <2>1. Active' = Active \cup {c} /\ c \notin Active
    BY <1>1 DEF TypeOK, Accept, Goto, Active
  <2>2. Counted(a)' = Counted(a) \cup {c} /\ c \notin Counted(a)
    BY <1>1 DEF TypeOK, Accept, Goto, Counted
  <2>3. \A b \in Addrs \ {a} : Counted(b)' = Counted(b)
    BY <1>1 DEF TypeOK, Accept, Goto, Counted
  <2>4. total' = total + 1 /\ total < MaxTotal /\ listed' = listed \cup {a}
        /\ perAddr' = [perAddr EXCEPT ![a] = @ + 1] /\ sessions' = sessions
        /\ holder' = holder /\ pc' = [pc EXCEPT ![c] = "handshake"]
    BY <1>1 DEF Accept, HasRoom, Goto
  <2>5. TypeOK' BY <1>0, <2>4 DEF TypeOK, Labels
  <2>6. total' = Cardinality(Active)' /\ total' <= MaxTotal
    BY <1>0, <2>1, <2>4, OneMore DEF Counts, TypeOK
  <2>7. UnlistedIsZero' BY <1>0, <2>4 DEF Counts, UnlistedIsZero, TypeOK
  <2>8. perAddr'[a] <= Cardinality(Counted(a)')
    <3>1. Cardinality(Counted(a)') = Cardinality(Counted(a)) + 1
          /\ Cardinality(Counted(a)) \in Nat
      BY <1>0, <2>2, OneMore
    <3>2. perAddr[a] <= Cardinality(Counted(a)) /\ perAddr[a] \in Nat
      BY <1>0 DEF Counts, NoLockout, TypeOK
    <3>3. perAddr'[a] = perAddr[a] + 1 BY <1>0, <2>4 DEF TypeOK
    <3> QED BY <3>1, <3>2, <3>3
  <2>9. ASSUME NEW b \in Addrs \ {a} PROVE perAddr'[b] <= Cardinality(Counted(b)')
    BY <1>0, <2>3, <2>4, <2>9 DEF Counts, NoLockout, TypeOK
  <2>10. NoLockout' BY <2>8, <2>9 DEF NoLockout
  <2> QED BY <2>5, <2>6, <2>7, <2>10 DEF Counts
<1>2. CASE Reject(c) \/ HandshakeFails(c) \/ CheckUsers(c) \/ ReserveName(c) \/ Register(c)
           \/ Welcome(c) \/ Disconnect(c) \/ ReleaseName(c)
  <2>1. UNCHANGED <<total, listed, perAddr>>
    BY <1>2 DEF Reject, HandshakeFails, CheckUsers, ReserveName, Register, Welcome,
                Disconnect, ReleaseName
  <2>2. sessions' \subseteq Conns /\ holder' \in [Usernames -> Conns \cup {Nobody}]
    BY <1>2 DEF TypeOK, Reject, HandshakeFails, CheckUsers, ReserveName, Register, Welcome,
                Disconnect, ReleaseName
  <2>3. PICK label \in Labels :
          /\ pc' = [pc EXCEPT ![c] = label]
          /\ \/ pc[c] = "new" /\ label = "rejected"
             \/ /\ pc[c] \notin {"new", "rejected", "uncounting", "removing", "ended"}
                /\ label \notin {"new", "rejected", "uncounting", "removing", "ended"}
    BY <1>2 DEF Reject, HandshakeFails, CheckUsers, ReserveName, Register, Welcome,
                Disconnect, ReleaseName, Goto, Labels
  <2>4. Active' = Active BY <2>3 DEF TypeOK, Active
  <2>5. ASSUME NEW b \in Addrs PROVE Counted(b)' = Counted(b)
    BY <2>3 DEF TypeOK, Counted
  <2>6. TypeOK' BY <2>1, <2>2, <2>3 DEF TypeOK
  <2> QED BY <2>1, <2>4, <2>5, <2>6 DEF Counts, UnlistedIsZero, NoLockout
<1>3. CASE LeaveTotal(c)
  <2>1. total' = total - 1 /\ pc[c] = "leaving" /\ pc' = [pc EXCEPT ![c] = "uncounting"]
        /\ UNCHANGED <<listed, perAddr, sessions, holder>>
    BY <1>3 DEF LeaveTotal, Goto
  <2>2. Active' = Active \ {c} /\ c \in Active BY <2>1 DEF TypeOK, Active
  <2>3. ASSUME NEW b \in Addrs PROVE Counted(b)' = Counted(b)
    BY <2>1 DEF TypeOK, Counted
  <2>4. Cardinality(Active) >= 1 /\ Cardinality(Active)' = Cardinality(Active) - 1
        /\ Cardinality(Active) \in Nat
    BY <1>0, <2>2, OneMore
  <2>5. total' \in Nat /\ total' = Cardinality(Active)' /\ total' <= MaxTotal
    BY <2>1, <2>4 DEF Counts, TypeOK
  <2>6. TypeOK' BY <2>1, <2>5 DEF TypeOK, Labels
  <2> QED BY <2>1, <2>3, <2>5, <2>6 DEF Counts, UnlistedIsZero, NoLockout
<1>4. CASE LeaveAddr(c)
  <2>1. /\ pc[c] = "uncounting" /\ UNCHANGED <<total, listed, sessions, holder>>
        /\ perAddr' = IF a \in listed THEN [perAddr EXCEPT ![a] = Less(@)] ELSE perAddr
        /\ \E label \in {"removing", "ended"} : pc' = [pc EXCEPT ![c] = label]
    BY <1>4 DEF LeaveAddr, Goto
  <2>2. Active' = Active BY <2>1 DEF TypeOK, Active
  <2>3. Counted(a)' = Counted(a) \ {c} /\ c \in Counted(a) BY <2>1 DEF TypeOK, Counted
  <2>4. \A b \in Addrs \ {a} : Counted(b)' = Counted(b) BY <2>1 DEF TypeOK, Counted
  <2>5. perAddr[a] \in Nat /\ Less(perAddr[a]) \in Nat
    BY <1>0 DEF TypeOK, Less
  <2>6. perAddr' \in [Addrs -> Nat] BY <2>1, <2>5 DEF TypeOK
  <2>7. TypeOK' BY <2>1, <2>6 DEF TypeOK, Labels
  <2>8. UnlistedIsZero' BY <1>0, <2>1 DEF Counts, UnlistedIsZero, TypeOK
  <2>9. perAddr'[a] = 0 \/ perAddr'[a] = perAddr[a] - 1
    BY <1>0, <2>1, <2>5 DEF Counts, UnlistedIsZero, TypeOK, Less
  <2>10. perAddr'[a] <= Cardinality(Counted(a)')
    <3>1. /\ Cardinality(Counted(a)) >= 1 /\ Cardinality(Counted(a)) \in Nat
          /\ Cardinality(Counted(a)') = Cardinality(Counted(a)) - 1
      BY <1>0, <2>3, OneMore
    <3>2. perAddr[a] <= Cardinality(Counted(a)) BY <1>0 DEF Counts, NoLockout
    <3> QED BY <2>5, <2>9, <3>1, <3>2
  <2>11. ASSUME NEW b \in Addrs \ {a} PROVE perAddr'[b] <= Cardinality(Counted(b)')
    BY <2>1, <2>4, <2>11 DEF Counts, NoLockout, TypeOK
  <2>12. NoLockout' BY <2>10, <2>11 DEF NoLockout
  <2> QED BY <2>1, <2>2, <2>7, <2>8, <2>12 DEF Counts
<1>5. CASE RemoveEntry(c)
  <2>1. /\ pc[c] = "removing" /\ UNCHANGED <<total, sessions, holder>>
        /\ listed' = listed \ {a} /\ perAddr' = [perAddr EXCEPT ![a] = 0]
        /\ pc' = [pc EXCEPT ![c] = "ended"]
    BY <1>5 DEF RemoveEntry, Goto
  <2>2. Active' = Active BY <2>1 DEF TypeOK, Active
  <2>3. \A b \in Addrs : Counted(b)' = Counted(b) BY <2>1 DEF TypeOK, Counted
  <2>4. TypeOK' BY <2>1 DEF TypeOK, Labels
  <2>5. UnlistedIsZero' BY <1>0, <2>1 DEF Counts, UnlistedIsZero, TypeOK
  <2>6. ASSUME NEW b \in Addrs PROVE perAddr'[b] <= Cardinality(Counted(b)')
    <3>1. perAddr[b] <= Cardinality(Counted(b)) /\ Cardinality(Counted(b)) \in Nat
      BY <1>0, OneMore DEF Counts, NoLockout
    <3>2. perAddr'[b] = 0 \/ perAddr'[b] = perAddr[b] BY <2>1 DEF TypeOK
    <3> QED BY <2>3, <3>1, <3>2
  <2> QED BY <2>1, <2>2, <2>4, <2>5, <2>6 DEF Counts, NoLockout
<1> QED BY <1>1, <1>2, <1>3, <1>4, <1>5

LEMMA SafeInductive == Safe /\ [Next]_vars => Safe'
<1> SUFFICES ASSUME Safe, [Next]_vars PROVE Safe' OBVIOUS
<1>1. CASE Next
  <2>1. PICK c \in Conns :
           \/ Accept(c) \/ Reject(c) \/ HandshakeFails(c) \/ CheckUsers(c)
           \/ ReserveName(c) \/ Register(c) \/ Welcome(c) \/ Disconnect(c)
           \/ ReleaseName(c) \/ LeaveTotal(c) \/ LeaveAddr(c) \/ RemoveEntry(c)
    BY <1>1 DEF Next
  <2> QED BY <2>1, NamesStep, CountsStep DEF Safe
<1>2. CASE UNCHANGED vars
  BY <1>2 DEF Safe, TypeOK, NamesHeld, Holds, Counts, UnlistedIsZero, NoLockout, Active,
              Counted, vars
<1> QED BY <1>1, <1>2

----------------------------------------------------------------------------
\* Every reachable state is well typed: no count is ever negative, although the
\* count of an address may have been lost when its task goes.
THEOREM TypeCorrect == Spec => []TypeOK
<1>1. Safe => TypeOK BY DEF Safe
<1> QED BY <1>1, SafeInit, SafeInductive, PTL DEF Spec

\* The connections are never more than MAX_TOTAL_CONNECTIONS: one task accepts
\* them, so the unlocked test and increment of the total cannot race.
THEOREM TotalAlwaysRespected == Spec => []TotalRespected
<1>1. Safe => TotalRespected BY DEF Safe, Counts, TotalRespected
<1> QED BY <1>1, SafeInit, SafeInductive, PTL DEF Spec

\* Lost counts only ever favour an address: its count is never above the number
\* of its connections.
THEOREM NeverLockedOut == Spec => []NoLockout
<1>1. Safe => NoLockout BY DEF Safe, Counts
<1> QED BY <1>1, SafeInit, SafeInductive, PTL DEF Spec

\* The sessions of the server have distinct user names, each reserved by the
\* session that shows it.
THEOREM NamesAlwaysExclusive == Spec => []NamesExclusive
<1>1. Safe => NamesExclusive
  <2> SUFFICES ASSUME Safe, NEW c \in sessions PROVE holder[NameOf[c]] = c
    BY DEF NamesExclusive
  <2>1. c \in Conns BY DEF Safe, TypeOK
  <2> QED BY <2>1 DEF Safe, NamesHeld, Holds
<1> QED BY <1>1, SafeInit, SafeInductive, PTL DEF Spec
=============================================================================
