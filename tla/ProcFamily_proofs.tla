------------------------- MODULE ProcFamily_proofs -------------------------
(***************************************************************************)
(* On one CPU, where no process traces another or waits for its process    *)
(* group, the family stays a tree with lists in order and sys_wait4 reaps  *)
(* what it found, for any number of processes.                             *)
(***************************************************************************)
EXTENDS ProcFamily, ListLemmas
-----------------------------------------------------------------------------
(* The links of the families                                               *)
(*                                                                         *)
(* REMOVE_LINKS and SET_LINKS keep the lists of children in order: what a  *)
(* removal takes out and an insertion puts in front, both directions of    *)
(* every list agree on, and no ring comes off.                             *)

\* What Agree and NoRing are about: one condition, to be carried along.
InOrder(k, C, M) == Agree(k, C, M) /\ NoRing(k, C)

\* The function of a pointer field after one assignment.
LEMMA SetIfFacts ==
    ASSUME NEW f \in [Task -> Task \cup {NULL}], NEW p, NEW v \in Task \cup {NULL}
    PROVE  /\ SetIf(f, p, v) \in [Task -> Task \cup {NULL}]
           /\ \A q \in Task : SetIf(f, p, v)[q] = IF q = p THEN v ELSE f[q]
BY DEF SetIf

\* REMOVE_LINKS(p), one field at a time.
LEMMA RemoveLinksFacts ==
    ASSUME NEW k \in Kin, NEW p \in Task
    PROVE  LET r == REMOVE_LINKS(k, p) IN
           /\ r \in Kin
           /\ r.p_opptr = k.p_opptr /\ r.p_pptr = k.p_pptr
           /\ \A q \in Task :
               /\ r.p_ysptr[q] = IF q = k.p_osptr[p] THEN k.p_ysptr[p] ELSE k.p_ysptr[q]
               /\ r.p_osptr[q] = IF q = k.p_ysptr[p] THEN k.p_osptr[p] ELSE k.p_osptr[q]
               /\ r.p_cptr[q] = IF k.p_ysptr[p] = NULL /\ q = k.p_pptr[p]
                                THEN k.p_osptr[p] ELSE k.p_cptr[q]
<1> DEFINE ys == SetIf(k.p_ysptr, k.p_osptr[p], k.p_ysptr[p])
           os == SetIf(k.p_osptr, k.p_ysptr[p], k.p_osptr[p])
           cs == IF k.p_ysptr[p] = NULL THEN SetIf(k.p_cptr, k.p_pptr[p], k.p_osptr[p])
                 ELSE k.p_cptr
           r == REMOVE_LINKS(k, p)
<1>1. /\ k.p_ysptr \in [Task -> Task \cup {NULL}] /\ k.p_osptr \in [Task -> Task \cup {NULL}]
      /\ k.p_cptr \in [Task -> Task \cup {NULL}]
      /\ k.p_ysptr[p] \in Task \cup {NULL} /\ k.p_osptr[p] \in Task \cup {NULL}
  BY DEF Kin
<1>2. /\ r.p_ysptr = ys /\ r.p_osptr = os /\ r.p_cptr = cs
      /\ r.p_opptr = k.p_opptr /\ r.p_pptr = k.p_pptr
      /\ r = [p_opptr |-> k.p_opptr, p_pptr |-> k.p_pptr, p_cptr |-> cs,
              p_ysptr |-> ys, p_osptr |-> os]
  BY DEF REMOVE_LINKS, WithLists, WithoutYoungest
<1>3. /\ ys \in [Task -> Task \cup {NULL}]
      /\ \A q \in Task : ys[q] = IF q = k.p_osptr[p] THEN k.p_ysptr[p] ELSE k.p_ysptr[q]
  BY <1>1, SetIfFacts
<1>4. /\ os \in [Task -> Task \cup {NULL}]
      /\ \A q \in Task : os[q] = IF q = k.p_ysptr[p] THEN k.p_osptr[p] ELSE k.p_osptr[q]
  BY <1>1, SetIfFacts
<1>5. /\ cs \in [Task -> Task \cup {NULL}]
      /\ \A q \in Task : cs[q] = IF k.p_ysptr[p] = NULL /\ q = k.p_pptr[p]
                                 THEN k.p_osptr[p] ELSE k.p_cptr[q]
  <2>1. CASE k.p_ysptr[p] = NULL
    <3>1. /\ SetIf(k.p_cptr, k.p_pptr[p], k.p_osptr[p]) \in [Task -> Task \cup {NULL}]
          /\ \A q \in Task : SetIf(k.p_cptr, k.p_pptr[p], k.p_osptr[p])[q] =
                 IF q = k.p_pptr[p] THEN k.p_osptr[p] ELSE k.p_cptr[q]
      BY <1>1, SetIfFacts
    <3> QED BY <2>1, <3>1
  <2>2. CASE k.p_ysptr[p] # NULL
    BY <1>1, <2>2
  <2> QED BY <2>1, <2>2
<1>6. r \in Kin
  <2> HIDE DEF ys, os, cs, r
  <2> QED BY <1>2, <1>3, <1>4, <1>5 DEF Kin
<1> HIDE DEF ys, os, cs
<1> QED BY <1>2, <1>3, <1>4, <1>5, <1>6

\* SET_LINKS(p), one field at a time.
LEMMA SetFacts ==
    ASSUME NEW k \in Kin, NEW p \in Task, k.p_pptr[p] \in Task, k.p_cptr[k.p_pptr[p]] # p
    PROVE  LET s == SET_LINKS(k, p)
               older == k.p_cptr[k.p_pptr[p]] IN
           /\ s \in Kin
           /\ s.p_opptr = k.p_opptr /\ s.p_pptr = k.p_pptr
           /\ \A q \in Task :
               /\ s.p_osptr[q] = IF q = p THEN older ELSE k.p_osptr[q]
               /\ s.p_ysptr[q] = IF q = p THEN NULL ELSE IF q = older THEN p ELSE k.p_ysptr[q]
               /\ s.p_cptr[q] = IF q = k.p_pptr[p] THEN p ELSE k.p_cptr[q]
<1> DEFINE older == k.p_cptr[k.p_pptr[p]]
           os == SetIf(k.p_osptr, p, older)
           y0 == SetIf(k.p_ysptr, p, NULL)
           ys == SetIf(y0, older, p)
           cs == SetIf(k.p_cptr, k.p_pptr[p], p)
           s == SET_LINKS(k, p)
<1>1. /\ k.p_ysptr \in [Task -> Task \cup {NULL}] /\ k.p_osptr \in [Task -> Task \cup {NULL}]
      /\ k.p_cptr \in [Task -> Task \cup {NULL}] /\ older \in Task \cup {NULL}
  BY DEF Kin
<1>2. /\ s.p_ysptr = ys /\ s.p_osptr = os /\ s.p_cptr = cs
      /\ s.p_opptr = k.p_opptr /\ s.p_pptr = k.p_pptr
      /\ s = [p_opptr |-> k.p_opptr, p_pptr |-> k.p_pptr, p_cptr |-> cs,
              p_ysptr |-> ys, p_osptr |-> os]
  BY DEF SET_LINKS, WithLists
<1>3. /\ os \in [Task -> Task \cup {NULL}]
      /\ \A q \in Task : os[q] = IF q = p THEN older ELSE k.p_osptr[q]
  <2> HIDE DEF older
  <2> QED BY <1>1, SetIfFacts
<1>4. /\ y0 \in [Task -> Task \cup {NULL}]
      /\ \A q \in Task : y0[q] = IF q = p THEN NULL ELSE k.p_ysptr[q]
  BY <1>1, SetIfFacts
<1>5. /\ ys \in [Task -> Task \cup {NULL}]
      /\ \A q \in Task : ys[q] = IF q = older THEN p ELSE y0[q]
  <2> HIDE DEF older, y0
  <2> QED BY <1>4, SetIfFacts
<1>6. /\ cs \in [Task -> Task \cup {NULL}]
      /\ \A q \in Task : cs[q] = IF q = k.p_pptr[p] THEN p ELSE k.p_cptr[q]
  BY <1>1, SetIfFacts
<1>7. s \in Kin
  <2> HIDE DEF ys, os, cs, s
  <2> QED BY <1>2, <1>3, <1>5, <1>6 DEF Kin
<1>8. older # p OBVIOUS
<1> HIDE DEF ys, os, cs, y0, older
<1>9. \A q \in Task : ys[q] = IF q = p THEN NULL ELSE IF q = older THEN p ELSE k.p_ysptr[q]
  BY <1>4, <1>5, <1>8
<1> USE DEF older
<1> QED BY <1>2, <1>3, <1>6, <1>7, <1>9

\* After REMOVE_LINKS(z) the lists are in order without z.
LEMMA RemoveOrder ==
    ASSUME NEW k \in Kin, NEW C \in SUBSET Task, NEW M, InOrder(k, C, M),
           NEW z \in C, k.p_pptr[z] \notin M
    PROVE  InOrder(REMOVE_LINKS(k, z), C \ {z}, M)
<1> DEFINE r == REMOVE_LINKS(k, z)
           P == k.p_pptr  Y == k.p_ysptr  O == k.p_osptr  F == k.p_cptr
<1>1. /\ r.p_pptr = P
      /\ \A q \in Task :
          /\ r.p_ysptr[q] = IF q = O[z] THEN Y[z] ELSE Y[q]
          /\ r.p_osptr[q] = IF q = Y[z] THEN O[z] ELSE O[q]
          /\ r.p_cptr[q] = IF Y[z] = NULL /\ q = P[z] THEN O[z] ELSE F[q]
  BY RemoveLinksFacts
<1> HIDE DEF r
<1>2. NULL \notin Task
  BY NullAssumption
<1>3. \A p \in Task : F[p] # NULL => F[p] \in C /\ P[F[p]] = p
  BY DEF InOrder, Agree
<1>4. \A c \in C :
        /\ P[c] \in Task
        /\ F[P[c]] = c => Y[c] = NULL \/ P[c] \in M
        /\ F[P[c]] # c => Y[c] \in C /\ O[Y[c]] = c /\ P[Y[c]] = P[c]
        /\ O[c] # NULL => O[c] \in C /\ Y[O[c]] = c /\ P[O[c]] = P[c] /\ F[P[O[c]]] # O[c]
  BY DEF InOrder, Agree, Youngest
<1>5. \A S \in SUBSET C : S # {} => \E c \in S : F[P[c]] = c \/ Y[c] \notin S
  BY DEF InOrder, NoRing, Youngest
<1> HIDE DEF P, Y, O, F
<1>6. Y[z] = NULL <=> F[P[z]] = z
  BY <1>2, <1>4 DEF P
<1>7. Y[z] # z /\ O[z] # z
  <2>1. F[P[z]] = z \/ Y[z] \notin {z}
    <3>1. {z} \in SUBSET C /\ {z} # {} OBVIOUS
    <3> QED BY <3>1, <1>5
  <2> QED BY <2>1, <1>2, <1>4, <1>6
<1>8. \A p \in Task : r.p_cptr[p] # NULL =>
          r.p_cptr[p] \in C \ {z} /\ P[r.p_cptr[p]] = p
  BY <1>1, <1>2, <1>3, <1>4, <1>6, <1>7
<1>9. ASSUME NEW c \in C \ {z}
      PROVE  /\ P[c] \in Task
             /\ r.p_cptr[P[c]] = c => r.p_ysptr[c] = NULL \/ P[c] \in M
             /\ r.p_cptr[P[c]] # c =>
                    /\ r.p_ysptr[c] \in C \ {z}
                    /\ r.p_osptr[r.p_ysptr[c]] = c /\ P[r.p_ysptr[c]] = P[c]
  <2>1. P[c] \in Task /\ c \in Task
    BY <1>4
  <2>2. CASE c = O[z]
    <3>1. P[c] = P[z] /\ F[P[c]] # c /\ Y[c] = z
      BY <2>2, <2>1, <1>2, <1>4
    <3>2. r.p_ysptr[c] = Y[z]
      BY <1>1, <2>1, <2>2
    <3>3. CASE Y[z] = NULL
      BY <3>1, <3>2, <3>3, <1>1, <2>1, <2>2
    <3>4. CASE Y[z] # NULL
      <4>1. Y[z] \in C /\ O[Y[z]] = z /\ P[Y[z]] = P[z] /\ Y[z] # z
        BY <3>4, <1>4, <1>6, <1>7
      <4>2. r.p_osptr[Y[z]] = c
        BY <4>1, <1>1, <2>2
      <4>3. r.p_cptr[P[c]] # c
        BY <3>1, <3>4, <2>1, <1>1
      <4> QED BY <2>1, <3>1, <3>2, <4>1, <4>2, <4>3
    <3> QED BY <3>3, <3>4
  <2>3. CASE c # O[z]
    <3>1. r.p_ysptr[c] = Y[c]
      BY <1>1, <2>1, <2>3
    <3>2. r.p_cptr[P[c]] = c <=> F[P[c]] = c
      BY <1>1, <1>6, <2>1, <2>3
    <3>3. F[P[c]] # c => Y[c] # z /\ Y[c] # Y[z]
      BY <1>4, <1>6, <1>7, <2>3, <1>2
    <3> QED BY <2>1, <3>1, <3>2, <3>3, <1>1, <1>4
  <2> QED BY <2>2, <2>3
<1>10. ASSUME NEW c \in C \ {z}, r.p_osptr[c] # NULL
       PROVE  LET o == r.p_osptr[c] IN
              /\ o \in C \ {z} /\ r.p_ysptr[o] = c /\ P[o] = P[c] /\ r.p_cptr[P[o]] # o
  <2>1. c \in Task OBVIOUS
  <2>2. CASE c = Y[z]
    <3>1. r.p_osptr[c] = O[z]
      BY <1>1, <2>1, <2>2
    <3>2. Y[z] # NULL
      BY <2>1, <2>2, <1>2
    <3>3. O[z] \in C /\ P[O[z]] = P[z] /\ F[P[O[z]]] # O[z] /\ P[O[z]] \in Task
      BY <3>1, <1>4, <1>10
    <3>4. P[c] = P[z]
      BY <3>2, <2>2, <1>4, <1>6
    <3>5. r.p_ysptr[O[z]] = c
      BY <3>3, <1>1, <2>2
    <3>6. r.p_cptr[P[O[z]]] = F[P[O[z]]]
      BY <3>2, <3>3, <1>1
    <3> QED BY <3>1, <3>3, <3>4, <3>5, <3>6, <1>7
  <2>3. CASE c # Y[z]
    <3>1. r.p_osptr[c] = O[c]
      BY <1>1, <2>1, <2>3
    <3>2. O[c] \in C /\ Y[O[c]] = c /\ P[O[c]] = P[c] /\ F[P[O[c]]] # O[c] /\ P[O[c]] \in Task
      BY <3>1, <1>4, <1>10
    <3>3. O[c] # z
      BY <3>2, <2>3
    <3>4. O[c] # O[z]
      <4>1. SUFFICES ASSUME O[c] = O[z] PROVE FALSE OBVIOUS
      <4>2. Y[O[z]] = z
        BY <4>1, <3>2, <1>4, <1>2
      <4> QED BY <4>1, <4>2, <3>2
    <3>5. r.p_ysptr[O[c]] = c
      BY <3>2, <3>4, <1>1
    <3>6. r.p_cptr[P[O[c]]] # O[c]
      BY <3>2, <3>4, <1>1
    <3> QED BY <3>1, <3>2, <3>3, <3>5, <3>6
  <2> QED BY <2>2, <2>3
<1>11. Agree(r, C \ {z}, M)
  BY <1>1, <1>8, <1>9, <1>10 DEF Agree, Youngest
<1>12. NoRing(r, C \ {z})
  <2> SUFFICES ASSUME NEW S \in SUBSET (C \ {z}), S # {}
               PROVE  \E c \in S : r.p_cptr[P[c]] = c \/ r.p_ysptr[c] \notin S
    BY <1>1 DEF NoRing, Youngest
  <2>1. \A c \in S : c # O[z] => r.p_ysptr[c] = Y[c]
    BY <1>1
  <2>2. \A c \in S : F[P[c]] = c => r.p_cptr[P[c]] = c
    BY <1>1, <1>4, <1>6
  <2>3. CASE O[z] \notin S
    BY <1>5, <2>1, <2>2, <2>3
  <2>4. CASE O[z] \in S
    <3> DEFINE T == S \cup {z}
    <3>1. T \in SUBSET C /\ T # {} OBVIOUS
    <3>2. PICK c \in T : F[P[c]] = c \/ Y[c] \notin T
      BY <3>1, <1>5
    <3>3. O[z] \in C /\ Y[O[z]] = z /\ F[P[O[z]]] # O[z] /\ r.p_ysptr[O[z]] = Y[z]
      BY <2>4, <1>1, <1>2, <1>4
    <3>4. CASE c = z
      <4>1. Y[z] \notin S
        BY <3>2, <3>4, <1>2, <1>6
      <4> QED BY <4>1, <3>3, <2>4
    <3>5. CASE c # z
      <4>1. c \in S /\ c # O[z]
        BY <3>2, <3>3, <3>5
      <4> QED BY <4>1, <3>2, <2>1, <2>2
    <3> QED BY <3>4, <3>5
  <2> QED BY <2>3, <2>4
<1> QED BY <1>11, <1>12 DEF InOrder, r

\* After SET_LINKS(z) the lists are in order with z, the youngest child of its parent.
LEMMA SetOrder ==
    ASSUME NEW k \in Kin, NEW C \in SUBSET Task, NEW M, InOrder(k, C, M),
           NEW z \in Task \ C, k.p_pptr[z] \in Task
    PROVE  /\ SET_LINKS(k, z) \in Kin
           /\ InOrder(SET_LINKS(k, z), C \cup {z}, M)
<1> DEFINE s == SET_LINKS(k, z)
           P == k.p_pptr  Y == k.p_ysptr  O == k.p_osptr  F == k.p_cptr
           older == F[P[z]]
<1>1. NULL \notin Task
  BY NullAssumption
<1>2. \A p \in Task : F[p] # NULL => F[p] \in C /\ P[F[p]] = p
  BY DEF InOrder, Agree
<1>3. \A c \in C :
        /\ P[c] \in Task
        /\ F[P[c]] = c => Y[c] = NULL \/ P[c] \in M
        /\ F[P[c]] # c => Y[c] \in C /\ O[Y[c]] = c /\ P[Y[c]] = P[c]
        /\ O[c] # NULL => O[c] \in C /\ Y[O[c]] = c /\ P[O[c]] = P[c] /\ F[P[O[c]]] # O[c]
  BY DEF InOrder, Agree, Youngest
<1>4. \A S \in SUBSET C : S # {} => \E c \in S : F[P[c]] = c \/ Y[c] \notin S
  BY DEF InOrder, NoRing, Youngest
<1>5. k.p_cptr[k.p_pptr[z]] # z
  BY <1>1, <1>2
<1>6. /\ s \in Kin
      /\ s.p_pptr = P
      /\ \A q \in Task :
          /\ s.p_osptr[q] = IF q = z THEN older ELSE O[q]
          /\ s.p_ysptr[q] = IF q = z THEN NULL ELSE IF q = older THEN z ELSE Y[q]
          /\ s.p_cptr[q] = IF q = P[z] THEN z ELSE F[q]
  BY <1>5, SetFacts
<1>7. P[z] \in Task OBVIOUS
<1> HIDE DEF s, P, Y, O, F
<1>8. older # NULL => older \in C /\ P[older] = P[z]
  BY <1>2, <1>7
<1> HIDE DEF older
<1>9. \A p \in Task : s.p_cptr[p] # NULL =>
          s.p_cptr[p] \in C \cup {z} /\ P[s.p_cptr[p]] = p
  BY <1>2, <1>6, <1>7
<1>10. \A c \in C : F[P[c]] = c /\ P[c] = P[z] <=> c = older
  BY <1>1, <1>8 DEF older
<1>11. \A c \in C : s.p_cptr[P[c]] = c <=> F[P[c]] = c /\ c # older
  BY <1>3, <1>6, <1>10
<1>12. ASSUME NEW c \in C \cup {z}
       PROVE  /\ P[c] \in Task
              /\ s.p_cptr[P[c]] = c => s.p_ysptr[c] = NULL \/ P[c] \in M
              /\ s.p_cptr[P[c]] # c =>
                     /\ s.p_ysptr[c] \in C \cup {z}
                     /\ s.p_osptr[s.p_ysptr[c]] = c /\ P[s.p_ysptr[c]] = P[c]
  <2>1. CASE c = z
    BY <2>1, <1>6, <1>7
  <2>2. CASE c # z
    <3>1. c \in C /\ c \in Task
      BY <2>2
    <3>2. CASE c = older
      BY <3>1, <3>2, <2>2, <1>1, <1>3, <1>6, <1>8, <1>11
    <3>3. CASE c # older
      <4>1. s.p_ysptr[c] = Y[c]
        BY <2>2, <3>1, <3>3, <1>6
      <4>2. F[P[c]] # c => Y[c] \in C /\ s.p_osptr[Y[c]] = c
        BY <3>1, <1>3, <1>6
      <4> QED BY <3>1, <3>3, <4>1, <4>2, <1>3, <1>11
    <3> QED BY <3>2, <3>3
  <2> QED BY <2>1, <2>2
<1>13. ASSUME NEW c \in C \cup {z}, s.p_osptr[c] # NULL
       PROVE  LET o == s.p_osptr[c] IN
              /\ o \in C \cup {z} /\ s.p_ysptr[o] = c /\ P[o] = P[c] /\ s.p_cptr[P[o]] # o
  <2>1. CASE c = z
    <3>1. s.p_osptr[c] = older /\ older \in C /\ P[older] = P[z]
      BY <2>1, <1>6, <1>8, <1>13
    <3>2. s.p_ysptr[older] = z /\ s.p_cptr[P[older]] # older
      BY <3>1, <1>6, <1>11
    <3> QED BY <2>1, <3>1, <3>2
  <2>2. CASE c # z
    <3>1. c \in C /\ s.p_osptr[c] = O[c]
      BY <2>2, <1>6
    <3>2. O[c] \in C /\ Y[O[c]] = c /\ P[O[c]] = P[c] /\ F[P[O[c]]] # O[c]
      BY <3>1, <1>3, <1>13
    <3>3. O[c] # older
      BY <3>2, <1>10
    <3>4. s.p_ysptr[O[c]] = c /\ s.p_cptr[P[O[c]]] # O[c]
      BY <3>2, <3>3, <1>6, <1>11
    <3> QED BY <3>1, <3>2, <3>4
  <2> QED BY <2>1, <2>2
<1>14. Agree(s, C \cup {z}, M)
  BY <1>6, <1>9, <1>12, <1>13 DEF Agree, Youngest
<1>15. NoRing(s, C \cup {z})
  <2> SUFFICES ASSUME NEW S \in SUBSET (C \cup {z}), S # {}
               PROVE  \E c \in S : s.p_cptr[P[c]] = c \/ s.p_ysptr[c] \notin S
    BY <1>6 DEF NoRing, Youngest
  <2>1. CASE z \in S
    BY <2>1, <1>6, <1>7
  <2>2. CASE z \notin S
    <3>1. PICK c \in S : F[P[c]] = c \/ Y[c] \notin S
      BY <2>2, <1>4
    <3>2. c \in C
      BY <2>2
    <3>3. CASE c = older
      BY <3>2, <3>3, <2>2, <1>6
    <3>4. CASE c # older
      <4>1. s.p_ysptr[c] = Y[c]
        BY <3>2, <3>4, <2>2, <1>6
      <4> QED BY <3>1, <3>2, <3>4, <4>1, <1>11
    <3> QED BY <3>3, <3>4
  <2> QED BY <2>1, <2>2
<1> QED BY <1>6, <1>14, <1>15 DEF InOrder, s

\* Only the p_cptr and the links of the processes in C count.
LEMMA FrameOrder ==
    ASSUME NEW k, NEW l, NEW C \in SUBSET Task, NEW M, InOrder(k, C, M),
           \A p \in Task : l.p_cptr[p] = k.p_cptr[p],
           \A c \in C : /\ l.p_pptr[c] = k.p_pptr[c]
                        /\ l.p_ysptr[c] = k.p_ysptr[c] /\ l.p_osptr[c] = k.p_osptr[c]
    PROVE  InOrder(l, C, M)
<1>1. \A p \in Task : k.p_cptr[p] # NULL => k.p_cptr[p] \in C /\ k.p_pptr[k.p_cptr[p]] = p
  BY DEF InOrder, Agree
<1>2. \A c \in C :
        /\ k.p_pptr[c] \in Task
        /\ k.p_cptr[k.p_pptr[c]] = c => k.p_ysptr[c] = NULL \/ k.p_pptr[c] \in M
        /\ k.p_cptr[k.p_pptr[c]] # c =>
               /\ k.p_ysptr[c] \in C /\ k.p_osptr[k.p_ysptr[c]] = c
               /\ k.p_pptr[k.p_ysptr[c]] = k.p_pptr[c]
        /\ k.p_osptr[c] # NULL =>
               /\ k.p_osptr[c] \in C /\ k.p_ysptr[k.p_osptr[c]] = c
               /\ k.p_pptr[k.p_osptr[c]] = k.p_pptr[c]
               /\ k.p_cptr[k.p_pptr[k.p_osptr[c]]] # k.p_osptr[c]
  BY DEF InOrder, Agree, Youngest
<1>3. \A c \in C : l.p_cptr[l.p_pptr[c]] = k.p_cptr[k.p_pptr[c]]
  BY <1>2
<1>4. Agree(l, C, M)
  <2>1. \A p \in Task : l.p_cptr[p] # NULL => l.p_cptr[p] \in C /\ l.p_pptr[l.p_cptr[p]] = p
    BY <1>1
  <2>2. ASSUME NEW c \in C
        PROVE  /\ l.p_pptr[c] \in Task
               /\ l.p_cptr[l.p_pptr[c]] = c => l.p_ysptr[c] = NULL \/ l.p_pptr[c] \in M
               /\ l.p_cptr[l.p_pptr[c]] # c =>
                      /\ l.p_ysptr[c] \in C /\ l.p_osptr[l.p_ysptr[c]] = c
                      /\ l.p_pptr[l.p_ysptr[c]] = l.p_pptr[c]
               /\ l.p_osptr[c] # NULL =>
                      /\ l.p_osptr[c] \in C /\ l.p_ysptr[l.p_osptr[c]] = c
                      /\ l.p_pptr[l.p_osptr[c]] = l.p_pptr[c]
                      /\ l.p_cptr[l.p_pptr[l.p_osptr[c]]] # l.p_osptr[c]
    BY <1>2, <1>3
  <2> QED BY <2>1, <2>2 DEF Agree, Youngest
<1>5. NoRing(l, C)
  BY <1>3 DEF InOrder, NoRing, Youngest
<1> QED BY <1>4, <1>5 DEF InOrder

\* One p_cptr is assigned.
LEMMA CptrFacts ==
    ASSUME NEW k \in Kin, NEW p \in Task, NEW v \in Task \cup {NULL}
    PROVE  SetCptr(k, p, v) \in Kin
<1> DEFINE cs == SetIf(k.p_cptr, p, v)
<1>1. k.p_cptr \in [Task -> Task \cup {NULL}]
  BY DEF Kin
<1>2. cs \in [Task -> Task \cup {NULL}]
  BY <1>1, SetIfFacts
<1>3. SetCptr(k, p, v) = [p_opptr |-> k.p_opptr, p_pptr |-> k.p_pptr, p_cptr |-> cs,
                          p_ysptr |-> k.p_ysptr, p_osptr |-> k.p_osptr]
  BY DEF SetCptr, WithLists
<1> HIDE DEF cs
<1> QED BY <1>2, <1>3 DEF Kin

\* exit_notify's loop takes the youngest child c of p off with one assignment.
LEMMA HeadOrder ==
    ASSUME NEW k \in Kin, NEW C \in SUBSET Task, NEW M, InOrder(k, C, M),
           NEW p \in Task, p \in M, NEW c \in Task, k.p_cptr[p] = c
    PROVE  /\ c \in C /\ k.p_pptr[c] = p
           /\ InOrder(SetCptr(k, p, k.p_osptr[c]), C \ {c}, M)
<1> DEFINE l == SetCptr(k, p, k.p_osptr[c])
           P == k.p_pptr  Y == k.p_ysptr  O == k.p_osptr  F == k.p_cptr  N == l.p_cptr
<1>1. NULL \notin Task
  BY NullAssumption
<1>2. \A q \in Task : F[q] # NULL => F[q] \in C /\ P[F[q]] = q
  BY DEF InOrder, Agree
<1>3. \A d \in C :
        /\ P[d] \in Task
        /\ F[P[d]] = d => Y[d] = NULL \/ P[d] \in M
        /\ F[P[d]] # d => Y[d] \in C /\ O[Y[d]] = d /\ P[Y[d]] = P[d]
        /\ O[d] # NULL => O[d] \in C /\ Y[O[d]] = d /\ P[O[d]] = P[d] /\ F[P[O[d]]] # O[d]
  BY DEF InOrder, Agree, Youngest
<1>4. \A S \in SUBSET C : S # {} => \E d \in S : F[P[d]] = d \/ Y[d] \notin S
  BY DEF InOrder, NoRing, Youngest
<1>5. \A q \in Task : N[q] = IF q = p THEN O[c] ELSE F[q]
  <2>1. F \in [Task -> Task \cup {NULL}] /\ O[c] \in Task \cup {NULL}
    BY DEF Kin
  <2>2. N = SetIf(F, p, O[c])
    BY DEF SetCptr, WithLists
  <2> HIDE DEF N, F, O
  <2> QED BY <2>1, <2>2, SetIfFacts
<1>6. F[p] = c OBVIOUS
<1>7. l.p_pptr = P /\ l.p_ysptr = Y /\ l.p_osptr = O
  BY DEF SetCptr, WithLists
<1> HIDE DEF l, P, Y, O, F, N
<1>8. c \in C /\ P[c] = p
  BY <1>1, <1>2, <1>6
<1>9. \A q \in Task : N[q] # NULL => N[q] \in C \ {c} /\ P[N[q]] = q
  <2> SUFFICES ASSUME NEW q \in Task, N[q] # NULL
               PROVE  N[q] \in C \ {c} /\ P[N[q]] = q
    OBVIOUS
  <2>1. CASE q = p
    BY <2>1, <1>3, <1>5, <1>6, <1>8
  <2>2. CASE q # p
    BY <2>2, <1>2, <1>5, <1>8
  <2> QED BY <2>1, <2>2
<1>10. \A d \in C \ {c} : N[P[d]] = d <=> F[P[d]] = d \/ (P[d] = p /\ O[c] = d)
  BY <1>3, <1>5, <1>6
<1>11. \A d \in C : O[d] # NULL /\ O[d] = O[c] => d = c
  BY <1>3, <1>8
<1>12. ASSUME NEW d \in C \ {c}
       PROVE  /\ P[d] \in Task
              /\ N[P[d]] = d => Y[d] = NULL \/ P[d] \in M
              /\ N[P[d]] # d => Y[d] \in C \ {c} /\ O[Y[d]] = d /\ P[Y[d]] = P[d]
  <2>1. N[P[d]] # d => Y[d] # c
    BY <1>3, <1>8, <1>10
  <2>2. F[P[d]] = d => N[P[d]] = d
    BY <1>10
  <2> QED BY <2>1, <2>2, <1>3, <1>10
<1>13. ASSUME NEW d \in C \ {c}, O[d] # NULL
       PROVE  O[d] \in C \ {c} /\ Y[O[d]] = d /\ P[O[d]] = P[d] /\ N[P[O[d]]] # O[d]
  <2>1. O[d] \in C /\ Y[O[d]] = d /\ P[O[d]] = P[d] /\ F[P[O[d]]] # O[d]
    BY <1>3, <1>13
  <2>2. O[d] # c
    BY <2>1, <1>6, <1>8
  <2>3. O[d] # O[c]
    BY <1>11, <1>13
  <2> QED BY <2>1, <2>2, <2>3, <1>10
<1>14. Agree(l, C \ {c}, M)
  BY <1>7, <1>9, <1>12, <1>13 DEF Agree, Youngest, N
<1>15. NoRing(l, C \ {c})
  <2> SUFFICES ASSUME NEW S \in SUBSET (C \ {c}), S # {}
               PROVE  \E d \in S : N[P[d]] = d \/ Y[d] \notin S
    BY <1>7 DEF NoRing, Youngest, N
  <2>1. PICK d \in S : F[P[d]] = d \/ Y[d] \notin S
    BY <1>4
  <2> QED BY <2>1, <1>10
<1> QED BY <1>8, <1>14, <1>15 DEF InOrder, P, l, O

\* A process without a youngest child has no child.
LEMMA NoneYoungest ==
    ASSUME NEW k, NEW C \in SUBSET Task, NEW M, InOrder(k, C, M),
           NEW p \in Task, k.p_cptr[p] = NULL
    PROVE  \A c \in C : k.p_pptr[c] # p
<1> DEFINE S == {c \in C : k.p_pptr[c] = p}
<1>1. \A c \in C : k.p_cptr[k.p_pptr[c]] # c =>
          k.p_ysptr[c] \in C /\ k.p_pptr[k.p_ysptr[c]] = k.p_pptr[c]
  BY DEF InOrder, Agree, Youngest
<1>2. S # {} => \E c \in S : k.p_cptr[k.p_pptr[c]] = c \/ k.p_ysptr[c] \notin S
  BY DEF InOrder, NoRing, Youngest
<1>3. \A c \in S : c \in C /\ k.p_pptr[c] = p /\ k.p_cptr[k.p_pptr[c]] # c
  BY NullAssumption
<1>4. \A c \in S : k.p_ysptr[c] \in S
  BY <1>1, <1>3
<1>5. S = {}
  <2> HIDE DEF S
  <2> QED BY <1>2, <1>3, <1>4
<1> QED BY <1>5

\* Other parents may be in exit_notify's loop, as long as no child has a parent that left it.
LEMMA MournersOrder ==
    ASSUME NEW k, NEW C \in SUBSET Task, NEW M, NEW N, InOrder(k, C, M),
           \A c \in C : k.p_pptr[c] \in M => k.p_pptr[c] \in N
    PROVE  InOrder(k, C, N)
BY DEF InOrder, Agree, Youngest

\* The two parents are assigned.
LEMMA ParentFacts ==
    ASSUME NEW k \in Kin, NEW p \in Task, NEW a \in Task, NEW b \in Task
    PROVE  LET s == SetParents(k, p, a, b) IN
           /\ s \in Kin
           /\ s.p_cptr = k.p_cptr /\ s.p_ysptr = k.p_ysptr /\ s.p_osptr = k.p_osptr
           /\ \A q \in Task :
               /\ s.p_opptr[q] = IF q = p THEN a ELSE k.p_opptr[q]
               /\ s.p_pptr[q] = IF q = p THEN b ELSE k.p_pptr[q]
<1> DEFINE op == SetIf(k.p_opptr, p, a)
           pp == SetIf(k.p_pptr, p, b)
           s == SetParents(k, p, a, b)
<1>1. /\ k.p_opptr \in [Task -> Task \cup {NULL}] /\ k.p_pptr \in [Task -> Task \cup {NULL}]
  BY DEF Kin
<1>2. /\ s.p_cptr = k.p_cptr /\ s.p_ysptr = k.p_ysptr /\ s.p_osptr = k.p_osptr
      /\ s.p_opptr = op /\ s.p_pptr = pp
      /\ s = [p_opptr |-> op, p_pptr |-> pp, p_cptr |-> k.p_cptr,
              p_ysptr |-> k.p_ysptr, p_osptr |-> k.p_osptr]
  BY DEF SetParents, WithParents
<1>3. /\ op \in [Task -> Task \cup {NULL}]
      /\ \A q \in Task : op[q] = IF q = p THEN a ELSE k.p_opptr[q]
  BY <1>1, SetIfFacts
<1>4. /\ pp \in [Task -> Task \cup {NULL}]
      /\ \A q \in Task : pp[q] = IF q = p THEN b ELSE k.p_pptr[q]
  BY <1>1, SetIfFacts
<1> HIDE DEF op, pp, s
<1>5. s \in Kin
  BY <1>2, <1>3, <1>4 DEF Kin
<1> QED BY <1>2, <1>3, <1>4, <1>5 DEF s

\* Whose child a process becomes that gets its parents and is linked ...
LEMMA GivenFacts ==
    ASSUME NEW k \in Kin, NEW z \in Task, NEW a \in Task, NEW b \in Task, NEW q \in Task
    PROVE  /\ Given(k, z, a, b).p_opptr[q] = IF q = z THEN a ELSE k.p_opptr[q]
           /\ Given(k, z, a, b).p_pptr[q] = IF q = z THEN b ELSE k.p_pptr[q]
BY ParentFacts DEF Given, SET_LINKS, WithLists

\* ... and that its lists are then in order.
LEMMA GivenOrder ==
    ASSUME NEW k \in Kin, NEW C \in SUBSET Task, NEW M, InOrder(k, C, M),
           NEW z \in Task \ C, NEW a \in Task, NEW b \in Task
    PROVE  Given(k, z, a, b) \in Kin /\ InOrder(Given(k, z, a, b), C \cup {z}, M)
<1> DEFINE s == SetParents(k, z, a, b)
<1>1. /\ s \in Kin
      /\ s.p_cptr = k.p_cptr /\ s.p_ysptr = k.p_ysptr /\ s.p_osptr = k.p_osptr
      /\ \A q \in Task : s.p_pptr[q] = IF q = z THEN b ELSE k.p_pptr[q]
  BY ParentFacts
<1>2. Given(k, z, a, b) = SET_LINKS(s, z)
  BY DEF Given
<1> HIDE DEF s
<1>3. InOrder(s, C, M)
  <2>1. \A c \in C : s.p_pptr[c] = k.p_pptr[c]
    BY <1>1
  <2> QED BY <1>1, <2>1, FrameOrder
<1>4. s.p_pptr[z] \in Task
  BY <1>1
<1>5. SET_LINKS(s, z) \in Kin /\ InOrder(SET_LINKS(s, z), C \cup {z}, M)
  BY <1>1, <1>3, <1>4, SetOrder
<1> QED BY <1>2, <1>5

\* The same for a linked process that moves to other parents.
LEMMA RelinkFacts ==
    ASSUME NEW k \in Kin, NEW z \in Task, NEW a \in Task, NEW b \in Task, NEW q \in Task
    PROVE  /\ Relink(k, z, a, b).p_opptr[q] = IF q = z THEN a ELSE k.p_opptr[q]
           /\ Relink(k, z, a, b).p_pptr[q] = IF q = z THEN b ELSE k.p_pptr[q]
<1> DEFINE r == REMOVE_LINKS(k, z)
<1>1. r \in Kin /\ r.p_opptr = k.p_opptr /\ r.p_pptr = k.p_pptr
  BY RemoveLinksFacts
<1>2. Relink(k, z, a, b) = Given(r, z, a, b)
  BY DEF Relink
<1> HIDE DEF r
<1> QED BY <1>1, <1>2, GivenFacts

LEMMA RelinkOrder ==
    ASSUME NEW k \in Kin, NEW C \in SUBSET Task, NEW M, InOrder(k, C, M),
           NEW z \in C, k.p_pptr[z] \notin M, NEW a \in Task, NEW b \in Task
    PROVE  Relink(k, z, a, b) \in Kin /\ InOrder(Relink(k, z, a, b), C, M)
<1> DEFINE r == REMOVE_LINKS(k, z)
           D == C \ {z}
<1>1. r \in Kin
  BY RemoveLinksFacts
<1>2. InOrder(r, D, M)
  BY RemoveOrder
<1>3. Relink(k, z, a, b) = Given(r, z, a, b)
  BY DEF Relink
<1>4. D \in SUBSET Task /\ z \in Task \ D OBVIOUS
<1>5. D \cup {z} = C OBVIOUS
<1> HIDE DEF r, D
<1>6. Given(r, z, a, b) \in Kin /\ InOrder(Given(r, z, a, b), D \cup {z}, M)
  BY <1>1, <1>2, <1>4, GivenOrder
<1> QED BY <1>3, <1>5, <1>6
-----------------------------------------------------------------------------
(* The walk along a list of children                                       *)
(*                                                                         *)
(* ChildList goes on for as many steps as there are tasks.  Where the      *)
(* lists are in order it has met all children of the process by then, each *)
(* one once, and it is the only list that p_cptr and p_osptr describe.     *)

\* s is the beginning of the walk from c along p_osptr; and all of it.
Part(k, c, s) ==
    /\ s \in Seq(Task)
    /\ s # << >> => s[1] = c
    /\ \A i \in 1 .. Len(s) - 1 : s[i + 1] = k.p_osptr[s[i]]

Ends(k, c, s) == IF s = << >> THEN c = NULL ELSE k.p_osptr[s[Len(s)]] = NULL

Whole(k, c, s) == Part(k, c, s) /\ Ends(k, c, s)

\* The walks from every place, and those that are one process longer.
Pointers == Task \cup {NULL}
Walks == [Pointers -> Seq(Task)]
NoWalk == [c \in Pointers |-> << >>]
Longer(k, w) == [c \in Pointers |-> IF c = NULL THEN << >> ELSE <<c>> \o w[k.p_osptr[c]]]

\* The first number of a set.
LEMMA FirstOf == ASSUME NEW S \in SUBSET Nat, S # {} PROVE \E m \in S : \A j \in S : m <= j
BY LeastNumber

LEMMA TaskCount == Cardinality(Task) \in Nat /\ IsFiniteSet(Task) /\ NULL \notin Task
BY TaskFinite, NullAssumption, FS_CardinalityType

LEMMA LongerType == ASSUME NEW k \in Kin, NEW w \in Walks PROVE Longer(k, w) \in Walks
<1> SUFFICES ASSUME NEW c \in Task PROVE <<c>> \o w[k.p_osptr[c]] \in Seq(Task)
  BY DEF Longer, Walks, Pointers
<1>1. k.p_osptr[c] \in Pointers
  BY DEF Kin, Pointers
<1>2. w[k.p_osptr[c]] \in Seq(Task)
  BY <1>1 DEF Walks
<1> QED
  BY <1>2

\* The recursion of ChildList, number by number.
LEMMA RoundByRound ==
    ASSUME NEW k \in Kin, NEW p \in Task
    PROVE  \E f : /\ f \in [0 .. Cardinality(Task) -> Walks]
                  /\ ChildList(k, p) = f[Cardinality(Task)][k.p_cptr[p]]
                  /\ f[0] = NoWalk
                  /\ \A i \in 1 .. Cardinality(Task) : f[i] = Longer(k, f[i - 1])
<1> DEFINE N == Cardinality(Task)
           Body(f) == [n \in 0 .. N |->
                          [c \in Task \cup {NULL} |->
                              IF c = NULL \/ n = 0 THEN << >>
                              ELSE <<c>> \o f[n - 1][k.p_osptr[c]]]]
           from == CHOOSE f : f = Body(f)
           G == [w \in Walks |-> Longer(k, w)]
<1>1. ChildList(k, p) = from[N][k.p_cptr[p]]
  BY DEF ChildList
<1>2. N \in Nat
  BY TaskCount
<1> HIDE DEF N
<1>3. ASSUME NEW f PROVE Body(f)[0] = NoWalk
  BY <1>2 DEF NoWalk, Pointers
<1>4. ASSUME NEW f, NEW i \in 1 .. N PROVE Body(f)[i] = Longer(k, f[i - 1])
  <2> DEFINE w == f[i - 1]
             row == [c \in Task \cup {NULL} |->
                        IF c = NULL \/ i = 0 THEN << >> ELSE <<c>> \o w[k.p_osptr[c]]]
  <2>1. i \in 0 .. N /\ i # 0
    BY <1>2
  <2>2. Body(f)[i] = row
    BY <2>1, Zenon
  <2> HIDE DEF Body, w
  <2>3. row = Longer(k, w)
    BY <2>1, Zenon DEF Longer, Pointers
  <2> QED
    BY <2>2, <2>3 DEF w
<1>5. ASSUME NEW f, NEW g, g = [n \in 0 .. N |-> g[n]], g[0] = NoWalk,
             \A i \in 1 .. N : g[i] = Longer(k, f[i - 1])
      PROVE  g = Body(f)
  <2>1. ASSUME NEW i \in 0 .. N PROVE g[i] = Body(f)[i]
    <3>1. i = 0 \/ i \in 1 .. N
      BY <1>2
    <3> HIDE DEF Body
    <3> QED
      BY <1>3, <1>4, <1>5, <3>1
  <2>2. Body(f) = [n \in 0 .. N |-> Body(f)[n]]
    OBVIOUS
  <2> HIDE DEF Body
  <2> QED
    BY <1>5, <2>1, <2>2
<1>6. ASSUME NEW f PROVE Body(f) = [n \in 0 .. N |-> Body(f)[n]]
  OBVIOUS
<1> HIDE DEF Body
<1>7. PICK f : /\ f \in [0 .. N -> Walks] /\ f[0] = NoWalk
               /\ \A i \in 1 .. N : f[i] = G[f[i - 1]]
  <2>1. NoWalk \in Walks /\ G \in [Walks -> Walks]
    BY LongerType DEF NoWalk, Walks
  <2> HIDE DEF G
  <2>2. \E f : Iterates(f, Walks, G, NoWalk, N)
    BY <1>2, <2>1, IterationExists
  <2> QED
    BY <2>2 DEF Iterates
<1>8. \A i \in 1 .. N : f[i] = Longer(k, f[i - 1])
  <2> SUFFICES ASSUME NEW i \in 1 .. N PROVE f[i] = Longer(k, f[i - 1])
    OBVIOUS
  <2>1. i - 1 \in 0 .. N
    BY <1>2
  <2>2. f[i - 1] \in Walks
    BY <1>7, <2>1
  <2> QED
    BY <1>7, <2>2
<1>9. f = Body(f)
  <2>1. f = [n \in 0 .. N |-> f[n]]
    BY <1>7
  <2> QED
    BY <1>5, <1>7, <1>8, <2>1
<1>10. from = Body(from)
  BY <1>9
<1> HIDE DEF from
<1>11. from[0] = NoWalk /\ \A i \in 1 .. N : from[i] = Longer(k, from[i - 1])
  BY <1>3, <1>4, <1>10
<1>12. from \in [0 .. N -> Walks]
  <2> DEFINE S == {m \in 0 .. N : from[m] \notin Walks}
  <2> SUFFICES S = {}
    <3>1. from = [n \in 0 .. N |-> from[n]]
      BY <1>6, <1>10
    <3> QED
      BY <3>1
  <2> SUFFICES ASSUME S # {} PROVE FALSE
    OBVIOUS
  <2>1. PICK m \in S : \A j \in S : m <= j
    <3>1. S \in SUBSET Nat
      BY <1>2
    <3> QED
      BY <3>1, FirstOf
  <2>2. m # 0
    <3>1. NoWalk \in Walks
      BY DEF NoWalk, Walks
    <3> QED
      BY <1>11, <2>1, <3>1
  <2>3. m \in 1 .. N /\ m - 1 \in 0 .. N /\ ~(m <= m - 1)
    BY <1>2, <2>1, <2>2
  <2>4. from[m - 1] \in Walks /\ from[m] = Longer(k, from[m - 1])
    BY <1>11, <2>1, <2>3
  <2> QED
    BY <2>1, <2>4, LongerType
<1> QED
  BY <1>1, <1>11, <1>12 DEF N

\* One process more in front.
LEMMA LongerFacts ==
    ASSUME NEW k \in Kin, NEW c \in Task, NEW t, Part(k, k.p_osptr[c], t)
    PROVE  /\ Part(k, c, <<c>> \o t) /\ Len(<<c>> \o t) = Len(t) + 1
           /\ Ends(k, k.p_osptr[c], t) => Ends(k, c, <<c>> \o t)
<1> DEFINE s == <<c>> \o t
           n == Len(t)
<1>1. t \in Seq(Task) /\ n \in Nat /\ (t = << >> <=> n = 0)
  BY DEF Part
<1>2. /\ s \in Seq(Task) /\ Len(s) = n + 1 /\ s # << >> /\ s[1] = c
      /\ \A i \in 1 .. n : s[i + 1] = t[i]
  BY <1>1
<1> HIDE DEF s
<1>3. ASSUME NEW i \in 1 .. n PROVE s[i + 1] = k.p_osptr[s[i]]
  <2>1. CASE i = 1
    <3>1. t # << >> /\ 1 \in 1 .. n
      BY <1>1, <2>1
    <3>2. t[1] = k.p_osptr[c]
      BY <3>1 DEF Part
    <3> QED
      BY <1>2, <2>1, <3>1, <3>2
  <2>2. CASE i # 1
    <3>1. i - 1 \in 1 .. n - 1 /\ i - 1 \in 1 .. n /\ (i - 1) + 1 = i
      BY <1>1, <2>2
    <3>2. t[(i - 1) + 1] = k.p_osptr[t[i - 1]]
      BY <3>1 DEF Part
    <3>3. s[(i - 1) + 1] = t[i - 1]
      BY <1>2, <3>1
    <3> QED
      BY <1>2, <3>1, <3>2, <3>3
  <2> QED
    BY <2>1, <2>2
<1>4. Part(k, c, s)
  <2>1. Len(s) - 1 = n
    BY <1>1, <1>2
  <2> QED
    BY <1>2, <1>3, <2>1 DEF Part
<1>5. Ends(k, k.p_osptr[c], t) => Ends(k, c, s)
  <2>1. CASE t = << >>
    <3>1. s[Len(s)] = c
      BY <1>1, <1>2, <2>1
    <3> QED
      BY <1>2, <2>1, <3>1 DEF Ends
  <2>2. CASE t # << >>
    <3>1. n \in 1 .. n
      BY <1>1, <2>2
    <3>2. s[Len(s)] = t[n]
      BY <1>2, <3>1
    <3> QED
      BY <1>2, <2>2, <3>2 DEF Ends
  <2> QED
    BY <2>1, <2>2
<1> QED
  BY <1>2, <1>4, <1>5 DEF s

\* The walk goes to the end of the list, unless it meets as many as there are tasks.
LEMMA ListIsPart ==
    ASSUME NEW k \in Kin, NEW p \in Task
    PROVE  /\ Part(k, k.p_cptr[p], ChildList(k, p))
           /\ Ends(k, k.p_cptr[p], ChildList(k, p)) \/ Len(ChildList(k, p)) = Cardinality(Task)
<1> DEFINE N == Cardinality(Task)
<1>1. N \in Nat
  BY TaskCount
<1>2. PICK f : /\ f \in [0 .. N -> Walks]
               /\ ChildList(k, p) = f[N][k.p_cptr[p]]
               /\ f[0] = NoWalk
               /\ \A i \in 1 .. N : f[i] = Longer(k, f[i - 1])
  BY RoundByRound
<1> HIDE DEF N
<1> DEFINE Good(m, c) == Part(k, c, f[m][c]) /\ (Ends(k, c, f[m][c]) \/ Len(f[m][c]) = m)
           S == {m \in 0 .. N : ~\A c \in Pointers : Good(m, c)}
<1>3. ASSUME NEW c \in Pointers PROVE Good(0, c)
  <2>1. f[0][c] = << >>
    BY <1>2 DEF NoWalk
  <2> QED
    BY <2>1 DEF Part
<1>4. ASSUME NEW m \in 1 .. N, NEW c \in Pointers, \A d \in Pointers : Good(m - 1, d)
      PROVE  Good(m, c)
  <2>1. f[m][c] = IF c = NULL THEN << >> ELSE <<c>> \o f[m - 1][k.p_osptr[c]]
    BY <1>2 DEF Longer
  <2>2. CASE c = NULL
    BY <2>1, <2>2 DEF Part, Ends
  <2>3. CASE c # NULL
    <3>1. c \in Task /\ k.p_osptr[c] \in Pointers
      BY <2>3 DEF Pointers, Kin
    <3> DEFINE t == f[m - 1][k.p_osptr[c]]
    <3>2. Part(k, k.p_osptr[c], t) /\ (Ends(k, k.p_osptr[c], t) \/ Len(t) = m - 1)
      BY <1>4, <3>1
    <3>3. f[m][c] = <<c>> \o t
      BY <2>1, <2>3
    <3> HIDE DEF t
    <3>4. /\ Part(k, c, f[m][c]) /\ Len(f[m][c]) = Len(t) + 1
          /\ Ends(k, k.p_osptr[c], t) => Ends(k, c, f[m][c])
      BY <3>1, <3>2, <3>3, LongerFacts
    <3>5. (m - 1) + 1 = m
      BY <1>1
    <3> QED
      BY <3>2, <3>4, <3>5
  <2> QED
    BY <2>2, <2>3
<1> HIDE DEF Good
<1>5. S = {}
  <2> SUFFICES ASSUME S # {} PROVE FALSE
    OBVIOUS
  <2>1. PICK m \in S : \A j \in S : m <= j
    <3>1. S \in SUBSET Nat
      BY <1>1
    <3> QED
      BY <3>1, FirstOf
  <2>2. m \in 0 .. N /\ m # 0 /\ m \in 1 .. N /\ m - 1 \in 0 .. N /\ ~(m <= m - 1)
    BY <1>1, <1>3, <2>1
  <2>3. \A c \in Pointers : Good(m - 1, c)
    BY <2>1, <2>2
  <2> QED
    BY <1>4, <2>1, <2>2, <2>3
<1>6. Good(N, k.p_cptr[p])
  <2>1. N \in 0 .. N /\ k.p_cptr[p] \in Pointers
    BY <1>1 DEF Kin, Pointers
  <2> QED
    BY <1>5, <2>1
<1> QED
  BY <1>2, <1>6 DEF Good, N

\* The walk meets children of p, none of them twice.
LEMMA PartFacts ==
    ASSUME NEW k \in Kin, NEW C \in SUBSET Task, NEW M, InOrder(k, C, M), NEW p \in Task,
           NEW s, Part(k, k.p_cptr[p], s)
    PROVE  NoRepeat(s) /\ \A i \in DOMAIN s : s[i] \in C /\ k.p_pptr[s[i]] = p
<1> DEFINE n == Len(s)
           Child(i) == s[i] \in C /\ k.p_pptr[s[i]] = p
<1>1. s \in Seq(Task) /\ n \in Nat /\ DOMAIN s = 1 .. n
  BY DEF Part
<1>2. NULL \notin Task
  BY TaskCount
<1>3. \A i \in 1 .. n : s[i] \in Task
  BY <1>1
<1>4. n >= 1 => s[1] = k.p_cptr[p]
  BY <1>1 DEF Part
<1>5. \A i \in 1 .. n - 1 : s[i + 1] = k.p_osptr[s[i]]
  BY DEF Part
<1> HIDE DEF n
<1>6. n >= 1 => Child(1) /\ Youngest(k, s[1])
  <2> SUFFICES ASSUME n >= 1 PROVE Child(1) /\ Youngest(k, s[1])
    OBVIOUS
  <2>1. k.p_cptr[p] # NULL /\ s[1] = k.p_cptr[p]
    BY <1>1, <1>2, <1>3, <1>4
  <2> QED
    BY <2>1 DEF InOrder, Agree, Youngest
<1>7. ASSUME NEW i \in 1 .. n - 1, Child(i)
      PROVE  /\ Child(i + 1) /\ k.p_ysptr[s[i + 1]] = s[i] /\ ~Youngest(k, s[i + 1])
  <2>1. i + 1 \in 1 .. n /\ s[i + 1] = k.p_osptr[s[i]]
    BY <1>1, <1>5
  <2>2. k.p_osptr[s[i]] # NULL
    BY <1>2, <1>3, <2>1
  <2> QED
    BY <1>7, <2>1, <2>2 DEF InOrder, Agree
<1> DEFINE S == {i \in 1 .. n : ~Child(i)}
<1>8. S = {}
  <2> SUFFICES ASSUME S # {} PROVE FALSE
    OBVIOUS
  <2>1. PICK m \in S : \A j \in S : m <= j
    <3>1. S \in SUBSET Nat
      BY <1>1
    <3> QED
      BY <3>1, FirstOf
  <2>2. m \in 1 .. n /\ m # 1
    BY <1>1, <1>6, <2>1
  <2>3. m - 1 \in 1 .. n - 1 /\ m - 1 \in 1 .. n /\ ~(m <= m - 1) /\ (m - 1) + 1 = m
    BY <1>1, <2>2
  <2>4. Child(m - 1)
    BY <2>1, <2>3
  <2>5. Child(m)
    BY <1>7, <2>3, <2>4
  <2> QED
    BY <2>1, <2>5
<1>9. \A i \in 1 .. n : Child(i)
  BY <1>8
<1>10. \A i \in 1 .. n - 1 : k.p_ysptr[s[i + 1]] = s[i] /\ ~Youngest(k, s[i + 1])
  <2> SUFFICES ASSUME NEW i \in 1 .. n - 1
               PROVE  k.p_ysptr[s[i + 1]] = s[i] /\ ~Youngest(k, s[i + 1])
    OBVIOUS
  <2>1. i \in 1 .. n
    BY <1>1
  <2> QED
    BY <1>7, <1>9, <2>1
<1> DEFINE R == {i \in 1 .. n : \E j \in i + 1 .. n : s[i] = s[j]}
<1>11. R = {}
  <2> SUFFICES ASSUME R # {} PROVE FALSE
    OBVIOUS
  <2>1. PICK m \in R : \A j \in R : m <= j
    <3>1. R \in SUBSET Nat
      BY <1>1
    <3> QED
      BY <3>1, FirstOf
  <2>2. PICK j \in m + 1 .. n : s[m] = s[j]
    BY <2>1
  <2>3. m \in Nat /\ m >= 1 /\ m <= n /\ j \in Nat /\ j > m /\ j <= n
    BY <1>1, <2>1, <2>2
  <2>4. j - 1 \in 1 .. n - 1 /\ (j - 1) + 1 = j
    BY <1>1, <2>3
  <2>5. k.p_ysptr[s[j]] = s[j - 1] /\ ~Youngest(k, s[j])
    BY <1>10, <2>4
  <2>6. m # 1
    BY <1>1, <1>6, <2>2, <2>3, <2>5
  <2>7. m - 1 \in 1 .. n - 1 /\ (m - 1) + 1 = m /\ m - 1 \in 1 .. n
    BY <1>1, <2>3, <2>6
  <2>8. k.p_ysptr[s[m]] = s[m - 1]
    BY <1>10, <2>7
  <2>9. s[m - 1] = s[j - 1]
    BY <2>2, <2>5, <2>8
  <2>10. j - 1 \in (m - 1) + 1 .. n
    BY <1>1, <2>3, <2>7
  <2>11. m - 1 \in R
    BY <2>7, <2>9, <2>10
  <2>12. ~(m <= m - 1)
    BY <2>3
  <2> QED
    BY <2>1, <2>11, <2>12
<1>12. NoRepeat(s)
  <2> SUFFICES ASSUME NEW i \in 1 .. n, NEW j \in 1 .. n, s[i] = s[j], i # j PROVE FALSE
    BY <1>1 DEF NoRepeat, n
  <2>1. i < j \/ j < i
    BY <1>1
  <2>2. CASE i < j
    <3>1. j \in i + 1 .. n
      BY <1>1, <2>2
    <3> QED
      BY <1>11, <3>1
  <2>3. CASE j < i
    <3>1. i \in j + 1 .. n
      BY <1>1, <2>3
    <3> QED
      BY <1>11, <3>1
  <2> QED
    BY <2>1, <2>2, <2>3
<1> QED
  BY <1>1, <1>9, <1>12 DEF n

\* No walk passes more than Cardinality(Task) processes, so ChildList is all of one.
LEMMA ListIsWhole ==
    ASSUME NEW k \in Kin, NEW C \in SUBSET Task, NEW M, InOrder(k, C, M), NEW p \in Task
    PROVE  Whole(k, k.p_cptr[p], ChildList(k, p))
<1> DEFINE N == Cardinality(Task)
           s == ChildList(k, p)
           c == k.p_cptr[p]
<1>1. N \in Nat /\ N # 0 /\ IsFiniteSet(Task)
  BY TaskCount, FS_EmptySet
<1>2. Part(k, c, s) /\ (Ends(k, c, s) \/ Len(s) = N)
  BY ListIsPart
<1> HIDE DEF N, s, c
<1> SUFFICES ASSUME Len(s) = N, ~Ends(k, c, s) PROVE FALSE
  BY <1>2 DEF Whole, s, c
<1>3. s \in Seq(Task) /\ s # << >> /\ s[N] \in Task /\ DOMAIN s = 1 .. N
  BY <1>1, <1>2 DEF Part
<1> DEFINE o == k.p_osptr[s[N]]
           w == Append(s, o)
<1>4. o \in Task
  BY <1>3 DEF Ends, Kin
<1> HIDE DEF o
<1>5. /\ w \in Seq(Task) /\ Len(w) = N + 1 /\ w # << >> /\ w[N + 1] = o
      /\ \A i \in 1 .. N : w[i] = s[i]
  BY <1>1, <1>3, <1>4
<1> HIDE DEF w
<1>6. Part(k, c, w)
  <2>1. w[1] = c
    BY <1>1, <1>2, <1>3, <1>5 DEF Part
  <2>2. ASSUME NEW i \in 1 .. N PROVE w[i + 1] = k.p_osptr[w[i]]
    <3>1. CASE i = N
      BY <1>5, <3>1 DEF o
    <3>2. CASE i # N
      <4>1. i \in 1 .. N - 1 /\ i + 1 \in 1 .. N
        BY <1>1, <3>2
      <4>2. s[i + 1] = k.p_osptr[s[i]]
        BY <1>2, <4>1 DEF Part
      <4> QED
        BY <1>5, <4>1, <4>2
    <3> QED
      BY <3>1, <3>2
  <2>3. Len(w) - 1 = N
    BY <1>1, <1>5
  <2> QED
    BY <1>5, <2>1, <2>2, <2>3 DEF Part
<1>7. NoRepeat(w)
  BY <1>6, PartFacts DEF c
<1>8. Len(w) <= N
  BY <1>1, <1>5, <1>7, ListFits DEF N
<1> QED
  BY <1>1, <1>5, <1>8

\* There is one walk from every place.
LEMMA WholeIsUnique ==
    ASSUME NEW k, NEW c, NEW s, NEW t, Whole(k, c, s), Whole(k, c, t)
    PROVE  s = t
<1> DEFINE m == Len(s)
           n == Len(t)
<1>1. /\ s \in Seq(Task) /\ m \in Nat /\ DOMAIN s = 1 .. m /\ (s = << >> <=> m = 0)
      /\ t \in Seq(Task) /\ n \in Nat /\ DOMAIN t = 1 .. n /\ (t = << >> <=> n = 0)
  BY DEF Whole, Part
<1>2. NULL \notin Task
  BY TaskCount
<1>3. /\ \A i \in 1 .. m : s[i] \in Task
      /\ \A i \in 1 .. n : t[i] \in Task
  BY <1>1
<1>4. m = 0 <=> n = 0
  <2>1. ASSUME m = 0, n # 0 PROVE FALSE
    <3>1. c = NULL /\ t[1] = c /\ 1 \in 1 .. n
      BY <1>1, <2>1 DEF Whole, Part, Ends
    <3> QED
      BY <1>2, <1>3, <3>1
  <2>2. ASSUME n = 0, m # 0 PROVE FALSE
    <3>1. c = NULL /\ s[1] = c /\ 1 \in 1 .. m
      BY <1>1, <2>2 DEF Whole, Part, Ends
    <3> QED
      BY <1>2, <1>3, <3>1
  <2> QED
    BY <2>1, <2>2
<1>5. CASE m = 0
  BY <1>1, <1>4, <1>5
<1>6. CASE m # 0
  <2>1. /\ s # << >> /\ t # << >> /\ m >= 1 /\ n >= 1 /\ s[1] = c /\ t[1] = c
        /\ k.p_osptr[s[m]] = NULL /\ k.p_osptr[t[n]] = NULL
    BY <1>1, <1>4, <1>6 DEF Whole, Part, Ends
  <2>2. /\ \A i \in 1 .. m - 1 : s[i + 1] = k.p_osptr[s[i]]
        /\ \A i \in 1 .. n - 1 : t[i + 1] = k.p_osptr[t[i]]
    BY DEF Whole, Part
  <2> HIDE DEF m, n
  <2> DEFINE Short(i) == i <= m /\ i <= n
             S == {i \in Nat : i >= 1 /\ Short(i) /\ s[i] # t[i]}
  <2>3. S = {}
    <3> SUFFICES ASSUME S # {} PROVE FALSE
      OBVIOUS
    <3>1. PICK j \in S : \A i \in S : j <= i
      BY FirstOf
    <3>2. j # 1
      BY <2>1, <3>1
    <3>3. /\ j - 1 \in Nat /\ j - 1 >= 1 /\ Short(j - 1) /\ ~(j <= j - 1)
          /\ j - 1 \in 1 .. m - 1 /\ j - 1 \in 1 .. n - 1 /\ (j - 1) + 1 = j
      BY <1>1, <3>1, <3>2
    <3>4. s[j - 1] = t[j - 1]
      BY <3>1, <3>3
    <3>5. s[j] = t[j]
      BY <2>2, <3>3, <3>4
    <3> QED
      BY <3>1, <3>5
  <2>4. ASSUME NEW i \in 1 .. m, i <= n PROVE s[i] = t[i]
    BY <1>1, <2>3, <2>4
  <2>5. m = n
    <3>1. ASSUME m < n PROVE FALSE
      <4>1. m \in 1 .. m /\ m <= n /\ m \in 1 .. n - 1 /\ m + 1 \in 1 .. n
        BY <1>1, <2>1, <3>1
      <4>2. t[m + 1] = NULL
        BY <2>1, <2>2, <2>4, <4>1
      <4> QED
        BY <1>2, <1>3, <4>1, <4>2
    <3>2. ASSUME n < m PROVE FALSE
      <4>1. n \in 1 .. m /\ n <= n /\ n \in 1 .. m - 1 /\ n + 1 \in 1 .. m
        BY <1>1, <2>1, <3>2
      <4>2. s[n + 1] = NULL
        BY <2>1, <2>2, <2>4, <4>1
      <4> QED
        BY <1>2, <1>3, <4>1, <4>2
    <3> QED
      BY <1>1, <3>1, <3>2
  <2>6. \A i \in 1 .. m : s[i] = t[i]
    BY <1>1, <2>4, <2>5
  <2> QED
    BY <1>1, <2>5, <2>6 DEF m, n
<1> QED
  BY <1>5, <1>6

\* It has met every child of p when it ends.
LEMMA WholeFacts ==
    ASSUME NEW k \in Kin, NEW C \in SUBSET Task, NEW M, InOrder(k, C, M), NEW p \in Task,
           NEW s, Whole(k, k.p_cptr[p], s)
    PROVE  /\ s \in Seq(Task) /\ NoRepeat(s)
           /\ \A c : OnList(s, c) <=> (c \in C /\ k.p_pptr[c] = p)
<1> DEFINE n == Len(s)
<1>1. Whole(k, k.p_cptr[p], s)
  OBVIOUS
<1>2. /\ s \in Seq(Task) /\ n \in Nat /\ DOMAIN s = 1 .. n /\ (s = << >> <=> n = 0)
      /\ \A i \in 1 .. n : s[i] \in Task
  <2>1. s \in Seq(Task)
    BY <1>1 DEF Whole, Part
  <2>2. n \in Nat /\ DOMAIN s = 1 .. n /\ (s = << >> <=> n = 0)
    BY <2>1
  <2>3. s \in [1 .. n -> Task]
    BY <2>1
  <2> HIDE DEF n
  <2> QED
    BY <2>1, <2>2, <2>3
<1>3. NoRepeat(s) /\ \A i \in DOMAIN s : s[i] \in C /\ k.p_pptr[s[i]] = p
  <2>1. Part(k, k.p_cptr[p], s)
    BY <1>1 DEF Whole
  <2>2. NoRepeat(s)
    BY <2>1, PartFacts
  <2>3. ASSUME NEW i \in DOMAIN s PROVE s[i] \in C /\ k.p_pptr[s[i]] = p
    BY <2>1, PartFacts
  <2> QED
    BY <2>2, <2>3
<1> DEFINE S == {c \in C : k.p_pptr[c] = p /\ ~OnList(s, c)}
<1>4. S = {}
  <2> SUFFICES ASSUME S # {} PROVE FALSE
    OBVIOUS
  <2>1. PICK c \in S : Youngest(k, c) \/ k.p_ysptr[c] \notin S
    <3>1. S \in SUBSET C
      OBVIOUS
    <3> QED
      BY <3>1 DEF InOrder, NoRing
  <2>2. c \in Task /\ c # NULL
    BY TaskCount
  <2>3. CASE Youngest(k, c)
    <3>1. k.p_cptr[p] = c
      BY <2>1, <2>3 DEF Youngest
    <3>2. n >= 1 /\ s[1] = c
      BY <1>1, <1>2, <2>2, <3>1 DEF Whole, Part, Ends
    <3> QED
      BY <1>2, <2>1, <3>2 DEF OnList
  <2>4. CASE ~Youngest(k, c)
    <3> DEFINE y == k.p_ysptr[c]
    <3>1. y \in C /\ k.p_osptr[y] = c /\ k.p_pptr[y] = p
      BY <2>1, <2>4 DEF InOrder, Agree
    <3>2. OnList(s, y)
      BY <2>1, <2>4, <3>1
    <3>3. PICK i \in 1 .. n : s[i] = y
      BY <1>2, <3>2 DEF OnList
    <3> HIDE DEF y
    <3>4. i # n
      <4> SUFFICES ASSUME i = n PROVE FALSE
        OBVIOUS
      <4>1. s # << >>
        BY <1>2, <3>3
      <4>2. k.p_osptr[s[n]] = NULL
        BY <1>1, <4>1 DEF Whole, Ends
      <4> QED
        BY <2>2, <3>1, <3>3, <4>2
    <3>5. i \in 1 .. n - 1 /\ i + 1 \in 1 .. n
      <4>1. n \in Nat /\ i \in 1 .. n
        BY <1>2, <3>3
      <4> HIDE DEF n
      <4> QED
        BY <3>4, <4>1
    <3>6. s[i + 1] = c
      BY <1>1, <3>1, <3>3, <3>5 DEF Whole, Part
    <3> QED
      BY <1>2, <2>1, <3>5, <3>6 DEF OnList
  <2> QED
    BY <2>3, <2>4
<1>5. ASSUME NEW c, OnList(s, c) PROVE c \in C /\ k.p_pptr[c] = p
  BY <1>3, <1>5 DEF OnList
<1>6. ASSUME NEW c \in C, k.p_pptr[c] = p PROVE OnList(s, c)
  BY <1>4, <1>6
<1> QED
  BY <1>2, <1>3, <1>5, <1>6

\* ChildList is the list of the children of p.
LEMMA ListFacts ==
    ASSUME NEW k \in Kin, NEW C \in SUBSET Task, NEW M, InOrder(k, C, M), NEW p \in Task
    PROVE  /\ ChildList(k, p) \in Seq(Task) /\ NoRepeat(ChildList(k, p))
           /\ \A c : OnList(ChildList(k, p), c) <=> (c \in C /\ k.p_pptr[c] = p)
BY ListIsWhole, WholeFacts
-----------------------------------------------------------------------------
\* What the theorems assume.  Runs "smp" and "group" show that they need it.
Uniprocessor == NCpu = 1 /\ ~Tracing /\ ~GroupWaits
-----------------------------------------------------------------------------
(* The inductive invariant                                                 *)

Gone == {"free", "orphan", "mourn", "dead"}
Mourners == {p \in Task : at[p] = "mourn"}

\* The type invariant without what the theorems do not need.
Shape ==
    /\ kin \in Kin
    /\ at \in [Task -> Places]
    /\ arg \in [Task -> Task \cup {NULL}]
    /\ request \in [Task -> Task \cup {ANY, GROUP, NULL}]
    /\ wait_busy \in [Task -> Task \cup {ANY, NULL}]

\* One process at most executes kernel code of several steps.
Alone == \A p, q \in Task :
    at[p] \in {"attach", "orphan", "mourn"} /\ at[q] \in {"attach", "orphan", "mourn"} => p = q

InitStays == at[Init1] \notin Gone

\* Who is not the original parent is an exiting process with children to give away.
SameParents == \A c \in Children :
    kin.p_pptr[c] = kin.p_opptr[c] \/ at[kin.p_pptr[c]] \in {"orphan", "mourn"}

\* Between the two halves of sys_wait4 the zombie stays, and p is seen to be busy.
Reaping == \A p \in Task : at[p] = "reap" =>
    /\ arg[p] \in Children /\ at[arg[p]] = "dead"
    /\ kin.p_pptr[arg[p]] = p /\ kin.p_opptr[arg[p]] = p
    /\ wait_busy[p] \in {ANY, arg[p]}

\* Whoever sleeps in sys_wait4 is seen to be busy.
Sleeping == \A p \in Task : at[p] \in {"asleep", "woken"} =>
    request[p] \in Task \cup {ANY} /\ wait_busy[p] = request[p]

\* What the checks of sys_attach_proc have established still holds when it links.
Attaching == \A p \in Task : at[p] = "attach" =>
    /\ arg[p] \in Children
    /\ \E S \in SUBSET Task : p \in S /\ UpClosed(kin, S) /\ arg[p] \notin S
    /\ \A q \in Task : at[q] = "reap" => arg[q] # arg[p]
    /\ \A q \in Task : at[q] = "asleep" => arg[p] \notin Eligible(q, request[q])

\* Without a kernel thread that leaves its parent.
NotDeserted == KernelThreads = {} => SleeperHasChild

\* What concerns the pointers, and all of it.
FamilyInOrder ==
    InitStays /\ SiblingLinks /\ ParentsAlive /\ SameParents /\ AllDescendFromInit

Inv == Shape /\ Alone /\ FamilyInOrder /\ Reaping /\ Sleeping /\ Attaching /\ NotDeserted
-----------------------------------------------------------------------------
(* Facts about the helpers                                                 *)

\* With one CPU nothing starts while a process is between two kernel steps.
LEMMA CpuFreeFacts ==
    ASSUME NCpu = 1, CpuFree
    PROVE  \A q \in Task : at[q] \notin {"attach", "orphan", "mourn"}
<1>1. OnCpu \subseteq Task
  BY DEF OnCpu
<1>2. IsFiniteSet(OnCpu) /\ Cardinality(OnCpu) \in Nat
  BY <1>1, TaskFinite, FS_Subset, FS_CardinalityType
<1>3. Cardinality(OnCpu) = 0
  BY <1>2 DEF CpuFree
<1>4. OnCpu = {}
  BY <1>2, <1>3, FS_EmptySet
<1> QED BY <1>4 DEF OnCpu

\* do_notify_parent moves nobody but a sleeping parent.
LEMMA NotifiedFacts ==
    ASSUME NEW a \in [Task -> Places], NEW p \in Task
    PROVE  /\ Notified(a, p) \in [Task -> Places]
           /\ \A q \in Task :
               Notified(a, p)[q] = IF q = p /\ a[q] = "asleep" THEN "woken" ELSE a[q]
BY DEF Notified, Places

\* SiblingLinks in the terms of the lemmas about the lists.
LEMMA InOrderChildren == SiblingLinks <=> InOrder(kin, Children, Mourners)
BY DEF SiblingLinks, InOrder, Mourners

LEMMA ChildrenFacts ==
    /\ Children \in SUBSET Task
    /\ \A q \in Task : q \in Children <=> q # Init1 /\ at[q] # "free"
BY DEF Children, Linked

\* The walk along the list of p meets its children.
LEMMA ListsOfInv ==
    ASSUME Inv, NEW p \in Task
    PROVE  /\ Whole(kin, kin.p_cptr[p], ChildList(kin, p))
           /\ ChildList(kin, p) \in Seq(Task) /\ NoRepeat(ChildList(kin, p))
           /\ \A c : OnList(ChildList(kin, p), c) <=> (c \in Children /\ kin.p_pptr[c] = p)
<1>1. kin \in Kin /\ Children \in SUBSET Task /\ InOrder(kin, Children, Mourners)
  BY InOrderChildren, ChildrenFacts DEF Inv, Shape, FamilyInOrder
<1> QED
  BY <1>1, ListIsWhole, ListFacts

\* The parents of a linked process are tasks.
LEMMA ParentsAreTasks ==
    ASSUME SiblingLinks, ParentsAlive, NEW c \in Children
    PROVE  kin.p_pptr[c] \in Task /\ kin.p_opptr[c] \in Task /\ at[kin.p_opptr[c]] \notin Gone
BY DEF SiblingLinks, Agree, ParentsAlive, Gone

\* What concerns the family stays when the pointers stay and nobody begins or
\* ends an exit or is born.
LEMMA FamilyAtRest ==
    ASSUME FamilyInOrder, kin' = kin,
           \A q \in Task : at[q] \in Gone \/ at'[q] \in Gone => at'[q] = at[q]
    PROVE  FamilyInOrder' /\ Children' = Children
<1>1. Children' = Children
  BY DEF Children, Linked, Gone
<1>2. Mourners' = Mourners
  BY DEF Mourners, Gone
<1>3. InitStays'
  BY FamilyAssumption DEF InitStays, FamilyInOrder
<1>4. SiblingLinks'
  <2>1. InOrder(kin, Children, Mourners)
    BY InOrderChildren DEF FamilyInOrder
  <2>2. InOrder(kin', Children', Mourners')
    BY <2>1, <1>1, <1>2
  <2> QED BY <2>2 DEF SiblingLinks, InOrder, Mourners
<1>5. ParentsAlive'
  BY <1>1 DEF ParentsAlive, FamilyInOrder, Gone
<1>6. SameParents'
  <2> SUFFICES ASSUME NEW c \in Children
               PROVE  \/ kin.p_pptr[c] = kin.p_opptr[c]
                      \/ at'[kin.p_pptr[c]] \in {"orphan", "mourn"}
    BY <1>1 DEF SameParents
  <2>1. kin.p_pptr[c] \in Task
    BY ParentsAreTasks DEF FamilyInOrder
  <2> QED BY <2>1 DEF SameParents, FamilyInOrder, Gone
<1>7. AllDescendFromInit'
  BY <1>1 DEF AllDescendFromInit, FamilyInOrder
<1> QED BY <1>1, <1>3, <1>4, <1>5, <1>6, <1>7 DEF FamilyInOrder

\* The same for the whole invariant: a step of p alone, while nobody is between
\* two kernel steps, and what it has to establish about p.
LEMMA CalmStep ==
    ASSUME Inv, Shape', kin' = kin, NEW p \in Task,
           \A q \in Task : at[q] \notin {"attach", "orphan", "mourn"},
           \A q \in Task \ {p} : /\ at'[q] = at[q] /\ arg'[q] = arg[q]
                                 /\ request'[q] = request[q] /\ wait_busy'[q] = wait_busy[q],
           at[p] \notin Gone, at'[p] \notin Gone,
           at'[p] = "reap" =>
               /\ arg'[p] \in Children /\ at[arg'[p]] = "dead"
               /\ kin.p_pptr[arg'[p]] = p /\ kin.p_opptr[arg'[p]] = p
               /\ wait_busy'[p] \in {ANY, arg'[p]},
           at'[p] \in {"asleep", "woken"} =>
               request'[p] \in Task \cup {ANY} /\ wait_busy'[p] = request'[p],
           at'[p] = "asleep" => Eligible(p, request'[p]) # {},
           at'[p] = "attach" =>
               /\ arg'[p] \in Children
               /\ \E S \in SUBSET Task : p \in S /\ UpClosed(kin, S) /\ arg'[p] \notin S
               /\ \A q \in Task \ {p} : at[q] = "reap" => arg[q] # arg'[p]
               /\ \A q \in Task \ {p} : at[q] = "asleep" =>
                      arg'[p] \notin Eligible(q, request[q])
    PROVE  Inv'
<1>1. FamilyInOrder' /\ Children' = Children
  BY FamilyAtRest DEF Inv, Gone
<1>2. Alone'
  BY DEF Alone, Gone
<1>3. Reaping'
  <2> SUFFICES ASSUME NEW q \in Task, at'[q] = "reap"
               PROVE  /\ arg'[q] \in Children /\ at'[arg'[q]] = "dead"
                      /\ kin.p_pptr[arg'[q]] = q /\ kin.p_opptr[arg'[q]] = q
                      /\ wait_busy'[q] \in {ANY, arg'[q]}
    BY <1>1 DEF Reaping
  <2>1. CASE q = p
    BY <2>1, ChildrenFacts DEF Gone
  <2>2. CASE q # p
    BY <2>2, ChildrenFacts DEF Inv, Reaping, Gone
  <2> QED BY <2>1, <2>2
<1>4. Sleeping'
  BY DEF Inv, Sleeping
<1>5. \A q, r : Eligible(q, r)' = Eligible(q, r)
  BY DEF Eligible, Linked, Gone
<1>6. Attaching'
  <2> SUFFICES ASSUME NEW q \in Task, at'[q] = "attach"
               PROVE  /\ arg'[q] \in Children
                      /\ \E S \in SUBSET Task : q \in S /\ UpClosed(kin, S) /\ arg'[q] \notin S
                      /\ \A t \in Task : at'[t] = "reap" => arg'[t] # arg'[q]
                      /\ \A t \in Task : at'[t] = "asleep" => arg'[q] \notin Eligible(t, request'[t])
    BY <1>1 DEF Attaching, Eligible, Linked, Gone
  <2>1. q = p OBVIOUS
  <2> QED BY <2>1
<1>7. NotDeserted'
  BY DEF Inv, NotDeserted, SleeperHasChild, Eligible, Linked, Gone
<1> QED BY <1>1, <1>2, <1>3, <1>4, <1>6, <1>7 DEF Inv
-----------------------------------------------------------------------------
(* The actions that leave the pointers alone                               *)

\* One round of the search of sys_wait4.
LEMMA SearchStep ==
    ASSUME Uniprocessor, Inv, NEW p \in Task, NEW r \in Task \cup {ANY}, CpuFree,
           at[p] \in {"user", "woken"}, Search(p, r)
    PROVE  Inv'
<1>1. \A q \in Task : at[q] \notin {"attach", "orphan", "mourn"}
  BY CpuFreeFacts DEF Uniprocessor
<1>2. r # GROUP /\ Busy(r) = r
  BY WaitAssumption DEF Busy, ANY, GROUP
<1>3. Shape
  BY DEF Inv
<1>4. CASE \E c \in Task : /\ FirstZombie(p, r, c)
                           /\ at' = [at EXCEPT ![p] = "reap"]
                           /\ arg' = [arg EXCEPT ![p] = c]
                           /\ KeepWaiting(p, r)
  <2>1. PICK c \in Task : /\ FirstZombie(p, r, c)
                          /\ at' = [at EXCEPT ![p] = "reap"]
                          /\ arg' = [arg EXCEPT ![p] = c]
                          /\ KeepWaiting(p, r)
    BY <1>4
  <2>2. c \in Eligible(p, r) /\ Zombie(c)
    BY <2>1 DEF FirstZombie
  <2>3. c \in Task /\ kin.p_pptr[c] = p /\ (r \in Task => c = r) /\ at[c] = "dead"
    BY <2>2, <1>1 DEF Eligible, Zombie
  <2>4. c \in Children
    BY <2>3, ChildrenFacts DEF Inv, FamilyInOrder, InitStays, Gone
  <2>5. kin.p_opptr[c] = p
    BY <2>3, <2>4, <1>1 DEF Inv, FamilyInOrder, SameParents
  <2>6. Shape'
    BY <2>1, <1>2, <1>3 DEF Shape, KeepWaiting, Search, Places
  <2>7. /\ kin' = kin /\ at'[p] = "reap" /\ arg'[p] = c /\ wait_busy'[p] = r
        /\ \A q \in Task \ {p} : /\ at'[q] = at[q] /\ arg'[q] = arg[q]
                                 /\ request'[q] = request[q] /\ wait_busy'[q] = wait_busy[q]
    BY <2>1, <1>2, <1>3 DEF Shape, KeepWaiting, Search
  <2>8. r \in {ANY, c}
    BY <2>3
  <2> QED BY <1>1, <2>3, <2>4, <2>5, <2>6, <2>7, <2>8, CalmStep DEF Gone
<1>5. CASE /\ at' = [at EXCEPT ![p] = "user"]
           /\ EndWait(p) /\ UNCHANGED arg
  <2>1. Shape'
    BY <1>3, <1>5 DEF Shape, EndWait, Search, Places
  <2>2. /\ kin' = kin /\ at'[p] = "user"
        /\ \A q \in Task \ {p} : /\ at'[q] = at[q] /\ arg'[q] = arg[q]
                                 /\ request'[q] = request[q] /\ wait_busy'[q] = wait_busy[q]
    BY <1>3, <1>5 DEF Shape, EndWait, Search
  <2> QED BY <1>1, <2>1, <2>2, CalmStep DEF Gone
<1>6. CASE /\ Eligible(p, r) # {}
           /\ at' = [at EXCEPT ![p] = "asleep"]
           /\ KeepWaiting(p, r) /\ UNCHANGED arg
  <2>1. Shape'
    BY <1>2, <1>3, <1>6 DEF Shape, KeepWaiting, Search, Places
  <2>2. /\ kin' = kin /\ at'[p] = "asleep" /\ request'[p] = r /\ wait_busy'[p] = r
        /\ \A q \in Task \ {p} : /\ at'[q] = at[q] /\ arg'[q] = arg[q]
                                 /\ request'[q] = request[q] /\ wait_busy'[q] = wait_busy[q]
    BY <1>2, <1>3, <1>6 DEF Shape, KeepWaiting, Search
  <2>3. Eligible(p, request'[p]) # {}
    BY <1>6, <2>2
  <2> QED BY <1>1, <2>1, <2>2, <2>3, CalmStep DEF Gone
<1> QED BY <1>4, <1>5, <1>6 DEF Search

\* The two ways into it.
LEMMA WaitStep ==
    ASSUME Uniprocessor, Inv, NEW p \in Task,
           \/ \E r \in Task \cup {ANY, GROUP} : sys_wait4(p, r)
           \/ repeat(p)
    PROVE  Inv'
<1>1. CASE \E r \in Task \cup {ANY, GROUP} : sys_wait4(p, r)
  <2>1. PICK r \in Task \cup {ANY, GROUP} : sys_wait4(p, r)
    BY <1>1
  <2>2. r \in Task \cup {ANY}
    BY <2>1 DEF sys_wait4, Uniprocessor
  <2> QED BY <2>1, <2>2, SearchStep DEF sys_wait4, Runs
<1>2. CASE repeat(p)
  <2>1. request[p] \in Task \cup {ANY}
    BY <1>2 DEF repeat, Runs, Inv, Sleeping
  <2> QED BY <1>2, <2>1, SearchStep DEF repeat, Runs
<1> QED BY <1>1, <1>2

\* A signal, and what ends a wait without a zombie.
LEMMA SignalStep ==
    ASSUME Uniprocessor, Inv, NEW p \in Task, signal(p) \/ wait_fault(p)
    PROVE  Inv'
<1>1. \A q \in Task : at[q] \notin {"attach", "orphan", "mourn"}
  BY CpuFreeFacts DEF Uniprocessor, signal, wait_fault, Runs
<1>2. Shape
  BY DEF Inv
<1>3. CASE signal(p)
  <2>1. Shape' /\ at[p] = "asleep" /\ at'[p] = "woken"
    BY <1>2, <1>3 DEF Shape, signal, waiting, Places
  <2>2. /\ kin' = kin
        /\ \A q \in Task \ {p} : /\ at'[q] = at[q] /\ arg'[q] = arg[q]
                                 /\ request'[q] = request[q] /\ wait_busy'[q] = wait_busy[q]
    BY <1>2, <1>3 DEF Shape, signal, waiting
  <2>3. request'[p] \in Task \cup {ANY} /\ wait_busy'[p] = request'[p]
    BY <1>3, <2>1 DEF Inv, Sleeping, signal, waiting
  <2> QED BY <1>1, <2>1, <2>2, <2>3, CalmStep DEF Gone
<1>4. CASE wait_fault(p)
  <2>1. Shape' /\ at[p] = "reap" /\ at'[p] = "user"
    BY <1>2, <1>4 DEF Shape, wait_fault, EndWait, Runs, Places
  <2>2. /\ kin' = kin
        /\ \A q \in Task \ {p} : /\ at'[q] = at[q] /\ arg'[q] = arg[q]
                                 /\ request'[q] = request[q] /\ wait_busy'[q] = wait_busy[q]
    BY <1>2, <1>4 DEF Shape, wait_fault, EndWait
  <2> QED BY <1>1, <2>1, <2>2, CalmStep DEF Gone
<1> QED BY <1>3, <1>4

\* What sys_attach_proc has seen.
LEMMA CheckStep ==
    ASSUME Uniprocessor, Inv, NEW p \in Task, NEW t \in Task, attach_check(p, t)
    PROVE  Inv'
<1>1. \A q \in Task : at[q] \notin {"attach", "orphan", "mourn"}
  BY CpuFreeFacts DEF Uniprocessor, attach_check
<1>2. Shape
  BY DEF Inv
<1>3. Shape' /\ at[p] = "user" /\ at'[p] = "attach" /\ arg'[p] = t
  BY <1>2 DEF Shape, attach_check, waiting, Places
<1>4. /\ kin' = kin
      /\ \A q \in Task \ {p} : /\ at'[q] = at[q] /\ arg'[q] = arg[q]
                               /\ request'[q] = request[q] /\ wait_busy'[q] = wait_busy[q]
  BY <1>2 DEF Shape, attach_check, waiting
<1>5. t \in Children /\ wait_busy[kin.p_opptr[t]] \notin {ANY, t}
  BY DEF attach_check, FatherBusy, Children
<1>6. \E S \in SUBSET Task : p \in S /\ UpClosed(kin, S) /\ t \notin S
  BY DEF attach_check, AboveSelf, IsAncestor
<1>7. \A q \in Task \ {p} : at[q] = "reap" => arg[q] # t
  BY <1>5 DEF Inv, Reaping
<1>8. ASSUME NEW q \in Task \ {p}, at[q] = "asleep", t \in Eligible(q, request[q])
      PROVE  FALSE
  <2>1. kin.p_pptr[t] = q /\ (request[q] \in Task => t = request[q])
    BY <1>8 DEF Eligible
  <2>2. kin.p_opptr[t] = q
    BY <2>1, <1>1, <1>5 DEF Inv, FamilyInOrder, SameParents
  <2>3. wait_busy[q] \in {ANY, t}
    BY <2>1, <1>8 DEF Inv, Sleeping
  <2> QED BY <2>2, <2>3, <1>5
<1> QED BY <1>1, <1>3, <1>4, <1>5, <1>6, <1>7, <1>8, CalmStep DEF Gone

\* Actions that the theorems do not depend on.
LEMMA IdleStep ==
    ASSUME Uniprocessor, Inv, NEW p \in Task,
           \/ \E max_length \in Lengths : sys_get_child_processes(p, max_length)
           \/ collect_pids(p)
           \/ \E u \in Euids : setuid(p, u)
    PROVE  Inv'
<1>1. CpuFree /\ at[p] \in {"user", "collect"} /\ kin' = kin
  BY DEF sys_get_child_processes, collect_pids, setuid
<1>2. \A q \in Task : at[q] \notin {"attach", "orphan", "mourn"}
  BY <1>1, CpuFreeFacts DEF Uniprocessor
<1>3. Shape
  BY DEF Inv
<1>4. at' = at \/ \E place \in {"user", "collect"} : at' = [at EXCEPT ![p] = place]
  BY DEF sys_get_child_processes, collect_pids, setuid
<1>5. arg' = arg /\ request' = request /\ wait_busy' = wait_busy
  BY DEF sys_get_child_processes, collect_pids, setuid, waiting
<1>6. Shape'
  BY <1>1, <1>3, <1>4, <1>5 DEF Shape, Places
<1>7. /\ at'[p] \in {"user", "collect"}
      /\ \A q \in Task \ {p} : /\ at'[q] = at[q] /\ arg'[q] = arg[q]
                               /\ request'[q] = request[q] /\ wait_busy'[q] = wait_busy[q]
  BY <1>1, <1>3, <1>4, <1>5 DEF Shape
<1> QED BY <1>1, <1>2, <1>6, <1>7, CalmStep DEF Gone
-----------------------------------------------------------------------------
(* exit                                                                    *)

\* What concerns the family stays when no original parent changes or goes.
LEMMA FamilyKept ==
    ASSUME FamilyInOrder, InOrder(kin', Children, Mourners'),
           \A q \in Task : /\ at'[q] = "free" <=> at[q] = "free"
                           /\ at'[q] \in Gone <=> at[q] \in Gone,
           \A c \in Children :
               /\ kin'.p_opptr[c] = kin.p_opptr[c]
               /\ \/ kin'.p_pptr[c] = kin'.p_opptr[c]
                  \/ at'[kin'.p_pptr[c]] \in {"orphan", "mourn"}
    PROVE  FamilyInOrder'
<1>1. Children' = Children
  BY DEF Children, Linked
<1>2. InitStays'
  BY FamilyAssumption DEF InitStays, FamilyInOrder
<1>3. SiblingLinks'
  BY <1>1 DEF SiblingLinks, InOrder, Mourners
<1>4. ParentsAlive'
  BY <1>1 DEF ParentsAlive, FamilyInOrder, Gone
<1>5. SameParents'
  BY <1>1 DEF SameParents
<1>6. AllDescendFromInit'
  BY <1>1 DEF AllDescendFromInit, FamilyInOrder
<1> QED BY <1>2, <1>3, <1>4, <1>5, <1>6 DEF FamilyInOrder

\* The rest stays while p exits.
LEMMA ExitKeeps ==
    ASSUME Inv, NEW p \in Task, at[p] \in {"orphan", "mourn"}, at'[p] \in {"mourn", "dead"},
           \A q \in Task \ {p} : at'[q] = at[q] \/ (at[q] = "asleep" /\ at'[q] = "woken"),
           arg' = arg, request' = request, wait_busy' = wait_busy,
           \A c \in Task : /\ kin'.p_opptr[c] = kin.p_opptr[c]
                           /\ kin.p_pptr[c] # p => kin'.p_pptr[c] = kin.p_pptr[c]
    PROVE  Alone' /\ Reaping' /\ Sleeping' /\ Attaching' /\ NotDeserted'
<1>1. \A q \in Task \ {p} : at[q] \notin {"attach", "orphan", "mourn"}
  BY DEF Inv, Alone
<1>2. Alone'
  BY <1>1 DEF Alone
<1>3. Reaping'
  <2> SUFFICES ASSUME NEW q \in Task, at'[q] = "reap"
               PROVE  /\ arg[q] \in Children' /\ at'[arg[q]] = "dead"
                      /\ kin'.p_pptr[arg[q]] = q /\ kin'.p_opptr[arg[q]] = q
                      /\ wait_busy[q] \in {ANY, arg[q]}
    BY DEF Reaping
  <2>1. q # p /\ at[q] = "reap"
    OBVIOUS
  <2>2. /\ arg[q] \in Children /\ at[arg[q]] = "dead"
        /\ kin.p_pptr[arg[q]] = q /\ kin.p_opptr[arg[q]] = q
        /\ wait_busy[q] \in {ANY, arg[q]}
    BY <2>1 DEF Inv, Reaping
  <2>3. at'[arg[q]] = "dead"
    BY <2>2, ChildrenFacts
  <2>4. arg[q] \in Children'
    BY <2>2, <2>3 DEF Children, Linked
  <2> QED BY <2>1, <2>2, <2>3, <2>4, ChildrenFacts
<1>4. Sleeping'
  BY DEF Inv, Sleeping
<1>5. Attaching'
  BY <1>1 DEF Attaching
<1>6. NotDeserted'
  BY DEF Inv, NotDeserted, SleeperHasChild, Eligible, Linked
<1> QED BY <1>2, <1>3, <1>4, <1>5, <1>6

\* exit_notify tells the parent.
LEMMA ExitNotifyStep ==
    ASSUME Inv, NEW p \in Task, exit_notify(p)
    PROVE  Inv'
<1>1. /\ at[p] = "orphan" /\ kin' = kin /\ arg' = arg
      /\ request' = request /\ wait_busy' = wait_busy
      /\ at' = Notified([at EXCEPT ![p] = "mourn"], kin.p_pptr[p])
  BY DEF exit_notify, waiting
<1>2. p \in Children
  BY <1>1, ChildrenFacts DEF Inv, FamilyInOrder, InitStays, Gone
<1>3. kin.p_pptr[p] \in Task
  BY <1>2, ParentsAreTasks DEF Inv, FamilyInOrder
<1>4. [at EXCEPT ![p] = "mourn"] \in [Task -> Places]
  BY DEF Inv, Shape, Places
<1>5. /\ at' \in [Task -> Places] /\ at'[p] = "mourn"
      /\ \A q \in Task \ {p} : at'[q] = at[q] \/ (at[q] = "asleep" /\ at'[q] = "woken")
  <2>1. \A q \in Task : at'[q] = IF q = kin.p_pptr[p] /\ [at EXCEPT ![p] = "mourn"][q] = "asleep"
                                 THEN "woken" ELSE [at EXCEPT ![p] = "mourn"][q]
    BY <1>1, <1>3, <1>4, NotifiedFacts
  <2>2. \A q \in Task : [at EXCEPT ![p] = "mourn"][q] = IF q = p THEN "mourn" ELSE at[q]
    BY DEF Inv, Shape
  <2>3. at' \in [Task -> Places]
    BY <1>1, <1>3, <1>4, NotifiedFacts
  <2> QED BY <2>1, <2>2, <2>3
<1>6. Shape'
  BY <1>1, <1>5 DEF Inv, Shape
<1>7. InOrder(kin', Children, Mourners')
  <2>1. InOrder(kin, Children, Mourners)
    BY InOrderChildren DEF Inv, FamilyInOrder
  <2>2. Mourners \subseteq Mourners'
    BY <1>1, <1>5 DEF Mourners
  <2>3. \A c \in Children : kin.p_pptr[c] \in Mourners => kin.p_pptr[c] \in Mourners'
    BY <2>2
  <2> QED BY <2>1, <2>3, <1>1, MournersOrder, ChildrenFacts
<1>8. FamilyInOrder'
  <2>1. \A q \in Task : /\ at'[q] = "free" <=> at[q] = "free"
                        /\ at'[q] \in Gone <=> at[q] \in Gone
    BY <1>1, <1>5 DEF Gone
  <2>2. ASSUME NEW c \in Children
        PROVE  \/ kin.p_pptr[c] = kin.p_opptr[c]
               \/ at'[kin.p_pptr[c]] \in {"orphan", "mourn"}
    <3>1. kin.p_pptr[c] \in Task
      BY ParentsAreTasks DEF Inv, FamilyInOrder
    <3> QED BY <3>1, <1>5 DEF Inv, FamilyInOrder, SameParents
  <2>3. FamilyInOrder
    BY DEF Inv
  <2> QED BY <1>1, <1>7, <2>1, <2>2, <2>3, FamilyKept
<1> QED BY <1>1, <1>5, <1>6, <1>8, ExitKeeps DEF Inv

\* The loop is through: nobody has p as a parent any more.
LEMMA ExitDoneStep ==
    ASSUME Inv, NEW p \in Task, exit_done(p)
    PROVE  Inv'
<1>1. /\ at[p] = "mourn" /\ kin' = kin /\ arg' = arg /\ kin.p_cptr[p] = NULL
      /\ request' = request /\ wait_busy' = wait_busy
      /\ at' = [at EXCEPT ![p] = "dead"]
  BY DEF exit_done, waiting
<1>2. at' \in [Task -> Places] /\ \A q \in Task : at'[q] = IF q = p THEN "dead" ELSE at[q]
  BY <1>1 DEF Inv, Shape, Places
<1>3. Shape'
  BY <1>1, <1>2 DEF Inv, Shape
<1>4. InOrder(kin, Children, Mourners)
  BY InOrderChildren DEF Inv, FamilyInOrder
<1>5. \A c \in Children : kin.p_pptr[c] # p
  BY <1>1, <1>4, NoneYoungest, ChildrenFacts
<1>6. \A c \in Children : kin.p_pptr[c] \in Mourners => kin.p_pptr[c] \in Mourners'
  BY <1>2, <1>5 DEF Mourners
<1>7. InOrder(kin', Children, Mourners')
  BY <1>1, <1>4, <1>6, MournersOrder, ChildrenFacts
<1>8. FamilyInOrder'
  <2>1. \A q \in Task : /\ at'[q] = "free" <=> at[q] = "free"
                        /\ at'[q] \in Gone <=> at[q] \in Gone
    BY <1>1, <1>2 DEF Gone
  <2>2. ASSUME NEW c \in Children
        PROVE  \/ kin.p_pptr[c] = kin.p_opptr[c]
               \/ at'[kin.p_pptr[c]] \in {"orphan", "mourn"}
    <3>1. kin.p_pptr[c] \in Task
      BY ParentsAreTasks DEF Inv, FamilyInOrder
    <3> QED BY <3>1, <1>2, <1>5 DEF Inv, FamilyInOrder, SameParents
  <2>3. FamilyInOrder
    BY DEF Inv
  <2> QED BY <1>1, <1>7, <2>1, <2>2, <2>3, FamilyKept
<1> QED BY <1>1, <1>2, <1>3, <1>8, ExitKeeps DEF Inv

\* A child is given back to its original parent, and what is told is told.
LEMMA InheritStep ==
    ASSUME Inv, NEW p \in Task, inherit_child(p)
    PROVE  Inv'
<1> DEFINE c == kin.p_cptr[p]
           k == SetCptr(kin, p, kin.p_osptr[c])
           C == Children \ {c}
           to == kin.p_opptr[c]
<1>1. /\ at[p] = "mourn" /\ c # NULL /\ arg' = arg
      /\ request' = request /\ wait_busy' = wait_busy
      /\ kin' = Given(k, c, to, to) /\ at' = Mourned(at, c, to)
  BY DEF inherit_child, Inherited, waiting
<1>2. kin \in Kin /\ at \in [Task -> Places]
  BY DEF Inv, Shape
<1>3. c \in Task /\ kin.p_osptr[c] \in Task \cup {NULL}
  BY <1>1, <1>2 DEF Kin
<1>4. k \in Kin /\ k.p_opptr = kin.p_opptr /\ k.p_pptr = kin.p_pptr
  <2>1. k.p_opptr = kin.p_opptr /\ k.p_pptr = kin.p_pptr
    BY DEF SetCptr, WithLists
  <2> HIDE DEF c
  <2> QED BY <1>2, <1>3, <2>1, CptrFacts
<1>5. kin.p_cptr[p] = c OBVIOUS
<1>6. Children \in SUBSET Task
  BY ChildrenFacts
<1> HIDE DEF c, k
<1>7. p \in Mourners
  BY <1>1 DEF Mourners
<1>8. InOrder(kin, Children, Mourners)
  BY InOrderChildren DEF Inv, FamilyInOrder
<1>9. c \in Children /\ kin.p_pptr[c] = p /\ InOrder(k, C, Mourners)
  BY <1>2, <1>3, <1>5, <1>6, <1>7, <1>8, HeadOrder DEF k, C
<1>10. to \in Task /\ at[to] \notin Gone
  BY <1>9, ParentsAreTasks DEF Inv, FamilyInOrder
<1>11. C \in SUBSET Task /\ c \in Task \ C /\ C \cup {c} = Children
  BY <1>3, <1>6, <1>9
<1> HIDE DEF C, to
<1>12. kin' \in Kin /\ InOrder(kin', C \cup {c}, Mourners)
  BY <1>1, <1>4, <1>9, <1>10, <1>11, GivenOrder
<1>13. \A q \in Task : /\ kin'.p_opptr[q] = IF q = c THEN to ELSE kin.p_opptr[q]
                       /\ kin'.p_pptr[q] = IF q = c THEN to ELSE kin.p_pptr[q]
  BY <1>1, <1>3, <1>4, <1>10, GivenFacts
<1>14. \A q \in Task : kin'.p_opptr[q] = kin.p_opptr[q]
  BY <1>13 DEF to
<1>15. /\ at' \in [Task -> Places]
       /\ \A q \in Task : at'[q] = at[q] \/ (at[q] = "asleep" /\ at'[q] = "woken")
  BY <1>1, <1>2, <1>10, NotifiedFacts DEF Mourned
<1>16. Mourners' = Mourners
  BY <1>15 DEF Mourners
<1>17. FamilyInOrder'
  <2>1. \A q \in Task : /\ at'[q] = "free" <=> at[q] = "free"
                        /\ at'[q] \in Gone <=> at[q] \in Gone
    BY <1>15 DEF Gone
  <2>2. ASSUME NEW d \in Children
        PROVE  \/ kin'.p_pptr[d] = kin'.p_opptr[d]
               \/ at'[kin'.p_pptr[d]] \in {"orphan", "mourn"}
    <3>1. CASE d = c
      BY <3>1, <1>3, <1>13
    <3>2. CASE d # c
      <4>1. d \in Task /\ kin.p_pptr[d] \in Task
        BY ParentsAreTasks, <1>6 DEF Inv, FamilyInOrder
      <4>2. kin'.p_pptr[d] = kin.p_pptr[d] /\ kin'.p_opptr[d] = kin.p_opptr[d]
        BY <3>2, <4>1, <1>13
      <4> QED BY <4>1, <4>2, <1>15 DEF Inv, FamilyInOrder, SameParents
    <3> QED BY <3>1, <3>2
  <2>3. InOrder(kin', Children, Mourners')
    BY <1>11, <1>12, <1>16
  <2>4. FamilyInOrder
    BY DEF Inv
  <2> QED BY <1>6, <1>14, <2>1, <2>2, <2>3, <2>4, FamilyKept
<1>18. Alone' /\ Reaping' /\ Sleeping' /\ Attaching' /\ NotDeserted'
  <2>1. \A d \in Task : kin.p_pptr[d] # p => kin'.p_pptr[d] = kin.p_pptr[d]
    BY <1>9, <1>13
  <2>2. at'[p] = "mourn"
    BY <1>1, <1>15
  <2> QED BY <1>1, <1>14, <1>15, <2>1, <2>2, ExitKeeps
<1>19. Shape'
  BY <1>1, <1>12, <1>15 DEF Inv, Shape
<1> QED BY <1>17, <1>18, <1>19 DEF Inv

\* The children that p leaves go to init.
LEMMA ForgetStep ==
    ASSUME Uniprocessor, Inv, NEW p \in Task, forget_original_parent(p)
    PROVE  Inv'
<1>1. /\ at[p] = "user" /\ p # Init1 /\ CpuFree /\ arg' = arg
      /\ request' = request /\ wait_busy' = wait_busy
      /\ kin' = Forgotten(kin, p) /\ at' = [at EXCEPT ![p] = "orphan"]
  BY DEF forget_original_parent, Runs, waiting
<1>2. kin \in Kin /\ at \in [Task -> Places] /\ Init1 \in Task
  BY FamilyAssumption DEF Inv, Shape
<1>3. \A q \in Task : at[q] \notin {"attach", "orphan", "mourn"}
  BY <1>1, CpuFreeFacts DEF Uniprocessor
<1>4. at' \in [Task -> Places] /\ \A q \in Task : at'[q] = IF q = p THEN "orphan" ELSE at[q]
  BY <1>1, <1>2 DEF Places
<1>5. /\ kin' \in Kin
      /\ kin'.p_pptr = kin.p_pptr /\ kin'.p_cptr = kin.p_cptr
      /\ kin'.p_ysptr = kin.p_ysptr /\ kin'.p_osptr = kin.p_osptr
      /\ \A q \in Task : kin'.p_opptr[q] = IF kin.p_opptr[q] = p THEN Init1 ELSE kin.p_opptr[q]
  BY <1>1, <1>2 DEF Forgotten, Kin
<1>6. Children' = Children /\ Mourners' = Mourners
  BY <1>1, <1>4 DEF Children, Linked, Mourners
<1>7. \A c \in Children : /\ c \in Task /\ kin.p_opptr[c] \in Task
                          /\ at[kin.p_opptr[c]] \notin Gone /\ kin.p_pptr[c] = kin.p_opptr[c]
  BY <1>3, ParentsAreTasks, ChildrenFacts DEF Inv, FamilyInOrder, SameParents
<1>8. FamilyInOrder'
  <2>1. InitStays'
    BY <1>1, <1>2, <1>4 DEF InitStays, Inv, FamilyInOrder
  <2>2. SiblingLinks'
    <3>1. InOrder(kin, Children, Mourners)
      BY InOrderChildren DEF Inv, FamilyInOrder
    <3>2. InOrder(kin', Children, Mourners)
      BY <3>1, <1>5, FrameOrder, ChildrenFacts
    <3> QED BY <3>2, <1>6 DEF SiblingLinks, InOrder, Mourners
  <2>3. ParentsAlive'
    BY <1>2, <1>4, <1>5, <1>6, <1>7, <2>1 DEF ParentsAlive, InitStays, Gone
  <2>4. SameParents'
    BY <1>4, <1>5, <1>6, <1>7 DEF SameParents
  <2>5. AllDescendFromInit'
    <3> SUFFICES ASSUME NEW S \in SUBSET Children, S # {}
                 PROVE  \E q \in S : kin'.p_opptr[q] \notin S
      BY <1>6 DEF AllDescendFromInit
    <3>1. PICK q \in S : kin.p_opptr[q] \notin S
      BY DEF Inv, FamilyInOrder, AllDescendFromInit
    <3>2. Init1 \notin S
      BY ChildrenFacts
    <3> QED BY <3>1, <3>2, <1>5, <1>7
  <2> QED BY <2>1, <2>2, <2>3, <2>4, <2>5 DEF FamilyInOrder
<1>9. Alone' /\ Attaching'
  BY <1>3, <1>4 DEF Alone, Attaching
<1>10. Reaping'
  <2> SUFFICES ASSUME NEW q \in Task, at'[q] = "reap"
               PROVE  /\ arg[q] \in Children /\ at'[arg[q]] = "dead"
                      /\ kin'.p_pptr[arg[q]] = q /\ kin'.p_opptr[arg[q]] = q
                      /\ wait_busy[q] \in {ANY, arg[q]}
    BY <1>1, <1>6 DEF Reaping
  <2>1. q # p /\ at[q] = "reap"
    BY <1>4
  <2>2. /\ arg[q] \in Children /\ at[arg[q]] = "dead"
        /\ kin.p_pptr[arg[q]] = q /\ kin.p_opptr[arg[q]] = q
        /\ wait_busy[q] \in {ANY, arg[q]}
    BY <2>1 DEF Inv, Reaping
  <2> QED BY <2>1, <2>2, <1>1, <1>4, <1>5, <1>7
<1>11. Sleeping' /\ NotDeserted'
  BY <1>1, <1>4, <1>5 DEF Inv, Sleeping, NotDeserted, SleeperHasChild, Eligible, Linked
<1>12. Shape'
  BY <1>1, <1>4, <1>5 DEF Inv, Shape
<1> QED BY <1>8, <1>9, <1>10, <1>11, <1>12 DEF Inv
-----------------------------------------------------------------------------
(* sys_wait4 reaps                                                         *)

\* unhash_process, one field at a time.
LEMMA ReleasedFacts ==
    ASSUME NEW k \in Kin, NEW z \in Task, NEW C \in SUBSET Task, NEW M, InOrder(k, C, M),
           z \in C, k.p_pptr[z] \notin M
    PROVE  /\ Released(k, z) \in Kin /\ InOrder(Released(k, z), C \ {z}, M)
           /\ \A q \in Task \ {z} : /\ Released(k, z).p_opptr[q] = k.p_opptr[q]
                                    /\ Released(k, z).p_pptr[q] = k.p_pptr[q]
<1> DEFINE out == REMOVE_LINKS(k, z)
           op == SetIf(out.p_opptr, z, NULL)
           pp == SetIf(out.p_pptr, z, NULL)
           ys == SetIf(out.p_ysptr, z, NULL)
           os == SetIf(out.p_osptr, z, NULL)
           l == Released(k, z)
           D == C \ {z}
<1>1. out \in Kin /\ out.p_opptr = k.p_opptr /\ out.p_pptr = k.p_pptr
  BY RemoveLinksFacts
<1>2. InOrder(out, D, M)
  BY RemoveOrder
<1>3. l = [p_opptr |-> op, p_pptr |-> pp, p_cptr |-> out.p_cptr, p_ysptr |-> ys, p_osptr |-> os]
  BY DEF Released
<1> HIDE DEF out, l
<1>4. /\ out.p_opptr \in [Task -> Task \cup {NULL}] /\ out.p_pptr \in [Task -> Task \cup {NULL}]
      /\ out.p_ysptr \in [Task -> Task \cup {NULL}] /\ out.p_osptr \in [Task -> Task \cup {NULL}]
      /\ out.p_cptr \in [Task -> Task \cup {NULL}]
  BY <1>1 DEF Kin
<1>5. /\ op \in [Task -> Task \cup {NULL}] /\ pp \in [Task -> Task \cup {NULL}]
      /\ ys \in [Task -> Task \cup {NULL}] /\ os \in [Task -> Task \cup {NULL}]
      /\ \A q \in Task \ {z} : /\ op[q] = out.p_opptr[q] /\ pp[q] = out.p_pptr[q]
                               /\ ys[q] = out.p_ysptr[q] /\ os[q] = out.p_osptr[q]
  BY <1>4, SetIfFacts
<1> HIDE DEF op, pp, ys, os
<1>6. l \in Kin
  BY <1>3, <1>4, <1>5 DEF Kin
<1>7. InOrder(l, D, M)
  <2>1. D \in SUBSET Task /\ D \subseteq Task \ {z} OBVIOUS
  <2> HIDE DEF D
  <2>2. \A p \in Task : l.p_cptr[p] = out.p_cptr[p]
    BY <1>3
  <2>3. \A c \in D : /\ l.p_pptr[c] = out.p_pptr[c]
                     /\ l.p_ysptr[c] = out.p_ysptr[c] /\ l.p_osptr[c] = out.p_osptr[c]
    BY <1>3, <1>5, <2>1
  <2> QED BY <1>2, <2>1, <2>2, <2>3, FrameOrder
<1> QED BY <1>1, <1>3, <1>5, <1>6, <1>7 DEF l

\* The zombie that was found is freed.
LEMMA ReleaseStep ==
    ASSUME Uniprocessor, Inv, NEW p \in Task, release_task(p)
    PROVE  Inv'
<1> DEFINE z == arg[p]
<1>1. /\ at[p] = "reap" /\ CpuFree /\ kin' = Released(kin, z)
      /\ at' = [at EXCEPT ![p] = "user", ![z] = "free"]
      /\ arg' = [arg EXCEPT ![p] = NULL]
      /\ wait_busy' = [wait_busy EXCEPT ![p] = NULL]
      /\ request' = [request EXCEPT ![p] = NULL]
  BY DEF release_task, Runs, EndWait
<1>2. z \in Children /\ at[z] = "dead" /\ kin.p_pptr[z] = p
  BY <1>1 DEF Inv, Reaping
<1> HIDE DEF z
<1>3. kin \in Kin /\ at \in [Task -> Places] /\ z \in Task /\ z # p /\ z # Init1
  BY <1>1, <1>2, ChildrenFacts DEF Inv, Shape
<1>4. \A q \in Task : at[q] \notin {"attach", "orphan", "mourn"}
  BY <1>1, CpuFreeFacts DEF Uniprocessor
<1>5. /\ at' \in [Task -> Places]
      /\ \A q \in Task : at'[q] = IF q = z THEN "free" ELSE IF q = p THEN "user" ELSE at[q]
  BY <1>1, <1>3 DEF Places
<1>6. /\ arg' \in [Task -> Task \cup {NULL}]
      /\ request' \in [Task -> Task \cup {ANY, GROUP, NULL}]
      /\ wait_busy' \in [Task -> Task \cup {ANY, NULL}]
      /\ \A q \in Task \ {p} : /\ arg'[q] = arg[q]
                               /\ request'[q] = request[q] /\ wait_busy'[q] = wait_busy[q]
  BY <1>1 DEF Inv, Shape
<1>7. Children' = Children \ {z}
  BY <1>2, <1>3, <1>5, <1>1 DEF Children, Linked
<1>8. Mourners' = Mourners /\ p \notin Mourners
  BY <1>1, <1>2, <1>5 DEF Mourners
<1>9. /\ kin' \in Kin /\ InOrder(kin', Children \ {z}, Mourners)
      /\ \A q \in Task \ {z} : /\ kin'.p_opptr[q] = kin.p_opptr[q]
                               /\ kin'.p_pptr[q] = kin.p_pptr[q]
  <2>1. InOrder(kin, Children, Mourners)
    BY InOrderChildren DEF Inv, FamilyInOrder
  <2>2. /\ Released(kin, z) \in Kin /\ InOrder(Released(kin, z), Children \ {z}, Mourners)
        /\ \A q \in Task \ {z} : /\ Released(kin, z).p_opptr[q] = kin.p_opptr[q]
                                 /\ Released(kin, z).p_pptr[q] = kin.p_pptr[q]
    BY <2>1, <1>2, <1>3, <1>8, ChildrenFacts, ReleasedFacts
  <2> QED BY <2>2, <1>1
<1>10. \A c \in Children : /\ c \in Task /\ kin.p_opptr[c] \in Task
                           /\ at[kin.p_opptr[c]] \notin Gone /\ kin.p_pptr[c] = kin.p_opptr[c]
  BY <1>4, ParentsAreTasks, ChildrenFacts DEF Inv, FamilyInOrder, SameParents
<1>11. FamilyInOrder'
  <2>1. InitStays'
    BY <1>3, <1>5, FamilyAssumption DEF InitStays, Inv, FamilyInOrder, Gone
  <2>2. SiblingLinks'
    BY <1>7, <1>8, <1>9 DEF SiblingLinks, InOrder, Mourners
  <2>3. ParentsAlive'
    BY <1>2, <1>5, <1>7, <1>9, <1>10 DEF ParentsAlive, Gone
  <2>4. SameParents'
    BY <1>7, <1>9, <1>10 DEF SameParents
  <2>5. AllDescendFromInit'
    BY <1>7, <1>9, <1>10 DEF AllDescendFromInit, Inv, FamilyInOrder
  <2> QED BY <2>1, <2>2, <2>3, <2>4, <2>5 DEF FamilyInOrder
<1>12. Alone' /\ Attaching'
  BY <1>4, <1>5 DEF Alone, Attaching
<1>13. Reaping'
  <2> SUFFICES ASSUME NEW q \in Task, at'[q] = "reap"
               PROVE  /\ arg'[q] \in Children' /\ at'[arg'[q]] = "dead"
                      /\ kin'.p_pptr[arg'[q]] = q /\ kin'.p_opptr[arg'[q]] = q
                      /\ wait_busy'[q] \in {ANY, arg'[q]}
    BY DEF Reaping
  <2>1. q # p /\ q # z /\ at[q] = "reap"
    BY <1>5
  <2>2. /\ arg[q] \in Children /\ at[arg[q]] = "dead"
        /\ kin.p_pptr[arg[q]] = q /\ kin.p_opptr[arg[q]] = q
        /\ wait_busy[q] \in {ANY, arg[q]}
    BY <2>1 DEF Inv, Reaping
  <2>3. arg[q] # z /\ arg[q] # p /\ arg[q] \in Task
    BY <2>1, <2>2, <1>1, <1>2, <1>10
  <2> QED BY <2>1, <2>2, <2>3, <1>5, <1>6, <1>7, <1>9
<1>14. Sleeping'
  BY <1>5, <1>6 DEF Sleeping, Inv
<1>15. NotDeserted'
  <2> SUFFICES ASSUME KernelThreads = {}, NEW q \in Task, at'[q] = "asleep"
               PROVE  \E c \in Task : /\ at'[c] # "free" /\ kin'.p_pptr[c] = q
                                      /\ request'[q] \in Task => c = request'[q]
    BY DEF NotDeserted, SleeperHasChild, Eligible, Linked
  <2>1. q # p /\ q # z /\ at[q] = "asleep"
    BY <1>5
  <2>2. PICK c \in Task : /\ at[c] # "free" /\ kin.p_pptr[c] = q
                          /\ request[q] \in Task => c = request[q]
    BY <2>1 DEF Inv, NotDeserted, SleeperHasChild, Eligible, Linked
  <2>3. c # z
    BY <2>1, <2>2, <1>2
  <2> QED BY <2>1, <2>2, <2>3, <1>5, <1>6, <1>9
<1>16. Shape'
  BY <1>5, <1>6, <1>9 DEF Shape
<1> QED BY <1>11, <1>12, <1>13, <1>14, <1>15, <1>16 DEF Inv

\* Nobody traces: the zombie is never the child of another process.
LEMMA NoForeignZombie ==
    ASSUME Uniprocessor, Inv, NEW p \in Task
    PROVE  ~return_zombie(p) /\ \A t \in Task : ~ptrace_attach(p, t)
BY DEF Inv, Reaping, return_zombie, Runs, ptrace_attach, Uniprocessor
-----------------------------------------------------------------------------
(* Linked processes get another parent                                     *)

\* Every process would still descend from init if a became the father of z.
NoRingBy(z, a) ==
    \A S \in SUBSET Children : S # {} => \E q \in S :
        (IF q = z THEN a ELSE kin.p_opptr[q]) \notin S

\* The family when that happens.
LEMMA MoveFamily ==
    ASSUME Inv, NEW z \in Children, NEW a \in Task, at[a] \notin Gone,
           \A q \in Task : at[q] \notin {"orphan", "mourn"},
           kin' = Relink(kin, z, a, a),
           \A q \in Task : at'[q] = at[q] \/ (at[q] \notin Gone /\ at'[q] \notin Gone),
           NoRingBy(z, a)
    PROVE  FamilyInOrder' /\ kin' \in Kin /\ Children' = Children
<1>1. z \in Task /\ Children \in SUBSET Task /\ kin \in Kin
  BY ChildrenFacts DEF Inv, Shape
<1>2. \A q \in Task : /\ kin'.p_opptr[q] = IF q = z THEN a ELSE kin.p_opptr[q]
                      /\ kin'.p_pptr[q] = IF q = z THEN a ELSE kin.p_pptr[q]
  BY <1>1, RelinkFacts
<1>3. kin.p_pptr[z] \notin Mourners
  BY DEF Mourners
<1>4. InOrder(kin, Children, Mourners)
  BY InOrderChildren DEF Inv, FamilyInOrder
<1>5. kin' \in Kin /\ InOrder(kin', Children, Mourners)
  BY <1>1, <1>3, <1>4, RelinkOrder
<1>6. Children' = Children
  BY DEF Children, Linked, Gone
<1>7. Mourners' = Mourners
  BY DEF Mourners, Gone
<1>8. \A c \in Children : /\ c \in Task /\ kin.p_opptr[c] \in Task
                          /\ at[kin.p_opptr[c]] \notin Gone /\ kin.p_pptr[c] = kin.p_opptr[c]
  <2> SUFFICES ASSUME NEW c \in Children
               PROVE  /\ kin.p_opptr[c] \in Task /\ at[kin.p_opptr[c]] \notin Gone
                      /\ kin.p_pptr[c] = kin.p_opptr[c]
    BY <1>1
  <2>1. kin.p_pptr[c] \in Task /\ kin.p_opptr[c] \in Task /\ at[kin.p_opptr[c]] \notin Gone
    BY ParentsAreTasks DEF Inv, FamilyInOrder
  <2> QED BY <2>1 DEF Inv, FamilyInOrder, SameParents
<1>9. InitStays'
  BY FamilyAssumption DEF InitStays, Inv, FamilyInOrder, Gone
<1>10. SiblingLinks'
  BY <1>5, <1>6, <1>7 DEF SiblingLinks, InOrder, Mourners
<1>11. ParentsAlive'
  BY <1>2, <1>6, <1>8 DEF ParentsAlive, Gone
<1>12. SameParents'
  BY <1>2, <1>6, <1>8 DEF SameParents
<1>13. AllDescendFromInit'
  BY <1>1, <1>2, <1>6 DEF AllDescendFromInit, NoRingBy
<1> QED BY <1>5, <1>6, <1>9, <1>10, <1>11, <1>12, <1>13 DEF FamilyInOrder

\* sys_attach_proc links what it has checked.
LEMMA AttachLinkStep ==
    ASSUME Inv, NEW p \in Task, attach_link(p)
    PROVE  Inv'
<1> DEFINE t == arg[p]
<1>1. /\ at[p] = "attach" /\ kin' = Relink(kin, t, p, p)
      /\ at' = [at EXCEPT ![p] = "user"] /\ arg' = [arg EXCEPT ![p] = NULL]
      /\ request' = request /\ wait_busy' = wait_busy
  BY DEF attach_link, waiting
<1>2. /\ t \in Children
      /\ \E S \in SUBSET Task : p \in S /\ UpClosed(kin, S) /\ t \notin S
      /\ \A q \in Task : at[q] = "reap" => arg[q] # t
      /\ \A q \in Task : at[q] = "asleep" => t \notin Eligible(q, request[q])
  BY <1>1 DEF Inv, Attaching
<1> HIDE DEF t
<1>3. \A q \in Task \ {p} : at[q] \notin {"attach", "orphan", "mourn"}
  BY <1>1 DEF Inv, Alone
<1>4. /\ at' \in [Task -> Places] /\ arg' \in [Task -> Task \cup {NULL}]
      /\ \A q \in Task : at'[q] = IF q = p THEN "user" ELSE at[q]
      /\ \A q \in Task \ {p} : arg'[q] = arg[q]
  BY <1>1 DEF Inv, Shape, Places
<1>5. ASSUME NEW S \in SUBSET Children, S # {},
             \A q \in S : (IF q = t THEN p ELSE kin.p_opptr[q]) \in S
      PROVE  FALSE
  <2>1. \A R \in SUBSET Children : R # {} => \E q \in R : kin.p_opptr[q] \notin R
    BY DEF Inv, FamilyInOrder, AllDescendFromInit
  <2>2. t \in S
    BY <2>1, <1>5
  <2>3. p \in S
    BY <2>2, <1>5
  <2>4. PICK U \in SUBSET Task : p \in U /\ UpClosed(kin, U) /\ t \notin U
    BY <1>2
  <2>5. PICK q \in S \cap U : kin.p_opptr[q] \notin S \cap U
    BY <2>1, <2>3, <2>4
  <2>6. q # t
    BY <2>4
  <2>7. kin.p_opptr[q] \in S /\ kin.p_opptr[q] \in Task
    BY <2>6, <1>5, ChildrenFacts
  <2>8. kin.p_opptr[q] \in U \cup {NULL}
    BY <2>4 DEF UpClosed
  <2> QED BY <2>5, <2>7, <2>8, NullAssumption
<1>6. FamilyInOrder' /\ kin' \in Kin /\ Children' = Children
  <2>1. NoRingBy(t, p)
    BY <1>5 DEF NoRingBy
  <2>2. at[p] \notin Gone /\ \A q \in Task : at[q] \notin {"orphan", "mourn"}
    BY <1>1, <1>3 DEF Gone
  <2>3. \A q \in Task : at'[q] = at[q] \/ (at[q] \notin Gone /\ at'[q] \notin Gone)
    BY <1>1, <1>4 DEF Gone
  <2> QED BY <1>1, <1>2, <2>1, <2>2, <2>3, MoveFamily
<1>7. \A q \in Task : /\ kin'.p_opptr[q] = IF q = t THEN p ELSE kin.p_opptr[q]
                      /\ kin'.p_pptr[q] = IF q = t THEN p ELSE kin.p_pptr[q]
  BY <1>1, <1>2, ChildrenFacts, RelinkFacts DEF Inv, Shape
<1>8. Alone' /\ Attaching'
  BY <1>3, <1>4 DEF Alone, Attaching
<1>9. Reaping'
  <2> SUFFICES ASSUME NEW q \in Task, at'[q] = "reap"
               PROVE  /\ arg'[q] \in Children /\ at'[arg'[q]] = "dead"
                      /\ kin'.p_pptr[arg'[q]] = q /\ kin'.p_opptr[arg'[q]] = q
                      /\ wait_busy[q] \in {ANY, arg'[q]}
    BY <1>1, <1>6 DEF Reaping
  <2>1. q # p /\ at[q] = "reap"
    BY <1>4
  <2>2. /\ arg[q] \in Children /\ at[arg[q]] = "dead" /\ arg[q] # t
        /\ kin.p_pptr[arg[q]] = q /\ kin.p_opptr[arg[q]] = q
        /\ wait_busy[q] \in {ANY, arg[q]}
    BY <2>1, <1>2 DEF Inv, Reaping
  <2>3. arg[q] \in Task /\ arg[q] # p
    BY <2>2, <1>1, ChildrenFacts
  <2> QED BY <2>1, <2>2, <2>3, <1>4, <1>7
<1>10. Sleeping'
  BY <1>1, <1>4 DEF Sleeping, Inv
<1>11. NotDeserted'
  <2> SUFFICES ASSUME KernelThreads = {}, NEW q \in Task, at'[q] = "asleep"
               PROVE  \E c \in Task : /\ at'[c] # "free" /\ kin'.p_pptr[c] = q
                                      /\ request[q] \in Task => c = request[q]
    BY <1>1 DEF NotDeserted, SleeperHasChild, Eligible, Linked
  <2>1. q # p /\ at[q] = "asleep"
    BY <1>4
  <2>2. PICK c \in Eligible(q, request[q]) : TRUE
    BY <2>1 DEF Inv, NotDeserted, SleeperHasChild
  <2>3. c # t
    BY <2>1, <2>2, <1>2
  <2>4. /\ c \in Task /\ at[c] # "free" /\ kin.p_pptr[c] = q
        /\ request[q] \in Task => c = request[q]
    BY <2>2 DEF Eligible, Linked
  <2> QED BY <2>3, <2>4, <1>4, <1>7
<1>12. Shape'
  BY <1>1, <1>4, <1>6 DEF Inv, Shape
<1> QED BY <1>6, <1>8, <1>9, <1>10, <1>11, <1>12 DEF Inv

\* A kernel thread becomes a child of init.
LEMMA ReparentStep ==
    ASSUME Uniprocessor, Inv, NEW p \in Task, reparent_to_init(p)
    PROVE  Inv'
<1>1. /\ at[p] = "user" /\ CpuFree /\ p \in KernelThreads /\ kin' = Relink(kin, p, Init1, Init1)
      /\ at' = at /\ arg' = arg /\ request' = request /\ wait_busy' = wait_busy
  BY DEF reparent_to_init, Runs, waiting
<1>2. \A q \in Task : at[q] \notin {"attach", "orphan", "mourn"}
  BY <1>1, CpuFreeFacts DEF Uniprocessor
<1>3. p \in Children /\ Init1 \in Task /\ at[Init1] \notin Gone
  BY <1>1, ChildrenFacts, FamilyAssumption DEF Inv, FamilyInOrder, InitStays
<1>4. ASSUME NEW S \in SUBSET Children, S # {}
      PROVE  \E q \in S : (IF q = p THEN Init1 ELSE kin.p_opptr[q]) \notin S
  <2>1. PICK q \in S : kin.p_opptr[q] \notin S
    BY <1>4 DEF Inv, FamilyInOrder, AllDescendFromInit
  <2>2. Init1 \notin S
    BY ChildrenFacts
  <2> QED BY <2>1, <2>2
<1>5. FamilyInOrder' /\ kin' \in Kin /\ Children' = Children
  <2>1. NoRingBy(p, Init1)
    BY <1>4 DEF NoRingBy
  <2> QED BY <2>1, <1>1, <1>2, <1>3, MoveFamily
<1>6. \A q \in Task : /\ kin'.p_opptr[q] = IF q = p THEN Init1 ELSE kin.p_opptr[q]
                      /\ kin'.p_pptr[q] = IF q = p THEN Init1 ELSE kin.p_pptr[q]
  BY <1>1, <1>3, RelinkFacts DEF Inv, Shape
<1>7. Alone' /\ Attaching' /\ Sleeping'
  BY <1>1, <1>2 DEF Alone, Attaching, Sleeping, Inv
<1>8. NotDeserted'
  BY <1>1 DEF NotDeserted
<1>9. Reaping'
  <2> SUFFICES ASSUME NEW q \in Task, at[q] = "reap"
               PROVE  /\ arg[q] \in Children /\ at[arg[q]] = "dead"
                      /\ kin'.p_pptr[arg[q]] = q /\ kin'.p_opptr[arg[q]] = q
                      /\ wait_busy[q] \in {ANY, arg[q]}
    BY <1>1, <1>5 DEF Reaping
  <2>1. /\ arg[q] \in Children /\ at[arg[q]] = "dead"
        /\ kin.p_pptr[arg[q]] = q /\ kin.p_opptr[arg[q]] = q
        /\ wait_busy[q] \in {ANY, arg[q]}
    BY DEF Inv, Reaping
  <2>2. arg[q] \in Task /\ arg[q] # p
    BY <2>1, <1>1, ChildrenFacts
  <2> QED BY <2>1, <2>2, <1>6
<1>10. Shape'
  BY <1>1, <1>5 DEF Inv, Shape
<1> QED BY <1>5, <1>7, <1>8, <1>9, <1>10 DEF Inv
-----------------------------------------------------------------------------
(* do_fork                                                                 *)

\* The task_struct that do_fork gets has no child left.
LEMMA FreeHasNoChild ==
    ASSUME Inv, NEW c \in Task, at[c] = "free"
    PROVE  kin.p_cptr[c] = NULL
<1> SUFFICES ASSUME kin.p_cptr[c] # NULL PROVE FALSE
  OBVIOUS
<1> DEFINE d == kin.p_cptr[c]
<1>1. d \in Children /\ kin.p_pptr[d] = c
  BY DEF Inv, FamilyInOrder, SiblingLinks, Agree
<1>2. kin.p_opptr[d] = c
  BY <1>1 DEF Inv, FamilyInOrder, SameParents
<1> QED BY <1>1, <1>2, ParentsAreTasks DEF Inv, FamilyInOrder, Gone

LEMMA ForkStep ==
    ASSUME Uniprocessor, Inv, NEW p \in Task, NEW c \in Task, NEW clone_parent \in BOOLEAN,
           do_fork(p, c, clone_parent)
    PROVE  Inv'
<1> DEFINE a == ForkParents(p, clone_parent)[1]
           b == ForkParents(p, clone_parent)[2]
           k == SetCptr(kin, c, NULL)
<1>1. /\ at[p] = "user" /\ CpuFree /\ at[c] = "free" /\ (clone_parent => p # Init1)
      /\ kin' = Given(k, c, a, b) /\ at' = [at EXCEPT ![c] = "user"]
      /\ wait_busy' = [wait_busy EXCEPT ![c] = NULL]
      /\ arg' = arg /\ request' = request
  BY DEF do_fork, Runs
<1>2. kin \in Kin /\ at \in [Task -> Places] /\ Children \in SUBSET Task
  BY ChildrenFacts DEF Inv, Shape
<1>3. \A q \in Task : at[q] \notin {"attach", "orphan", "mourn"}
  BY <1>1, CpuFreeFacts DEF Uniprocessor
<1>4. \A d \in Children : /\ d \in Task /\ d # c /\ kin.p_opptr[d] \in Task
                          /\ at[kin.p_opptr[d]] \notin Gone /\ kin.p_pptr[d] = kin.p_opptr[d]
  <2> SUFFICES ASSUME NEW d \in Children
               PROVE  /\ d # c /\ kin.p_opptr[d] \in Task /\ at[kin.p_opptr[d]] \notin Gone
                      /\ kin.p_pptr[d] = kin.p_opptr[d]
    BY <1>2
  <2>1. kin.p_pptr[d] \in Task /\ kin.p_opptr[d] \in Task /\ at[kin.p_opptr[d]] \notin Gone
    BY ParentsAreTasks DEF Inv, FamilyInOrder
  <2> QED BY <2>1, <1>1, <1>3, ChildrenFacts DEF Inv, FamilyInOrder, SameParents
<1>5. a \in Task /\ a = b /\ at[a] \notin Gone
  <2>1. CASE clone_parent
    <3>1. p \in Children
      BY <2>1, <1>1, ChildrenFacts
    <3> QED BY <2>1, <3>1, <1>4 DEF ForkParents
  <2>2. CASE ~clone_parent
    BY <2>2, <1>1 DEF ForkParents, Gone
  <2> QED BY <2>1, <2>2
<1> HIDE DEF a, b
<1>6. c \in Task \ Children /\ c # Init1 /\ a # c
  BY <1>1, <1>4, <1>5 DEF Inv, FamilyInOrder, InitStays, Gone
<1>7. k \in Kin /\ k.p_opptr = kin.p_opptr /\ k.p_pptr = kin.p_pptr
  BY <1>2, CptrFacts DEF SetCptr, WithLists
<1>8. InOrder(k, Children, Mourners)
  <2>1. kin.p_cptr \in [Task -> Task \cup {NULL}] /\ kin.p_cptr[c] = NULL
    BY <1>1, <1>2, FreeHasNoChild DEF Kin
  <2>2. \A q \in Task : k.p_cptr[q] = kin.p_cptr[q]
    BY <2>1, SetIfFacts DEF SetCptr, WithLists
  <2>3. k.p_pptr = kin.p_pptr /\ k.p_ysptr = kin.p_ysptr /\ k.p_osptr = kin.p_osptr
    BY DEF SetCptr, WithLists
  <2>4. InOrder(kin, Children, Mourners)
    BY InOrderChildren DEF Inv, FamilyInOrder
  <2> HIDE DEF k
  <2> QED BY <2>2, <2>3, <2>4, <1>2, FrameOrder
<1> HIDE DEF k
<1>9. kin' \in Kin /\ InOrder(kin', Children \cup {c}, Mourners)
  BY <1>1, <1>2, <1>5, <1>6, <1>7, <1>8, GivenOrder
<1>10. \A q \in Task : /\ kin'.p_opptr[q] = IF q = c THEN a ELSE kin.p_opptr[q]
                       /\ kin'.p_pptr[q] = IF q = c THEN a ELSE kin.p_pptr[q]
  BY <1>1, <1>5, <1>7, GivenFacts
<1>11. /\ at' \in [Task -> Places] /\ wait_busy' \in [Task -> Task \cup {ANY, NULL}]
       /\ \A q \in Task : at'[q] = IF q = c THEN "user" ELSE at[q]
       /\ \A q \in Task \ {c} : wait_busy'[q] = wait_busy[q]
  BY <1>1 DEF Inv, Shape, Places
<1>12. Children' = Children \cup {c} /\ Mourners' = Mourners
  BY <1>1, <1>6, <1>11 DEF Children, Linked, Mourners
<1>13. FamilyInOrder'
  <2>1. InitStays'
    BY <1>6, <1>11, FamilyAssumption DEF InitStays, Inv, FamilyInOrder
  <2>2. SiblingLinks'
    BY <1>9, <1>12 DEF SiblingLinks, InOrder, Mourners
  <2>3. ParentsAlive'
    BY <1>1, <1>4, <1>5, <1>6, <1>10, <1>11, <1>12 DEF ParentsAlive, Gone
  <2>4. SameParents'
    BY <1>4, <1>6, <1>10, <1>12 DEF SameParents
  <2>5. AllDescendFromInit'
    <3> SUFFICES ASSUME NEW S \in SUBSET (Children \cup {c}), S # {}
                 PROVE  \E q \in S : kin'.p_opptr[q] \notin S
      BY <1>12 DEF AllDescendFromInit
    <3> DEFINE R == S \ {c}
    <3>1. CASE R = {}
      <4>1. c \in S /\ kin'.p_opptr[c] = a
        BY <3>1, <1>10
      <4> QED BY <3>1, <4>1, <1>6
    <3>2. CASE R # {}
      <4>1. R \in SUBSET Children
        OBVIOUS
      <4>2. PICK q \in R : kin.p_opptr[q] \notin R
        BY <3>2, <4>1 DEF Inv, FamilyInOrder, AllDescendFromInit
      <4>3. kin'.p_opptr[q] = kin.p_opptr[q] /\ kin.p_opptr[q] # c
        BY <4>1, <1>1, <1>4, <1>10 DEF Gone
      <4> QED BY <4>2, <4>3
    <3> QED BY <3>1, <3>2
  <2> QED BY <2>1, <2>2, <2>3, <2>4, <2>5 DEF FamilyInOrder
<1>14. Alone' /\ Attaching'
  BY <1>3, <1>11 DEF Alone, Attaching
<1>15. Reaping'
  <2> SUFFICES ASSUME NEW q \in Task, at'[q] = "reap"
               PROVE  /\ arg[q] \in Children' /\ at'[arg[q]] = "dead"
                      /\ kin'.p_pptr[arg[q]] = q /\ kin'.p_opptr[arg[q]] = q
                      /\ wait_busy'[q] \in {ANY, arg[q]}
    BY <1>1 DEF Reaping
  <2>1. q # c /\ at[q] = "reap"
    BY <1>11
  <2>2. /\ arg[q] \in Children /\ at[arg[q]] = "dead"
        /\ kin.p_pptr[arg[q]] = q /\ kin.p_opptr[arg[q]] = q
        /\ wait_busy[q] \in {ANY, arg[q]}
    BY <2>1 DEF Inv, Reaping
  <2>3. arg[q] # c /\ arg[q] \in Task
    BY <2>2, <1>4
  <2> QED BY <2>1, <2>2, <2>3, <1>10, <1>11, <1>12
<1>16. Sleeping'
  BY <1>1, <1>11 DEF Sleeping, Inv
<1>17. NotDeserted'
  <2> SUFFICES ASSUME KernelThreads = {}, NEW q \in Task, at'[q] = "asleep"
               PROVE  \E d \in Task : /\ at'[d] # "free" /\ kin'.p_pptr[d] = q
                                      /\ request[q] \in Task => d = request[q]
    BY <1>1 DEF NotDeserted, SleeperHasChild, Eligible, Linked
  <2>1. at[q] = "asleep"
    BY <1>11
  <2>2. PICK d \in Task : /\ at[d] # "free" /\ kin.p_pptr[d] = q
                          /\ request[q] \in Task => d = request[q]
    BY <2>1 DEF Inv, NotDeserted, SleeperHasChild, Eligible, Linked
  <2>3. d # c
    BY <2>2, <1>1
  <2> QED BY <2>2, <2>3, <1>10, <1>11
<1>18. Shape'
  BY <1>1, <1>9, <1>11 DEF Inv, Shape
<1> QED BY <1>13, <1>14, <1>15, <1>16, <1>17, <1>18 DEF Inv
-----------------------------------------------------------------------------
(* The theorems                                                            *)

\* The boot task is alone.
LEMMA InvInit == Init => Inv
<1> SUFFICES ASSUME Init PROVE Inv
  OBVIOUS
<1>1. /\ kin = [p_opptr |-> NoKin, p_pptr |-> NoKin, p_cptr |-> NoKin,
                p_ysptr |-> NoKin, p_osptr |-> NoKin]
      /\ at = [q \in Task |-> IF q = Init1 THEN "user" ELSE "free"]
      /\ arg = NoKin /\ request = NoKin /\ wait_busy = NoKin
  BY DEF Init
<1>2. NoKin \in [Task -> {NULL}]
  BY DEF NoKin
<1>3. Shape
  BY <1>1, <1>2 DEF Shape, Kin, Places
<1>4. \A q \in Task : at[q] = IF q = Init1 THEN "user" ELSE "free"
  BY <1>1
<1>5. Children = {}
  BY <1>4 DEF Children, Linked
<1>6. \A q \in Task : kin.p_cptr[q] = NULL
  BY <1>1, <1>2
<1>7. FamilyInOrder
  BY <1>4, <1>5, <1>6, FamilyAssumption
     DEF FamilyInOrder, InitStays, SiblingLinks, Agree, NoRing, ParentsAlive, SameParents,
         AllDescendFromInit, Gone
<1>8. Alone /\ Reaping /\ Sleeping /\ Attaching /\ NotDeserted
  BY <1>4 DEF Alone, Reaping, Sleeping, Attaching, NotDeserted, SleeperHasChild
<1> QED BY <1>3, <1>7, <1>8 DEF Inv

\* A step that changes nothing.
LEMMA InvStutter == Inv /\ UNCHANGED vars => Inv'
<1> SUFFICES ASSUME Inv, UNCHANGED vars PROVE Inv'
  OBVIOUS
<1>1. /\ kin' = kin /\ at' = at /\ arg' = arg /\ request' = request /\ wait_busy' = wait_busy
  BY DEF vars
<1>2. FamilyInOrder' /\ Children' = Children
  BY <1>1, FamilyAtRest DEF Inv
<1> QED BY <1>1, <1>2 DEF Inv, Shape, Alone, Reaping, Sleeping, Attaching, NotDeserted,
                          SleeperHasChild, Eligible, Linked

\* Every action keeps the invariant.
LEMMA InvNext ==
    ASSUME Uniprocessor
    PROVE  Inv /\ [Next]_vars => Inv'
<1> SUFFICES ASSUME Inv, [Next]_vars PROVE Inv'
  OBVIOUS
<1>1. CASE UNCHANGED vars
  BY <1>1, InvStutter
<1>2. CASE Next
  <2>1. PICK p \in Task : Step(p)
    BY <1>2 DEF Next
  <2>2. CASE \E c \in Task, clone_parent \in BOOLEAN : do_fork(p, c, clone_parent)
    BY <2>2, ForkStep
  <2>3. CASE forget_original_parent(p)
    BY <2>3, ForgetStep
  <2>4. CASE KernelStep(p)
    BY <2>4, ExitNotifyStep, InheritStep, ExitDoneStep, AttachLinkStep DEF KernelStep
  <2>5. CASE Wait(p)
    BY <2>5, WaitStep, SignalStep, ReleaseStep, NoForeignZombie DEF Wait
  <2>6. CASE Attach(p)
    BY <2>6, CheckStep, IdleStep DEF Attach
  <2>7. CASE Other(p)
    BY <2>7, ReparentStep, IdleStep, NoForeignZombie DEF Other
  <2> QED BY <2>1, <2>2, <2>3, <2>4, <2>5, <2>6, <2>7 DEF Step
<1> QED BY <1>1, <1>2

\* The invariant holds in every state of every behaviour.
THEOREM InvHolds ==
    ASSUME Uniprocessor
    PROVE  Spec => []Inv
<1>1. Init => Inv
  BY InvInit
<1>2. Inv /\ [Next]_vars => Inv'
  BY InvNext
<1> QED BY <1>1, <1>2, PTL DEF Spec

\* REMOVE_LINKS, SET_LINKS and exit_notify's own relinking never leave a list of
\* children with links that disagree, or one that comes round to itself.
THEOREM ListsStayInOrder ==
    ASSUME Uniprocessor
    PROVE  Spec => []SiblingLinks
<1>1. Inv => SiblingLinks
  BY DEF Inv, FamilyInOrder
<1> QED BY <1>1, InvHolds, PTL

\* forget_original_parent is in time: no process is left with an original parent
\* that is gone or going.
THEOREM ParentsStayAlive ==
    ASSUME Uniprocessor
    PROVE  Spec => []ParentsAlive
<1>1. Inv => ParentsAlive
  BY DEF Inv, FamilyInOrder
<1> QED BY <1>1, InvHolds, PTL

\* The walk of sys_attach_proc along p_opptr refuses every adoption that would make
\* a process its own ancestor.
THEOREM FamilyStaysTree ==
    ASSUME Uniprocessor
    PROVE  Spec => []AllDescendFromInit
<1>1. Inv => AllDescendFromInit
  BY DEF Inv, FamilyInOrder
<1> QED BY <1>1, InvHolds, PTL

\* sys_wait4 finds its zombie again after it dropped the lock: the test of wait_busy
\* keeps sys_attach_proc away from it, and no other process reaps it.
THEOREM ZombieStaysReapable ==
    ASSUME Uniprocessor
    PROVE  Spec => []ReapsOwnZombie
<1>1. Inv => ReapsOwnZombie
  BY DEF Inv, Reaping, ReapsOwnZombie
<1> QED BY <1>1, InvHolds, PTL

\* The test of wait_busy keeps sys_attach_proc away from the last child that a
\* process in sys_wait4 waits for.
THEOREM SleeperKeepsChild ==
    ASSUME Uniprocessor, KernelThreads = {}
    PROVE  Spec => []SleeperHasChild
<1>1. Inv => SleeperHasChild
  BY DEF Inv, NotDeserted
<1> QED BY <1>1, InvHolds, PTL

\* sys_wait4, sys_get_child_processes and every other loop along p_osptr meets all
\* children of the process, none of them twice, and ends.
THEOREM WalksMeetAllChildren ==
    ASSUME Uniprocessor
    PROVE  Spec => []ListsComplete
<1>1. Inv => ListsComplete
  <2> SUFFICES ASSUME Inv, NEW p \in Task
               PROVE  LET list == ChildList(kin, p) IN
                      /\ \A i, j \in DOMAIN list : list[i] = list[j] => i = j
                      /\ {list[i] : i \in DOMAIN list} = {c \in Children : kin.p_pptr[c] = p}
    BY DEF ListsComplete
  <2> DEFINE list == ChildList(kin, p)
  <2>1. NoRepeat(list) /\ \A c : OnList(list, c) <=> (c \in Children /\ kin.p_pptr[c] = p)
    BY ListsOfInv
  <2> HIDE DEF list
  <2>2. {list[i] : i \in DOMAIN list} = {c \in Children : kin.p_pptr[c] = p}
    BY <2>1 DEF OnList
  <2> QED
    BY <2>1, <2>2 DEF NoRepeat, list
<1> QED BY <1>1, InvHolds, PTL
-----------------------------------------------------------------------------
(* Types                                                                   *)

\* size and euid, which nothing else depends on.
Sizes == size \in [Task -> 0 .. Cardinality(Task) - 1]
Ids == euid \in [Task -> Euids]

\* The count fits: a process is not on its own list.
LEMMA CountFits ==
    ASSUME Inv, NEW p \in Task, at[p] = "user", NEW max_length \in Nat
    PROVE  ToCollect(sys_get_child_process_count(p), max_length) \in 0 .. Cardinality(Task) - 1
<1> DEFINE list == ChildList(kin, p)
           N == Cardinality(Task)
<1>1. /\ list \in Seq(Task) /\ NoRepeat(list)
      /\ \A c : OnList(list, c) <=> (c \in Children /\ kin.p_pptr[c] = p)
  BY ListsOfInv
<1> HIDE DEF list
<1>2. ~OnList(list, p)
  <2> SUFFICES ASSUME p \in Children, kin.p_pptr[p] = p PROVE FALSE
    BY <1>1
  <2>1. kin.p_opptr[p] = p
    BY DEF Inv, FamilyInOrder, SameParents
  <2>2. {p} \in SUBSET Children /\ {p} # {}
    OBVIOUS
  <2> QED
    BY <2>1, <2>2 DEF Inv, FamilyInOrder, AllDescendFromInit
<1>3. list \in Seq(Task \ {p})
  BY <1>1, <1>2 DEF OnList
<1>4. IsFiniteSet(Task \ {p}) /\ Cardinality(Task \ {p}) = N - 1 /\ N \in Nat
  BY TaskCount, FS_RemoveElement
<1>5. Len(list) \in Nat /\ Len(list) <= N - 1
  BY <1>1, <1>3, <1>4, ListFits
<1> DEFINE n == Len(list)
<1> HIDE DEF n, N
<1>6. ToCollect(n, max_length) \in 0 .. N - 1
  BY <1>4, <1>5 DEF ToCollect, n
<1> QED
  BY <1>6 DEF n, N, list, sys_get_child_process_count

LEMMA SizesNext == Inv /\ Sizes /\ [Next]_vars => Sizes'
<1> SUFFICES ASSUME Inv, Sizes, [Next]_vars PROVE Sizes'
  OBVIOUS
<1>1. 0 \in 0 .. Cardinality(Task) - 1
  BY FamilyAssumption, TaskCount, FS_EmptySet
<1>2. CASE size' = size
  BY <1>2 DEF Sizes
<1>3. ASSUME NEW p \in Task, collect_pids(p) PROVE Sizes'
  BY <1>1, <1>3 DEF Sizes, collect_pids
<1>4. ASSUME NEW p \in Task, NEW max_length \in Lengths, sys_get_child_processes(p, max_length)
      PROVE  Sizes'
  <2>1. ToCollect(sys_get_child_process_count(p), max_length) \in 0 .. Cardinality(Task) - 1
    BY <1>4, CountFits, FamilyAssumption DEF sys_get_child_processes
  <2> QED
    BY <1>4, <2>1 DEF Sizes, sys_get_child_processes
<1>5. CASE Next
  <2>1. PICK p \in Task : Step(p)
    BY <1>5 DEF Next
  <2>2. CASE \E c \in Task, clone_parent \in BOOLEAN : do_fork(p, c, clone_parent)
    BY <1>2, <2>2 DEF do_fork
  <2>3. CASE forget_original_parent(p)
    BY <1>2, <2>3 DEF forget_original_parent
  <2>4. CASE KernelStep(p)
    BY <1>2, <2>4 DEF KernelStep, exit_notify, inherit_child, exit_done, attach_link
  <2>5. CASE Wait(p)
    BY <1>2, <2>5 DEF Wait, sys_wait4, repeat, Search, signal, wait_fault, return_zombie,
                      release_task
  <2>6. CASE Attach(p)
    BY <1>2, <1>3, <1>4, <2>6 DEF Attach, attach_check
  <2>7. CASE Other(p)
    BY <1>2, <2>7 DEF Other, reparent_to_init, ptrace_attach, setuid
  <2> QED BY <2>1, <2>2, <2>3, <2>4, <2>5, <2>6, <2>7 DEF Step
<1> QED BY <1>2, <1>5 DEF vars

LEMMA IdsNext == Ids /\ [Next]_vars => Ids'
<1> SUFFICES ASSUME Ids, [Next]_vars PROVE Ids'
  OBVIOUS
<1>1. 0 \in Euids
  BY FamilyAssumption
<1>2. CASE euid' = euid
  BY <1>2 DEF Ids
<1>3. ASSUME NEW q, NEW u \in Euids, euid' = [euid EXCEPT ![q] = u] PROVE Ids'
  BY <1>3 DEF Ids
<1>4. CASE Next
  <2>1. PICK p \in Task : Step(p)
    BY <1>4 DEF Next
  <2>2. CASE \E c \in Task, clone_parent \in BOOLEAN : do_fork(p, c, clone_parent)
    <3>1. PICK c \in Task : euid' = [euid EXCEPT ![c] = euid[p]]
      BY <2>2 DEF do_fork
    <3> QED BY <1>3, <3>1 DEF Ids
  <2>3. CASE forget_original_parent(p)
    BY <1>2, <2>3 DEF forget_original_parent
  <2>4. CASE KernelStep(p)
    BY <1>2, <2>4 DEF KernelStep, exit_notify, inherit_child, exit_done, attach_link
  <2>5. CASE Wait(p)
    <3>1. CASE release_task(p)
      BY <1>1, <1>3, <3>1 DEF release_task
    <3> QED
      BY <1>2, <2>5, <3>1 DEF Wait, sys_wait4, repeat, Search, signal, wait_fault, return_zombie
  <2>6. CASE Attach(p)
    BY <1>2, <2>6 DEF Attach, attach_check, sys_get_child_processes, collect_pids
  <2>7. CASE Other(p)
    <3>1. ASSUME NEW u \in Euids, setuid(p, u) PROVE Ids'
      BY <1>3, <3>1 DEF setuid
    <3> QED
      BY <1>2, <2>7, <3>1 DEF Other, reparent_to_init, ptrace_attach
  <2> QED BY <2>1, <2>2, <2>3, <2>4, <2>5, <2>6, <2>7 DEF Step
<1> QED BY <1>2, <1>4 DEF vars

\* Every variable keeps its type; the one that needs an argument is size, which
\* holds a count of children.
THEOREM TypeCorrect ==
    ASSUME Uniprocessor
    PROVE  Spec => []TypeOK
<1>1. Init => Sizes /\ Ids
  <2>1. 0 \in 0 .. Cardinality(Task) - 1
    BY FamilyAssumption, TaskCount, FS_EmptySet
  <2> QED BY <2>1, FamilyAssumption DEF Init, Sizes, Ids
<1>2. Inv /\ Sizes /\ [Next]_vars => Sizes'
  BY SizesNext
<1>3. Ids /\ [Next]_vars => Ids'
  BY IdsNext
<1>4. Inv /\ Sizes /\ Ids => TypeOK
  BY DEF Inv, Shape, Sizes, Ids, TypeOK
<1> QED BY <1>1, <1>2, <1>3, <1>4, InvHolds, PTL DEF Spec
-----------------------------------------------------------------------------
(* What the actions do to the pointers                                     *)

\* do_fork links the child to one process, its parent and original parent.
LEMMA ForkLinks ==
    ASSUME Uniprocessor, Inv, NEW p \in Task, NEW c \in Task, NEW clone_parent \in BOOLEAN,
           do_fork(p, c, clone_parent)
    PROVE  /\ c \notin Children /\ c # Init1
           /\ \E a \in Task : a # c /\ kin' = Given(kin, c, a, a)
<1> DEFINE parents == ForkParents(p, clone_parent)
<1>1. /\ at[p] = "user" /\ CpuFree /\ at[c] = "free" /\ (clone_parent => p # Init1)
      /\ kin' = Given(SetCptr(kin, c, NULL), c, parents[1], parents[2])
  BY DEF do_fork, Runs
<1>2. \A q \in Task : at[q] \notin {"attach", "orphan", "mourn"}
  BY <1>1, CpuFreeFacts DEF Uniprocessor
<1>3. c \notin Children /\ c # Init1
  BY <1>1, ChildrenFacts DEF Inv, FamilyInOrder, InitStays, Gone
<1>4. parents[1] \in Task /\ parents[2] = parents[1] /\ at[parents[1]] \notin Gone
  <2>1. CASE clone_parent
    <3>1. p \in Children
      BY <1>1, <2>1, ChildrenFacts
    <3>2. /\ kin.p_opptr[p] \in Task /\ at[kin.p_opptr[p]] \notin Gone
          /\ kin.p_pptr[p] \in Task /\ kin.p_pptr[p] = kin.p_opptr[p]
      BY <1>2, <3>1, ParentsAreTasks DEF Inv, FamilyInOrder, SameParents
    <3> QED BY <2>1, <3>2 DEF ForkParents
  <2>2. CASE ~clone_parent
    BY <1>1, <2>2 DEF ForkParents, Gone
  <2> QED BY <2>1, <2>2
<1> HIDE DEF parents
<1>5. SetCptr(kin, c, NULL) = kin
  <2>1. kin \in Kin /\ kin.p_cptr[c] = NULL
    BY <1>1, FreeHasNoChild DEF Inv, Shape
  <2>2. SetIf(kin.p_cptr, c, NULL) = kin.p_cptr
    BY <2>1 DEF SetIf, Kin
  <2> QED BY <2>1, <2>2 DEF SetCptr, WithLists, Kin
<1>6. parents[1] # c
  BY <1>1, <1>4 DEF Gone
<1> QED BY <1>1, <1>3, <1>4, <1>5, <1>6

\* exit_notify's loop takes the first child off p's list before it hands it on.
LEMMA InheritLinks ==
    ASSUME Inv, NEW p \in Task, inherit_child(p)
    PROVE  LET c == kin.p_cptr[p]
               k == SetCptr(kin, p, kin.p_osptr[c])
           IN  /\ c \in Children /\ kin.p_pptr[c] = p
               /\ kin.p_opptr[c] \in Task \ {c}
               /\ kin' = Given(k, c, kin.p_opptr[c], kin.p_opptr[c])
               /\ k \in Kin /\ k.p_opptr = kin.p_opptr /\ k.p_pptr = kin.p_pptr
               /\ InOrder(k, Children \ {c}, Mourners)
<1> DEFINE c == kin.p_cptr[p]
           k == SetCptr(kin, p, kin.p_osptr[c])
<1>1. at[p] = "mourn" /\ c # NULL /\ kin' = Given(k, c, kin.p_opptr[c], kin.p_opptr[c])
  BY DEF inherit_child, Inherited
<1>2. kin \in Kin /\ Children \in SUBSET Task /\ InOrder(kin, Children, Mourners)
  BY InOrderChildren, ChildrenFacts DEF Inv, Shape, FamilyInOrder
<1>3. c \in Task /\ kin.p_osptr[c] \in Task \cup {NULL} /\ p \in Mourners
  BY <1>1, <1>2 DEF Kin, Mourners
<1>4. k \in Kin /\ k.p_opptr = kin.p_opptr /\ k.p_pptr = kin.p_pptr
  <2>1. k.p_opptr = kin.p_opptr /\ k.p_pptr = kin.p_pptr
    BY DEF SetCptr, WithLists
  <2> HIDE DEF c
  <2> QED BY <1>2, <1>3, <2>1, CptrFacts
<1>5. c \in Children /\ kin.p_pptr[c] = p /\ InOrder(k, Children \ {c}, Mourners)
  <2>1. kin.p_cptr[p] = c
    OBVIOUS
  <2> HIDE DEF c
  <2> QED BY <1>1, <1>2, <1>3, <2>1, HeadOrder
<1> HIDE DEF c, k
<1>6. kin.p_opptr[c] \in Task
  BY <1>5, ParentsAreTasks DEF Inv, FamilyInOrder
<1>7. kin.p_opptr[c] # c
  <2>1. {c} \in SUBSET Children /\ {c} # {}
    BY <1>5
  <2> QED BY <2>1 DEF Inv, FamilyInOrder, AllDescendFromInit
<1> QED BY <1>1, <1>4, <1>5, <1>6, <1>7 DEF c, k
-----------------------------------------------------------------------------
(* Nobody sleeps over a zombie                                             *)

\* It stays so if nobody falls asleep, and whoever gets a zombie is awake.
LEMMA NoNewZombie ==
    ASSUME SleeperHasNoZombie,
           \A q \in Task : at'[q] = "asleep" => at[q] = "asleep" /\ request'[q] = request[q],
           \A c \in Task : at'[c] \in {"mourn", "dead"} =>
               \/ at'[kin'.p_pptr[c]] # "asleep"
               \/ at[c] \in {"mourn", "dead"} /\ kin'.p_pptr[c] = kin.p_pptr[c]
    PROVE  SleeperHasNoZombie'
BY DEF SleeperHasNoZombie, Eligible, Linked, Zombie

\* The search meets every zombie that p waits for.
LEMMA SearchMeetsZombies ==
    ASSUME Inv, NEW p \in Task, NEW r, \A c \in Task : ~FirstZombie(p, r, c)
    PROVE  \A c \in Eligible(p, r) : ~Zombie(c)
<1> DEFINE list == ChildList(kin, p)
           Found(d) == d \in Eligible(p, r) /\ Zombie(d)
           S == {i \in DOMAIN list : Found(list[i])}
<1>1. /\ list \in Seq(Task)
      /\ \A c : OnList(list, c) <=> (c \in Children /\ kin.p_pptr[c] = p)
  BY ListsOfInv
<1>2. \A c \in Task : ~(Found(c) /\ \E i \in DOMAIN list :
                                       list[i] = c /\ \A j \in 1 .. i - 1 : ~Found(list[j]))
  BY DEF FirstZombie
<1> HIDE DEF list
<1> SUFFICES ASSUME NEW c \in Eligible(p, r), Zombie(c) PROVE FALSE
  OBVIOUS
<1>3. c \in Children /\ kin.p_pptr[c] = p
  BY ChildrenFacts DEF Eligible, Zombie, Inv, FamilyInOrder, InitStays, Gone
<1>4. S # {} /\ S \in SUBSET Nat
  BY <1>1, <1>3 DEF OnList
<1> HIDE DEF Found
<1>5. PICK m \in S : \A j \in S : m <= j
  BY <1>4, FirstOf
<1>6. Len(list) \in Nat /\ DOMAIN list = 1 .. Len(list) /\ m \in 1 .. Len(list)
  BY <1>1, <1>5
<1>7. \A j \in 1 .. m - 1 : ~Found(list[j])
  <2> SUFFICES ASSUME NEW j \in 1 .. m - 1 PROVE ~Found(list[j])
    OBVIOUS
  <2>1. j \in 1 .. Len(list) /\ ~(m <= j)
    BY <1>6
  <2> QED BY <1>5, <1>6, <2>1
<1>8. list[m] \in Task /\ Found(list[m])
  BY <1>1, <1>5
<1> QED BY <1>2, <1>5, <1>7, <1>8

\* One round of the search.
LEMMA SearchAndSleep ==
    ASSUME Inv, SleeperHasNoZombie, NEW p \in Task, NEW r, Search(p, r)
    PROVE  SleeperHasNoZombie'
<1>1. /\ kin' = kin /\ at \in [Task -> Places] /\ request \in [Task -> Task \cup {ANY, GROUP, NULL}]
  BY DEF Search, Inv, Shape
<1>2. CASE \E place \in {"reap", "user"} : at' = [at EXCEPT ![p] = place]
  <2>1. \A q \in Task \ {p} : request'[q] = request[q]
    BY <1>1 DEF Search, KeepWaiting, EndWait
  <2>2. /\ at'[p] \in {"reap", "user"}
        /\ \A q \in Task \ {p} : at'[q] = at[q]
    BY <1>1, <1>2
  <2> QED BY <1>1, <2>1, <2>2, NoNewZombie
<1>3. CASE /\ \A c \in Task : ~FirstZombie(p, r, c)
           /\ at' = [at EXCEPT ![p] = "asleep"] /\ KeepWaiting(p, r)
  <2>1. /\ \A q \in Task \ {p} : at'[q] = at[q] /\ request'[q] = request[q]
        /\ at'[p] = "asleep" /\ request'[p] = r
    BY <1>1, <1>3 DEF KeepWaiting
  <2>2. \A c \in Eligible(p, r) : ~Zombie(c)
    BY <1>3, SearchMeetsZombies
  <2> SUFFICES ASSUME NEW q \in Task, at'[q] = "asleep", NEW c \in Task, at'[c] \in {"mourn", "dead"},
                      kin.p_pptr[c] = q, request'[q] \in Task => c = request'[q]
               PROVE  FALSE
    BY <1>1 DEF SleeperHasNoZombie, Eligible, Linked, Zombie
  <2>3. c # p /\ at[c] \in {"mourn", "dead"}
    BY <2>1
  <2>4. CASE q = p
    BY <2>1, <2>2, <2>3, <2>4 DEF Eligible, Linked, Zombie
  <2>5. CASE q # p
    BY <2>1, <2>3, <2>5 DEF SleeperHasNoZombie, Eligible, Linked, Zombie
  <2> QED BY <2>4, <2>5
<1> QED BY <1>2, <1>3 DEF Search

\* An exiting process tells its parent, and the parents of the zombies that it leaves.
LEMMA ExitTellsSleepers ==
    ASSUME Inv, SleeperHasNoZombie, NEW p \in Task,
           exit_notify(p) \/ inherit_child(p) \/ exit_done(p)
    PROVE  SleeperHasNoZombie'
<1>1. kin \in Kin /\ at \in [Task -> Places]
  BY DEF Inv, Shape
<1>2. CASE exit_notify(p)
  <2> DEFINE b == [at EXCEPT ![p] = "mourn"]
  <2>1. /\ at[p] = "orphan" /\ kin' = kin /\ request' = request
        /\ at' = Notified(b, kin.p_pptr[p])
    BY <1>2 DEF exit_notify, waiting
  <2>2. p \in Children
    BY <2>1, ChildrenFacts DEF Inv, FamilyInOrder, InitStays, Gone
  <2>3. kin.p_pptr[p] \in Task
    BY <2>2, ParentsAreTasks DEF Inv, FamilyInOrder
  <2>4. b \in [Task -> Places] /\ b[p] = "mourn" /\ \A q \in Task \ {p} : b[q] = at[q]
    BY <1>1 DEF Places
  <2> HIDE DEF b
  <2>5. \A q \in Task : at'[q] = IF q = kin.p_pptr[p] /\ b[q] = "asleep" THEN "woken" ELSE b[q]
    BY <2>1, <2>3, <2>4, NotifiedFacts
  <2>6. at'[kin.p_pptr[p]] # "asleep"
    BY <2>3, <2>5
  <2>7. \A q \in Task : at'[q] = "asleep" => at[q] = "asleep"
    BY <2>4, <2>5
  <2>8. \A c \in Task \ {p} : at'[c] \in {"mourn", "dead"} => at[c] \in {"mourn", "dead"}
    BY <2>4, <2>5
  <2> QED BY <2>1, <2>6, <2>7, <2>8, NoNewZombie
<1>3. CASE inherit_child(p)
  <2> DEFINE c == kin.p_cptr[p]
             k == SetCptr(kin, p, kin.p_osptr[c])
             to == kin.p_opptr[c]
  <2>1. request' = request /\ at' = Mourned(at, c, to)
    BY <1>3 DEF inherit_child, waiting
  <2>2. /\ c \in Children /\ to \in Task \ {c} /\ kin' = Given(k, c, to, to) /\ k \in Kin
        /\ k.p_pptr = kin.p_pptr
    BY <1>3, InheritLinks
  <2> HIDE DEF c, k, to
  <2>3. c \in Task
    BY <2>2, ChildrenFacts
  <2>4. \A q \in Task : kin'.p_pptr[q] = IF q = c THEN to ELSE kin.p_pptr[q]
    BY <2>2, <2>3, GivenFacts
  <2>5. /\ \A q \in Task : at'[q] = at[q] \/ (at[q] = "asleep" /\ at'[q] = "woken")
        /\ at[c] \in {"mourn", "dead"} => at'[to] # "asleep"
    BY <1>1, <2>1, <2>2, <2>3, NotifiedFacts DEF Mourned, Zombie
  <2>6. \A q \in Task : at'[q] \in {"mourn", "dead"} => at[q] \in {"mourn", "dead"}
    BY <2>5
  <2>7. \A q \in Task : at'[q] = "asleep" => at[q] = "asleep"
    BY <2>5
  <2> QED BY <2>1, <2>3, <2>4, <2>5, <2>6, <2>7, NoNewZombie
<1>4. CASE exit_done(p)
  <2>1. /\ kin' = kin /\ request' = request /\ at[p] = "mourn" /\ at'[p] = "dead"
        /\ \A q \in Task \ {p} : at'[q] = at[q]
    BY <1>1, <1>4 DEF exit_done, waiting
  <2> QED BY <2>1, NoNewZombie
<1> QED BY <1>2, <1>3, <1>4

\* The steps that move processes between parents that are awake, or no zombie.
LEMMA MoveKeepsZombiesSeen ==
    ASSUME Uniprocessor, Inv, SleeperHasNoZombie, NEW p \in Task,
           \/ \E c \in Task, clone_parent \in BOOLEAN : do_fork(p, c, clone_parent)
           \/ attach_link(p) \/ reparent_to_init(p) \/ release_task(p)
    PROVE  SleeperHasNoZombie'
<1>1. kin \in Kin /\ at \in [Task -> Places] /\ request \in [Task -> Task \cup {ANY, GROUP, NULL}]
  BY DEF Inv, Shape
<1>2. ASSUME NEW c \in Task, NEW clone_parent \in BOOLEAN, do_fork(p, c, clone_parent)
      PROVE  SleeperHasNoZombie'
  <2>1. PICK a \in Task : kin' = Given(kin, c, a, a)
    BY <1>2, ForkLinks
  <2>2. \A q \in Task : kin'.p_pptr[q] = IF q = c THEN a ELSE kin.p_pptr[q]
    BY <1>1, <2>1, GivenFacts
  <2>3. request' = request /\ at'[c] = "user" /\ \A q \in Task \ {c} : at'[q] = at[q]
    BY <1>1, <1>2 DEF do_fork
  <2> QED BY <2>2, <2>3, NoNewZombie
<1>3. CASE attach_link(p)
  <2>1. /\ at[p] = "attach" /\ kin' = Relink(kin, arg[p], p, p) /\ request' = request
        /\ at'[p] = "user" /\ \A q \in Task \ {p} : at'[q] = at[q]
    BY <1>1, <1>3 DEF attach_link, waiting
  <2>2. arg[p] \in Task
    BY <2>1, ChildrenFacts DEF Inv, Attaching
  <2>3. \A q \in Task : kin'.p_pptr[q] = IF q = arg[p] THEN p ELSE kin.p_pptr[q]
    BY <1>1, <2>1, <2>2, RelinkFacts
  <2> QED BY <2>1, <2>3, NoNewZombie
<1>4. CASE reparent_to_init(p)
  <2>1. /\ at[p] = "user" /\ kin' = Relink(kin, p, Init1, Init1) /\ request' = request /\ at' = at
    BY <1>4 DEF reparent_to_init, Runs, waiting
  <2>2. \A q \in Task : kin'.p_pptr[q] = IF q = p THEN Init1 ELSE kin.p_pptr[q]
    BY <1>1, <2>1, RelinkFacts, FamilyAssumption
  <2> QED BY <2>1, <2>2, NoNewZombie
<1>5. CASE release_task(p)
  <2> DEFINE z == arg[p]
  <2>1. /\ at[p] = "reap" /\ CpuFree /\ kin' = Released(kin, z)
        /\ at' = [at EXCEPT ![p] = "user", ![z] = "free"]
        /\ request' = [request EXCEPT ![p] = NULL]
    BY <1>5 DEF release_task, Runs, EndWait
  <2>2. z \in Children /\ at[z] = "dead" /\ kin.p_pptr[z] = p
    BY <2>1 DEF Inv, Reaping
  <2> HIDE DEF z
  <2>3. z \in Task /\ Children \in SUBSET Task /\ InOrder(kin, Children, Mourners)
    BY <2>2, ChildrenFacts, InOrderChildren DEF Inv, FamilyInOrder
  <2>4. kin.p_pptr[z] \notin Mourners
    BY <2>1, <2>2 DEF Mourners
  <2>5. \A q \in Task \ {z} : kin'.p_pptr[q] = kin.p_pptr[q]
    BY <1>1, <2>1, <2>2, <2>3, <2>4, ReleasedFacts
  <2>6. /\ at'[p] \in {"user", "free"} /\ at'[z] \in {"user", "free"}
        /\ \A q \in Task \ {p, z} : at'[q] = at[q] /\ request'[q] = request[q]
    BY <1>1, <2>1, <2>3
  <2> QED BY <2>5, <2>6, NoNewZombie
<1> QED BY <1>2, <1>3, <1>4, <1>5

LEMMA ZombieNext ==
    ASSUME Uniprocessor
    PROVE  Inv /\ SleeperHasNoZombie /\ [Next]_vars => SleeperHasNoZombie'
<1> SUFFICES ASSUME Inv, SleeperHasNoZombie, [Next]_vars PROVE SleeperHasNoZombie'
  OBVIOUS
<1>1. kin \in Kin /\ at \in [Task -> Places] /\ request \in [Task -> Task \cup {ANY, GROUP, NULL}]
  BY DEF Inv, Shape
<1>2. ASSUME NEW p \in Task, at'[p] \notin {"asleep", "mourn", "dead"}, kin'.p_pptr = kin.p_pptr,
             \A q \in Task \ {p} : at'[q] = at[q] /\ request'[q] = request[q]
      PROVE  SleeperHasNoZombie'
  BY <1>2, NoNewZombie
<1>3. CASE UNCHANGED vars
  BY <1>3, NoNewZombie DEF vars
<1>4. CASE Next
  <2>1. PICK p \in Task : Step(p)
    BY <1>4 DEF Next
  <2>2. CASE \E c \in Task, clone_parent \in BOOLEAN : do_fork(p, c, clone_parent)
    BY <2>2, MoveKeepsZombiesSeen
  <2>3. CASE forget_original_parent(p)
    <3>1. /\ kin'.p_pptr = kin.p_pptr /\ at'[p] = "orphan" /\ request' = request
          /\ \A q \in Task \ {p} : at'[q] = at[q]
      BY <1>1, <2>3 DEF forget_original_parent, Forgotten, waiting, Kin
    <3> QED BY <1>2, <3>1
  <2>4. CASE KernelStep(p)
    BY <2>4, ExitTellsSleepers, MoveKeepsZombiesSeen DEF KernelStep
  <2>5. CASE Wait(p)
    <3>1. CASE signal(p)
      <4>1. /\ kin' = kin /\ at'[p] = "woken" /\ request' = request
            /\ \A q \in Task \ {p} : at'[q] = at[q]
        BY <1>1, <3>1 DEF signal, waiting
      <4> QED BY <1>2, <4>1
    <3>2. CASE wait_fault(p)
      <4>1. /\ kin' = kin /\ at'[p] = "user"
            /\ \A q \in Task \ {p} : at'[q] = at[q] /\ request'[q] = request[q]
        BY <1>1, <3>2 DEF wait_fault, EndWait
      <4> QED BY <1>2, <4>1
    <3>3. CASE release_task(p)
      BY <3>3, MoveKeepsZombiesSeen
    <3>4. CASE \E r \in Task \cup {ANY, GROUP} : sys_wait4(p, r)
      BY <3>4, SearchAndSleep DEF sys_wait4
    <3>5. CASE repeat(p)
      BY <3>5, SearchAndSleep DEF repeat
    <3> QED BY <2>5, <3>1, <3>2, <3>3, <3>4, <3>5, NoForeignZombie DEF Wait
  <2>6. CASE Attach(p)
    <3>1. /\ kin' = kin /\ at'[p] \in {"attach", "collect", "user"} /\ request' = request
          /\ \A q \in Task \ {p} : at'[q] = at[q]
      BY <1>1, <2>6 DEF Attach, attach_check, sys_get_child_processes, collect_pids, waiting
    <3> QED BY <1>2, <3>1
  <2>7. CASE Other(p)
    <3>1. CASE reparent_to_init(p)
      BY <3>1, MoveKeepsZombiesSeen
    <3>2. CASE \E u \in Euids : setuid(p, u)
      BY <3>2, NoNewZombie DEF setuid, waiting
    <3> QED BY <2>7, <3>1, <3>2, NoForeignZombie DEF Other
  <2> QED BY <2>1, <2>2, <2>3, <2>4, <2>5, <2>6, <2>7 DEF Step
<1> QED BY <1>3, <1>4

\* Whoever hands a process that sleeps in sys_wait4 a zombie, the child that exits or
\* a brother that leaves it, wakes it up; and nobody goes to sleep over one.
THEOREM NobodySleepsOverZombie ==
    ASSUME Uniprocessor
    PROVE  Spec => []SleeperHasNoZombie
<1>1. Init => SleeperHasNoZombie
  BY DEF Init, SleeperHasNoZombie
<1>2. Inv /\ SleeperHasNoZombie /\ [Next]_vars => SleeperHasNoZombie'
  BY ZombieNext
<1> QED BY <1>1, <1>2, InvHolds, PTL DEF Spec
-----------------------------------------------------------------------------
(* What happens to the lists                                               *)

\* A list whose pointers stay.
LEMMA LinkStays ==
    ASSUME NEW k, NEW l, NEW c, NEW s, Whole(k, c, s),
           \A i \in DOMAIN s : l.p_osptr[s[i]] = k.p_osptr[s[i]]
    PROVE  Whole(l, c, s)
<1> DEFINE n == Len(s)
<1>1. s \in Seq(Task)
  BY DEF Whole, Part
<1>2. n \in Nat /\ DOMAIN s = 1 .. n /\ (s = << >> <=> n = 0)
  BY <1>1
<1>3. /\ s # << >> => s[1] = c
      /\ \A i \in 1 .. n - 1 : s[i + 1] = k.p_osptr[s[i]]
      /\ IF s = << >> THEN c = NULL ELSE k.p_osptr[s[n]] = NULL
  BY DEF Whole, Part, Ends
<1> SUFFICES /\ \A i \in 1 .. n - 1 : s[i + 1] = l.p_osptr[s[i]]
             /\ IF s = << >> THEN c = NULL ELSE l.p_osptr[s[n]] = NULL
  BY <1>1, <1>3 DEF Whole, Part, Ends
<1> HIDE DEF n
<1>4. \A i \in 1 .. n : l.p_osptr[s[i]] = k.p_osptr[s[i]]
  BY <1>2
<1>5. ASSUME NEW i \in 1 .. n - 1 PROVE s[i + 1] = l.p_osptr[s[i]]
  <2>1. i \in 1 .. n
    BY <1>2
  <2> QED BY <1>3, <1>4, <2>1
<1>6. CASE s = << >>
  BY <1>3, <1>5, <1>6
<1>7. CASE s # << >>
  <2>1. n \in 1 .. n
    BY <1>2, <1>7
  <2> QED BY <1>3, <1>4, <1>5, <1>7, <2>1
<1> QED BY <1>6, <1>7

\* A list that skips its entry z: the pointer to z becomes the one that z had.
LEMMA LinkSkips ==
    ASSUME NEW k, NEW l, NEW c, NEW d, NEW s, Whole(k, c, s), NoRepeat(s),
           NEW j \in DOMAIN s, d = IF j = 1 THEN k.p_osptr[s[j]] ELSE c,
           \A i \in DOMAIN s : i # j =>
               l.p_osptr[s[i]] = IF i = j - 1 THEN k.p_osptr[s[j]] ELSE k.p_osptr[s[i]]
    PROVE  Whole(l, d, RemoveFirst(s, s[j]))
<1> DEFINE n == Len(s)
           w == RemoveFirst(s, s[j])
<1>1. s \in Seq(Task)
  BY DEF Whole, Part
<1>2. n \in Nat /\ DOMAIN s = 1 .. n /\ j \in 1 .. n /\ s # << >>
  BY <1>1
<1>3. /\ s[1] = c /\ k.p_osptr[s[n]] = NULL
      /\ \A i \in 1 .. n - 1 : s[i + 1] = k.p_osptr[s[i]]
  BY <1>2 DEF Whole, Part, Ends
<1>4. /\ Len(w) = n - 1 /\ w \in Seq(Task)
      /\ \A i \in 1 .. n - 1 : w[i] = IF i < j THEN s[i] ELSE s[i + 1]
  BY <1>1, RemoveAtEntry
<1> HIDE DEF n, w
<1>5. w = << >> <=> n = 1
  BY <1>2, <1>4
<1>6. \A i \in 1 .. n : i # j =>
          l.p_osptr[s[i]] = IF i = j - 1 THEN k.p_osptr[s[j]] ELSE k.p_osptr[s[i]]
  BY <1>2
<1>7. w # << >> => w[1] = d
  <2> SUFFICES ASSUME w # << >> PROVE w[1] = d
    OBVIOUS
  <2>1. n > 1 /\ 1 \in 1 .. n - 1
    BY <1>2, <1>5
  <2>2. CASE j = 1
    BY <1>3, <1>4, <2>1, <2>2
  <2>3. CASE j # 1
    BY <1>2, <1>3, <1>4, <2>1, <2>3
  <2> QED BY <2>2, <2>3
<1>8. ASSUME NEW i \in 1 .. n - 2 PROVE w[i + 1] = l.p_osptr[w[i]]
  <2>1. /\ i \in 1 .. n - 1 /\ i + 1 \in 1 .. n - 1 /\ i \in 1 .. n /\ i + 1 \in 1 .. n
        /\ (i + 1) + 1 \in 1 .. n
    BY <1>2
  <2>2. CASE i < j - 1
    <3>1. i < j /\ i + 1 < j /\ i # j /\ i # j - 1
      BY <1>2, <2>2
    <3>2. w[i] = s[i] /\ w[i + 1] = s[i + 1]
      BY <1>4, <2>1, <3>1
    <3> QED BY <1>3, <1>6, <2>1, <3>1, <3>2
  <2>3. CASE i = j - 1
    <3>1. i < j /\ ~(i + 1 < j) /\ i # j /\ i + 1 = j
      BY <1>2, <2>3
    <3>2. w[i] = s[i] /\ w[i + 1] = s[j + 1]
      BY <1>4, <2>1, <3>1
    <3>3. s[j + 1] = k.p_osptr[s[j]]
      BY <1>3, <2>1, <3>1
    <3> QED BY <1>6, <2>1, <2>3, <3>1, <3>2, <3>3
  <2>4. CASE i >= j
    <3>1. ~(i < j) /\ ~(i + 1 < j) /\ i + 1 # j /\ i + 1 # j - 1
      BY <1>2, <2>4
    <3>2. w[i] = s[i + 1] /\ w[i + 1] = s[(i + 1) + 1]
      BY <1>4, <2>1, <3>1
    <3> QED BY <1>3, <1>6, <2>1, <3>1, <3>2
  <2> QED BY <1>2, <2>1, <2>2, <2>3, <2>4
<1>9. Part(l, d, w)
  <2>1. Len(w) - 1 = n - 2
    BY <1>2, <1>4
  <2> QED BY <1>4, <1>7, <1>8, <2>1 DEF Part
<1>10. Ends(l, d, w)
  <2>1. CASE n = 1
    <3>1. j = 1
      BY <1>2, <2>1
    <3> QED BY <1>3, <1>5, <2>1, <3>1 DEF Ends
  <2>2. CASE n # 1
    <3>1. n - 1 \in 1 .. n - 1 /\ n - 1 \in 1 .. n /\ n \in 1 .. n /\ (n - 1) + 1 = n
      BY <1>2, <2>2
    <3>2. CASE j = n
      <4>1. n - 1 < j /\ n - 1 # j /\ n - 1 = j - 1
        BY <1>2, <3>2
      <4>2. w[n - 1] = s[n - 1]
        BY <1>4, <3>1, <4>1
      <4>3. l.p_osptr[s[n - 1]] = k.p_osptr[s[j]]
        BY <1>6, <3>1, <4>1
      <4> QED BY <1>3, <1>4, <1>5, <2>2, <3>2, <4>2, <4>3 DEF Ends
    <3>3. CASE j # n
      <4>1. ~(n - 1 < j) /\ n # j /\ n # j - 1
        BY <1>2, <3>3
      <4>2. w[n - 1] = s[n]
        BY <1>4, <3>1, <4>1
      <4>3. l.p_osptr[s[n]] = k.p_osptr[s[n]]
        BY <1>6, <3>1, <4>1
      <4> QED BY <1>3, <1>4, <1>5, <2>2, <4>2, <4>3 DEF Ends
    <3> QED BY <3>2, <3>3
  <2> QED BY <2>1, <2>2
<1> QED BY <1>9, <1>10 DEF Whole, w

\* A list that a walk goes through is what ChildList gives.
LEMMA ListIs ==
    ASSUME NEW k \in Kin, NEW C \in SUBSET Task, NEW M, InOrder(k, C, M), NEW p \in Task,
           NEW s, Whole(k, k.p_cptr[p], s)
    PROVE  ChildList(k, p) = s
BY ListIsWhole, WholeIsUnique

\* REMOVE_LINKS takes z off the list that it is on.
LEMMA RemoveLists ==
    ASSUME NEW k \in Kin, NEW C \in SUBSET Task, NEW M, InOrder(k, C, M),
           NEW z \in C, k.p_pptr[z] \notin M, NEW p \in Task
    PROVE  ChildList(REMOVE_LINKS(k, z), p) = RemoveFirst(ChildList(k, p), z)
<1> DEFINE r == REMOVE_LINKS(k, z)
           s == ChildList(k, p)
           y == k.p_ysptr[z]
           o == k.p_osptr[z]
<1>1. /\ r \in Kin
      /\ \A q \in Task :
          /\ r.p_osptr[q] = IF q = y THEN o ELSE k.p_osptr[q]
          /\ r.p_cptr[q] = IF y = NULL /\ q = k.p_pptr[z] THEN o ELSE k.p_cptr[q]
  BY RemoveLinksFacts
<1>2. InOrder(r, C \ {z}, M)
  BY RemoveOrder
<1> HIDE DEF r
<1>3. Whole(k, k.p_cptr[p], s)
  BY ListIsWhole
<1>4. /\ s \in Seq(Task) /\ NoRepeat(s)
      /\ \A c : OnList(s, c) <=> (c \in C /\ k.p_pptr[c] = p)
  BY ListFacts
<1> HIDE DEF s
<1>5. \A i \in DOMAIN s : s[i] \in C /\ s[i] \in Task /\ s[i] # NULL /\ k.p_pptr[s[i]] = p
  <2> SUFFICES ASSUME NEW i \in DOMAIN s
               PROVE  s[i] \in C /\ s[i] \in Task /\ s[i] # NULL /\ k.p_pptr[s[i]] = p
    OBVIOUS
  <2>1. OnList(s, s[i])
    BY DEF OnList
  <2> QED BY <1>4, <2>1, TaskCount
<1>6. /\ k.p_cptr[k.p_pptr[z]] = z => y = NULL
      /\ k.p_cptr[k.p_pptr[z]] # z =>
             y \in C /\ y # NULL /\ k.p_osptr[y] = z /\ k.p_pptr[y] = k.p_pptr[z]
  BY TaskCount DEF InOrder, Agree, Youngest
<1>7. CASE k.p_pptr[z] # p
  <2>1. ~OnList(s, z)
    BY <1>4, <1>7
  <2>2. RemoveFirst(s, z) = s
    BY <1>4, <2>1, RemoveAbsent
  <2>3. r.p_cptr[p] = k.p_cptr[p]
    BY <1>1, <1>7
  <2>4. \A i \in DOMAIN s : r.p_osptr[s[i]] = k.p_osptr[s[i]]
    BY <1>1, <1>5, <1>6, <1>7
  <2>5. Whole(r, r.p_cptr[p], s)
    BY <1>3, <2>3, <2>4, LinkStays
  <2> HIDE DEF y, o
  <2>6. ChildList(r, p) = s
    BY <1>1, <1>2, <2>5, ListIs
  <2> QED BY <2>2, <2>6 DEF r, s
<1>8. CASE k.p_pptr[z] = p
  <2>1. PICK j \in DOMAIN s : s[j] = z
    BY <1>4, <1>8 DEF OnList
  <2>2. Len(s) \in Nat /\ DOMAIN s = 1 .. Len(s) /\ j \in 1 .. Len(s) /\ s # << >>
    BY <1>4
  <2>3. s[1] = k.p_cptr[p] /\ \A i \in 1 .. Len(s) - 1 : s[i + 1] = k.p_osptr[s[i]]
    BY <1>3, <2>2 DEF Whole, Part
  <2>4. \A i \in DOMAIN s : s[i] = y => k.p_osptr[s[i]] = z /\ ~Youngest(k, z)
    BY <1>5, <1>6 DEF Youngest
  <2>5. CASE j = 1
    <3>1. y = NULL
      BY <1>6, <1>8, <2>1, <2>3, <2>5
    <3>2. r.p_cptr[p] = k.p_osptr[s[j]]
      BY <1>1, <1>8, <2>1, <3>1
    <3>3. \A i \in DOMAIN s : r.p_osptr[s[i]] = k.p_osptr[s[i]] /\ i # j - 1
      BY <1>1, <1>5, <2>2, <2>5, <3>1
    <3> HIDE DEF y, o
    <3>4. Whole(r, r.p_cptr[p], RemoveFirst(s, s[j]))
      BY <1>3, <1>4, <2>5, <3>2, <3>3, LinkSkips
    <3> QED BY <1>1, <1>2, <2>1, <3>4, ListIs DEF r, s
  <2>6. CASE j # 1
    <3>1. j - 1 \in 1 .. Len(s) - 1 /\ j - 1 \in DOMAIN s /\ (j - 1) + 1 = j /\ 1 \in DOMAIN s
      <4> DEFINE n == Len(s)
      <4>1. n \in Nat /\ DOMAIN s = 1 .. n /\ j \in 1 .. n
        BY <2>2
      <4> HIDE DEF n
      <4>2. j - 1 \in 1 .. n - 1 /\ j - 1 \in DOMAIN s /\ (j - 1) + 1 = j /\ 1 \in DOMAIN s
        BY <2>6, <4>1
      <4> QED BY <4>2 DEF n
    <3>2. k.p_osptr[s[j - 1]] = z
      BY <2>1, <2>3, <3>1
    <3>3. k.p_ysptr[z] = s[j - 1]
      <4>1. s[j - 1] \in C /\ z # NULL
        BY <1>5, <2>1, <3>1
      <4> QED BY <3>2, <4>1 DEF InOrder, Agree
    <3>4. y # NULL
      BY <1>5, <3>1, <3>3
    <3>5. r.p_cptr[p] = k.p_cptr[p]
      BY <1>1, <3>4
    <3>6. \A i \in DOMAIN s : s[i] = y <=> i = j - 1
      BY <1>4, <3>1, <3>3 DEF NoRepeat
    <3>7. \A i \in DOMAIN s : r.p_osptr[s[i]] = IF i = j - 1 THEN k.p_osptr[s[j]]
                                                 ELSE k.p_osptr[s[i]]
      BY <1>1, <1>5, <2>1, <3>6
    <3> HIDE DEF y, o
    <3>8. Whole(r, r.p_cptr[p], RemoveFirst(s, s[j]))
      BY <1>3, <1>4, <2>6, <3>5, <3>7, LinkSkips
    <3> QED BY <1>1, <1>2, <2>1, <3>8, ListIs DEF r, s
  <2> QED BY <2>5, <2>6
<1> QED BY <1>7, <1>8

\* So does exit_notify's loop with the first entry.
LEMMA HeadLists ==
    ASSUME NEW k \in Kin, NEW C \in SUBSET Task, NEW M, InOrder(k, C, M),
           NEW p \in Task, p \in M, NEW c \in Task, k.p_cptr[p] = c, NEW q \in Task
    PROVE  ChildList(SetCptr(k, p, k.p_osptr[c]), q) = RemoveFirst(ChildList(k, q), c)
<1> DEFINE l == SetCptr(k, p, k.p_osptr[c])
           s == ChildList(k, q)
<1>1. k.p_osptr[c] \in Task \cup {NULL}
  BY DEF Kin
<1>2. l \in Kin
  BY <1>1, CptrFacts
<1>3. c \in C /\ k.p_pptr[c] = p /\ InOrder(l, C \ {c}, M)
  BY HeadOrder
<1>4. /\ l.p_osptr = k.p_osptr
      /\ l.p_cptr[q] = IF q = p THEN k.p_osptr[c] ELSE k.p_cptr[q]
  <2>1. l.p_cptr = SetIf(k.p_cptr, p, k.p_osptr[c]) /\ l.p_osptr = k.p_osptr
    BY DEF SetCptr, WithLists
  <2>2. k.p_cptr \in [Task -> Task \cup {NULL}]
    BY DEF Kin
  <2> HIDE DEF l
  <2> QED BY <1>1, <2>1, <2>2, SetIfFacts
<1> HIDE DEF l
<1>5. Whole(k, k.p_cptr[q], s)
  BY ListIsWhole
<1>6. /\ s \in Seq(Task) /\ NoRepeat(s)
      /\ \A d : OnList(s, d) <=> (d \in C /\ k.p_pptr[d] = q)
  BY ListFacts
<1> HIDE DEF s
<1>7. CASE q # p
  <2>1. RemoveFirst(s, c) = s
    BY <1>3, <1>6, <1>7, RemoveAbsent
  <2>2. Whole(l, l.p_cptr[q], s)
    BY <1>4, <1>5, <1>7, LinkStays
  <2> QED BY <1>2, <1>3, <2>1, <2>2, ListIs DEF l, s
<1>8. CASE q = p
  <2>1. s # << >> /\ s[1] = c
    BY <1>5, <1>8, TaskCount DEF Whole, Part, Ends
  <2>2. Len(s) \in Nat /\ DOMAIN s = 1 .. Len(s) /\ 1 \in DOMAIN s
    BY <1>6, <2>1
  <2>3. l.p_cptr[q] = k.p_osptr[s[1]]
    BY <1>4, <1>8, <2>1
  <2>4. \A i \in DOMAIN s : l.p_osptr[s[i]] = k.p_osptr[s[i]] /\ i # 1 - 1
    BY <1>4, <2>2
  <2>5. Whole(l, l.p_cptr[q], RemoveFirst(s, s[1]))
    BY <1>5, <1>6, <2>2, <2>3, <2>4, LinkSkips
  <2> QED BY <1>2, <1>3, <2>1, <2>5, ListIs DEF l, s
<1> QED BY <1>7, <1>8

\* The list s with z in front if it is the list of b.
FirstOn(b, z, p, s) == IF p = b THEN <<z>> \o s ELSE s

\* SET_LINKS puts z in front of the list of its new parent.
LEMMA GivenLists ==
    ASSUME NEW k \in Kin, NEW C \in SUBSET Task, NEW M, InOrder(k, C, M),
           NEW z \in Task \ C, NEW a \in Task, NEW b \in Task, NEW p \in Task
    PROVE  ChildList(Given(k, z, a, b), p) = FirstOn(b, z, p, ChildList(k, p))
<1> DEFINE g == Given(k, z, a, b)
           t == SetParents(k, z, a, b)
           s == ChildList(k, p)
<1>1. g \in Kin /\ InOrder(g, C \cup {z}, M)
  BY GivenOrder
<1>2. k.p_cptr[b] # z
  <2>1. k.p_cptr[b] = NULL \/ k.p_cptr[b] \in C
    BY DEF InOrder, Agree
  <2> QED BY <2>1, TaskCount
<1>3. /\ t \in Kin /\ t.p_cptr = k.p_cptr /\ t.p_osptr = k.p_osptr /\ t.p_pptr[z] = b
  <2>1. z \in Task
    OBVIOUS
  <2>2. t \in Kin
    BY <2>1, ParentFacts
  <2>3. t.p_cptr = k.p_cptr /\ t.p_osptr = k.p_osptr
    BY DEF SetParents, WithParents
  <2>4. t.p_pptr = SetIf(k.p_pptr, z, b) /\ k.p_pptr \in [Task -> Task \cup {NULL}]
    BY DEF SetParents, WithParents, Kin
  <2>5. t.p_pptr[z] = b
    BY <2>1, <2>4, SetIfFacts
  <2> QED BY <2>2, <2>3, <2>5
<1>4. g = SET_LINKS(t, z)
  BY DEF Given
<1> HIDE DEF g, t
<1>5. \A q \in Task : /\ g.p_osptr[q] = IF q = z THEN k.p_cptr[b] ELSE k.p_osptr[q]
                      /\ g.p_cptr[q] = IF q = b THEN z ELSE k.p_cptr[q]
  <2>1. t.p_pptr[z] \in Task /\ t.p_cptr[t.p_pptr[z]] # z
    BY <1>2, <1>3
  <2> QED BY <1>3, <1>4, <2>1, SetFacts
<1>6. Whole(k, k.p_cptr[p], s)
  BY ListIsWhole
<1>7. s \in Seq(Task) /\ \A d : OnList(s, d) => d \in C
  BY ListFacts
<1> HIDE DEF s
<1>8. \A i \in DOMAIN s : g.p_osptr[s[i]] = k.p_osptr[s[i]]
  <2> SUFFICES ASSUME NEW i \in DOMAIN s PROVE g.p_osptr[s[i]] = k.p_osptr[s[i]]
    OBVIOUS
  <2>1. OnList(s, s[i]) /\ s[i] \in Task
    BY <1>7 DEF OnList
  <2> QED BY <1>5, <1>7, <2>1
<1>9. Whole(g, k.p_cptr[p], s)
  BY <1>6, <1>8, LinkStays
<1>10. CASE p # b
  <2>1. g.p_cptr[p] = k.p_cptr[p]
    BY <1>5, <1>10
  <2> QED BY <1>1, <1>9, <1>10, <2>1, ListIs DEF g, s, FirstOn
<1>11. CASE p = b
  <2>1. g.p_cptr[p] = z /\ g.p_osptr[z] = k.p_cptr[p]
    BY <1>5, <1>11
  <2>2. Whole(g, g.p_osptr[z], s)
    BY <1>9, <2>1
  <2>3. Whole(g, z, <<z>> \o s)
    BY <1>1, <2>2, LongerFacts DEF Whole
  <2> QED BY <1>1, <1>11, <2>1, <2>3, ListIs DEF g, s, FirstOn
<1> QED BY <1>10, <1>11

\* Both, as in attach_link and reparent_to_init.
LEMMA RelinkLists ==
    ASSUME NEW k \in Kin, NEW C \in SUBSET Task, NEW M, InOrder(k, C, M),
           NEW z \in C, k.p_pptr[z] \notin M, NEW a \in Task, NEW b \in Task, NEW p \in Task
    PROVE  ChildList(Relink(k, z, a, b), p) = FirstOn(b, z, p, RemoveFirst(ChildList(k, p), z))
<1> DEFINE r == REMOVE_LINKS(k, z)
           D == C \ {z}
<1>1. r \in Kin /\ InOrder(r, D, M)
  BY RemoveLinksFacts, RemoveOrder
<1>2. ChildList(r, p) = RemoveFirst(ChildList(k, p), z)
  BY RemoveLists
<1>3. Relink(k, z, a, b) = Given(r, z, a, b)
  BY DEF Relink
<1>4. D \in SUBSET Task /\ z \in Task \ D
  OBVIOUS
<1> HIDE DEF r, D
<1>5. ChildList(Given(r, z, a, b), p) = FirstOn(b, z, p, ChildList(r, p))
  BY <1>1, <1>4, GivenLists
<1> QED BY <1>2, <1>3, <1>5

\* release_task clears the pointers of z as well.
LEMMA ReleasedLists ==
    ASSUME NEW k \in Kin, NEW z \in Task, NEW C \in SUBSET Task, NEW M, InOrder(k, C, M),
           z \in C, k.p_pptr[z] \notin M, NEW p \in Task
    PROVE  /\ ChildList(Released(k, z), p) = RemoveFirst(ChildList(k, p), z)
           /\ Released(k, z).p_opptr = SetIf(k.p_opptr, z, NULL)
<1> DEFINE out == REMOVE_LINKS(k, z)
           l == Released(k, z)
           s == ChildList(out, p)
           D == C \ {z}
<1>1. out \in Kin /\ InOrder(out, D, M) /\ out.p_opptr = k.p_opptr
  BY RemoveLinksFacts, RemoveOrder
<1>2. s = RemoveFirst(ChildList(k, p), z)
  BY RemoveLists
<1>3. l \in Kin /\ InOrder(l, D, M)
  BY ReleasedFacts
<1>4. /\ l.p_cptr = out.p_cptr /\ l.p_osptr = SetIf(out.p_osptr, z, NULL)
      /\ l.p_opptr = SetIf(out.p_opptr, z, NULL)
  BY DEF Released
<1>5. D \in SUBSET Task /\ z \notin D
  OBVIOUS
<1> HIDE DEF out, l, D
<1>6. Whole(out, out.p_cptr[p], s) /\ s \in Seq(Task) /\ \A d : OnList(s, d) => d \in D
  BY <1>1, <1>5, ListIsWhole, ListFacts
<1> HIDE DEF s
<1>7. \A q \in Task \ {z} : l.p_osptr[q] = out.p_osptr[q]
  BY <1>1, <1>4, SetIfFacts DEF Kin
<1>8. \A i \in DOMAIN s : l.p_osptr[s[i]] = out.p_osptr[s[i]]
  <2> SUFFICES ASSUME NEW i \in DOMAIN s PROVE l.p_osptr[s[i]] = out.p_osptr[s[i]]
    OBVIOUS
  <2>1. OnList(s, s[i]) /\ s[i] \in Task
    BY <1>6 DEF OnList
  <2> QED BY <1>5, <1>6, <1>7, <2>1
<1>9. Whole(l, l.p_cptr[p], s)
  BY <1>4, <1>6, <1>8, LinkStays
<1>10. ChildList(l, p) = s
  BY <1>3, <1>5, <1>9, ListIs
<1> QED BY <1>1, <1>2, <1>4, <1>10 DEF l
-----------------------------------------------------------------------------
(* The pointers implement the lists of FamilyTree                          *)

\* Who is not on the list of all tasks, and init, has no father.
NoFather == \A q \in Task : q \notin Children => kin.p_opptr[q] = NULL

\* The variables of FamilyTree.
TreeVars == <<kin.p_opptr, [p \in Task |-> ChildList(kin, p)]>>

\* The operator of SequencesExt that FamilyTree sees is the same.
LEMMA TreeRemove == ASSUME NEW s, NEW c PROVE Tree!RemoveFirst(s, c) = RemoveFirst(s, c)
<1>1. ASSUME NEW i PROVE Tree!RemoveAt(s, i) = RemoveAt(s, i)
  BY DEF Tree!RemoveAt, RemoveAt
<1>2. Tree!SelectInSeq(s, LAMBDA v : v = c) = SelectInSeq(s, LAMBDA v : v = c)
  BY DEF Tree!SelectInSeq, SelectInSeq, Tree!Min, Min
<1> QED BY <1>1, <1>2 DEF Tree!RemoveFirst, RemoveFirst

LEMMA TreeDropped ==
    ASSUME NEW c PROVE Tree!Dropped(c) = [q \in Task |-> RemoveFirst(ChildList(kin, q), c)]
<1>1. \A q \in Task : Tree!RemoveFirst(ChildList(kin, q), c) = RemoveFirst(ChildList(kin, q), c)
  BY TreeRemove
<1>2. \A q \in Task : [p \in Task |-> ChildList(kin, p)][q] = ChildList(kin, q)
  OBVIOUS
<1> QED BY <1>1, <1>2 DEF Tree!Dropped

\* c is put first on the list of p.
LEMMA TreeFirst ==
    ASSUME NEW p \in Task, NEW c,
           \A q \in Task : ChildList(kin', q) = FirstOn(p, c, q, RemoveFirst(ChildList(kin, q), c))
    PROVE  [q \in Task |-> ChildList(kin', q)] = Tree!First(p, c)
<1> DEFINE D == [q \in Task |-> RemoveFirst(ChildList(kin, q), c)]
<1>1. Tree!Dropped(c) = D
  BY TreeDropped
<1>2. Tree!First(p, c) = [D EXCEPT ![p] = <<c>> \o D[p]]
  BY <1>1 DEF Tree!First
<1> QED BY <1>2 DEF FirstOn

\* A list without entries.
LEMMA NothingOnIt == ASSUME NEW T, NEW s \in Seq(T), \A c : ~OnList(s, c) PROVE s = << >>
<1> SUFFICES ASSUME s # << >> PROVE FALSE
  OBVIOUS
<1>1. Len(s) \in Nat /\ Len(s) # 0 /\ DOMAIN s = 1 .. Len(s)
  OBVIOUS
<1>2. 1 \in DOMAIN s
  BY <1>1
<1> QED BY <1>2 DEF OnList

\* What every step starts from.
LEMMA OrderOfInv ==
    Inv => kin \in Kin /\ Children \in SUBSET Task /\ InOrder(kin, Children, Mourners)
BY InOrderChildren, ChildrenFacts DEF Inv, Shape, FamilyInOrder

\* Processes that get no father, and keep the one that they have.
LEMMA NoFatherKept ==
    ASSUME NoFather,
           \A q \in Task : q \notin Children' =>
               kin'.p_opptr[q] = NULL \/ (q \notin Children /\ kin'.p_opptr[q] = kin.p_opptr[q])
    PROVE  NoFather'
BY DEF NoFather

\* A new father changes one value.
LEMMA OneFather ==
    ASSUME kin \in Kin, kin' \in Kin, NEW z \in Task, NEW a,
           \A q \in Task : kin'.p_opptr[q] = IF q = z THEN a ELSE kin.p_opptr[q]
    PROVE  kin'.p_opptr = [kin.p_opptr EXCEPT ![z] = a]
BY DEF Kin

\* do_fork: a child is born.
LEMMA ForkIsBorn ==
    ASSUME Uniprocessor, Inv, NoFather, NEW p \in Task, NEW c \in Task,
           NEW clone_parent \in BOOLEAN, do_fork(p, c, clone_parent)
    PROVE  NoFather' /\ \E f \in Task : Tree!Born(f, f, c)
<1>1. c \notin Children /\ c # Init1
  BY ForkLinks
<1>2. PICK a \in Task : a # c /\ kin' = Given(kin, c, a, a)
  BY ForkLinks
<1>3. kin \in Kin /\ Children \in SUBSET Task /\ InOrder(kin, Children, Mourners)
  BY OrderOfInv
<1>4. kin' \in Kin
  BY <1>1, <1>2, <1>3, GivenOrder
<1>5. \A q \in Task : kin'.p_opptr[q] = IF q = c THEN a ELSE kin.p_opptr[q]
  BY <1>2, <1>3, GivenFacts
<1>6. \A q \in Task : ChildList(kin', q) = FirstOn(a, c, q, RemoveFirst(ChildList(kin, q), c))
  <2> SUFFICES ASSUME NEW q \in Task
               PROVE  ChildList(kin', q) = FirstOn(a, c, q, RemoveFirst(ChildList(kin, q), c))
    OBVIOUS
  <2>1. ChildList(kin', q) = FirstOn(a, c, q, ChildList(kin, q))
    BY <1>1, <1>2, <1>3, GivenLists
  <2>2. ChildList(kin, q) \in Seq(Task) /\ ~OnList(ChildList(kin, q), c)
    BY <1>1, <1>3, ListFacts
  <2> QED BY <2>1, <2>2, RemoveAbsent
<1>7. c \in Children' /\ \A q \in Task \ {c} : q \in Children' <=> q \in Children
  <2>1. at' = [at EXCEPT ![c] = "user"] /\ at \in [Task -> Places]
    BY DEF do_fork, Inv, Shape
  <2> QED BY <1>1, <2>1 DEF Children, Linked
<1>8. NoFather'
  BY <1>5, <1>7, NoFatherKept
<1>9. Tree!Born(a, a, c)
  <2>1. kin.p_opptr[c] = NULL
    BY <1>1 DEF NoFather
  <2>2. kin'.p_opptr = [kin.p_opptr EXCEPT ![c] = a]
    BY <1>3, <1>4, <1>5, OneFather
  <2>3. [q \in Task |-> ChildList(kin', q)] = Tree!First(a, c)
    BY <1>6, TreeFirst
  <2> QED BY <1>1, <1>2, <2>1, <2>2, <2>3 DEF Tree!Born, Tree!Exists
<1> QED BY <1>8, <1>9

\* forget_original_parent: a father leaves.
LEMMA ForgetIsLeave ==
    ASSUME Inv, NoFather, NEW p \in Task, forget_original_parent(p)
    PROVE  NoFather' /\ Tree!Leave(p)
<1>1. kin' = Forgotten(kin, p) /\ p # Init1 /\ at[p] = "user" /\ at' = [at EXCEPT ![p] = "orphan"]
  BY DEF forget_original_parent, Runs
<1>2. kin \in Kin /\ at \in [Task -> Places]
  BY DEF Inv, Shape
<1>3. /\ kin'.p_cptr = kin.p_cptr /\ kin'.p_osptr = kin.p_osptr
      /\ kin'.p_opptr = [q \in Task |-> IF kin.p_opptr[q] = p THEN Init1 ELSE kin.p_opptr[q]]
  BY <1>1, <1>2 DEF Forgotten, Kin
<1>4. \A q \in Task : ChildList(kin', q) = ChildList(kin, q)
  BY <1>3 DEF ChildList
<1>5. \A q \in Task : q \in Children' <=> q \in Children
  BY <1>1, <1>2 DEF Children, Linked
<1>6. NoFather'
  BY <1>3, <1>5, TaskCount DEF NoFather
<1>7. Tree!Leave(p)
  BY <1>1, <1>3, <1>4 DEF Tree!Leave
<1> QED BY <1>6, <1>7

\* exit_notify's loop: a child goes to its father.
LEMMA InheritIsHanded ==
    ASSUME Inv, NoFather, NEW p \in Task, inherit_child(p)
    PROVE  NoFather' /\ \E f, c \in Task : Tree!Handed(f, c)
<1> DEFINE c == kin.p_cptr[p]
           k == SetCptr(kin, p, kin.p_osptr[c])
           to == kin.p_opptr[c]
<1>1. /\ c \in Children /\ to \in Task \ {c} /\ kin' = Given(k, c, to, to)
      /\ k \in Kin /\ k.p_opptr = kin.p_opptr /\ InOrder(k, Children \ {c}, Mourners)
  BY InheritLinks
<1>2. kin \in Kin /\ Children \in SUBSET Task /\ InOrder(kin, Children, Mourners)
  BY OrderOfInv
<1>3. at[p] = "mourn" /\ p \in Mourners
  BY DEF inherit_child, Mourners
<1>4. \A q \in Task : ChildList(k, q) = RemoveFirst(ChildList(kin, q), c)
  <2>1. kin.p_cptr[p] = c /\ c \in Task
    BY <1>1, <1>2
  <2> HIDE DEF c
  <2> QED BY <1>2, <1>3, <2>1, HeadLists
<1> HIDE DEF c, k
<1>5. c \in Task \ (Children \ {c}) /\ Children \ {c} \in SUBSET Task
  BY <1>1, <1>2
<1>6. \A q \in Task : kin'.p_opptr[q] = IF q = c THEN to ELSE kin.p_opptr[q]
  BY <1>1, <1>5, GivenFacts
<1>7. \A q \in Task : ChildList(kin', q) = FirstOn(to, c, q, RemoveFirst(ChildList(kin, q), c))
  <2> HIDE DEF to
  <2> SUFFICES ASSUME NEW q \in Task
               PROVE  ChildList(kin', q) = FirstOn(to, c, q, RemoveFirst(ChildList(kin, q), c))
    OBVIOUS
  <2>1. ChildList(kin', q) = FirstOn(to, c, q, ChildList(k, q))
    BY <1>1, <1>5, GivenLists
  <2> QED BY <1>4, <2>1
<1>8. kin' \in Kin
  BY <1>1, <1>5, GivenOrder
<1>9. kin'.p_opptr = kin.p_opptr
  BY <1>2, <1>6, <1>8 DEF Kin
<1>10. \A q \in Task : at'[q] = "free" <=> at[q] = "free"
  BY <1>1, NotifiedFacts DEF inherit_child, Mourned, Inv, Shape, c
<1>11. NoFather'
  BY <1>9, <1>10 DEF NoFather, Children, Linked
<1>12. Tree!Handed(to, c)
  <2>1. [q \in Task |-> ChildList(kin', q)] = Tree!First(to, c)
    BY <1>1, <1>7, TreeFirst
  <2>2. kin.p_opptr[c] # NULL
    BY <1>1, TaskCount
  <2> QED BY <1>1, <1>9, <2>1, <2>2 DEF Tree!Handed, Tree!Exists
<1> QED BY <1>1, <1>5, <1>11, <1>12

\* release_task: a process without children disappears.
LEMMA ReleaseIsBuried ==
    ASSUME Uniprocessor, Inv, NoFather, NEW p \in Task, release_task(p)
    PROVE  NoFather' /\ \E c \in Task : Tree!Buried(c)
<1> DEFINE z == arg[p]
<1>1. /\ at[p] = "reap" /\ CpuFree /\ kin' = Released(kin, z)
      /\ at' = [at EXCEPT ![p] = "user", ![z] = "free"]
  BY DEF release_task, Runs
<1>2. z \in Children /\ at[z] = "dead" /\ kin.p_pptr[z] = p
  BY <1>1 DEF Inv, Reaping
<1> HIDE DEF z
<1>3. kin \in Kin /\ Children \in SUBSET Task /\ InOrder(kin, Children, Mourners)
  BY OrderOfInv
<1>4. z \in Task /\ kin.p_pptr[z] \notin Mourners /\ at \in [Task -> Places]
  BY <1>1, <1>2, <1>3 DEF Mourners, Inv, Shape
<1>5. /\ kin'.p_opptr = SetIf(kin.p_opptr, z, NULL)
      /\ \A q \in Task : ChildList(kin', q) = RemoveFirst(ChildList(kin, q), z)
  BY <1>1, <1>2, <1>3, <1>4, ReleasedLists
<1>6. /\ kin'.p_opptr = [kin.p_opptr EXCEPT ![z] = NULL]
      /\ \A q \in Task : kin'.p_opptr[q] = IF q = z THEN NULL ELSE kin.p_opptr[q]
  BY <1>3, <1>4, <1>5 DEF SetIf, Kin
<1>7. \A q \in Task : kin.p_opptr[q] # z
  <2> SUFFICES ASSUME NEW q \in Task, kin.p_opptr[q] = z PROVE FALSE
    OBVIOUS
  <2>1. q \in Children
    BY <1>4, TaskCount DEF NoFather
  <2> QED BY <1>2, <2>1, ParentsAreTasks DEF Inv, FamilyInOrder, Gone
<1>8. ChildList(kin, z) = << >>
  <2>1. ASSUME NEW q \in Children, kin.p_pptr[q] = z PROVE FALSE
    <3>1. kin.p_opptr[q] = z
      BY <1>2, <2>1 DEF Inv, FamilyInOrder, SameParents
    <3> QED BY <1>3, <1>7, <3>1
  <2> DEFINE s == ChildList(kin, z)
  <2>2. s \in Seq(Task) /\ \A q : ~OnList(s, q)
    BY <1>3, <1>4, <2>1, ListFacts
  <2> HIDE DEF s
  <2>3. s = << >>
    BY <2>2, NothingOnIt
  <2> QED BY <2>3 DEF s
<1>9. NoFather'
  <2>1. \A q \in Task : q \notin Children' => q = z \/ q \notin Children
    BY <1>1, <1>4 DEF Children, Linked
  <2> QED BY <1>6, <2>1, NoFatherKept
<1>10. Tree!Buried(z)
  <2>1. kin.p_opptr[z] # NULL
    BY <1>2, ParentsAreTasks, TaskCount DEF Inv, FamilyInOrder
  <2>2. [q \in Task |-> ChildList(kin', q)] = Tree!Dropped(z)
    BY <1>5, TreeDropped
  <2> QED BY <1>4, <1>6, <1>7, <1>8, <2>1, <2>2 DEF Tree!Buried, Tree!Exists
<1> QED BY <1>4, <1>9, <1>10

\* A linked process z becomes the youngest child of a, which does not descend from it.
LEMMA RelinkIsAdopt ==
    ASSUME Inv, NoFather, NEW z \in Children, kin.p_pptr[z] \notin Mourners, NEW a \in Task,
           kin' = Relink(kin, z, a, a), \A q \in Task : at'[q] = "free" <=> at[q] = "free",
           \E S \in SUBSET Task : a \in S /\ UpClosed(kin, S) /\ z \notin S
    PROVE  NoFather' /\ Tree!Adopt(a, z)
<1>1. kin \in Kin /\ Children \in SUBSET Task /\ InOrder(kin, Children, Mourners) /\ z \in Task
  BY OrderOfInv
<1>2. kin' \in Kin
  BY <1>1, RelinkOrder
<1>3. \A q \in Task : kin'.p_opptr[q] = IF q = z THEN a ELSE kin.p_opptr[q]
  BY <1>1, RelinkFacts
<1>4. \A q \in Task : ChildList(kin', q) = FirstOn(a, z, q, RemoveFirst(ChildList(kin, q), z))
  BY <1>1, RelinkLists
<1>5. NoFather'
  BY <1>3 DEF NoFather, Children, Linked
<1>6. Tree!Adopt(a, z)
  <2>1. kin'.p_opptr = [kin.p_opptr EXCEPT ![z] = a]
    BY <1>1, <1>2, <1>3, OneFather
  <2>2. [q \in Task |-> ChildList(kin', q)] = Tree!First(a, z)
    BY <1>4, TreeFirst
  <2>3. kin.p_opptr[z] # NULL
    BY ParentsAreTasks, TaskCount DEF Inv, FamilyInOrder
  <2> QED BY <2>1, <2>2, <2>3 DEF Tree!Adopt, Tree!Exists, Tree!Lineage, UpClosed
<1> QED BY <1>5, <1>6

\* Every step of the processes is a step of FamilyTree, or changes no list and no father.
LEMMA TreeStep ==
    ASSUME Uniprocessor
    PROVE  Inv /\ NoFather /\ [Next]_vars => NoFather' /\ [Tree!TreeNext]_TreeVars
<1> SUFFICES ASSUME Inv, NoFather, [Next]_vars PROVE NoFather' /\ [Tree!TreeNext]_TreeVars
  OBVIOUS
<1>1. at \in [Task -> Places]
  BY DEF Inv, Shape
<1>2. ASSUME kin' = kin, \A q \in Task : at'[q] = "free" <=> at[q] = "free"
      PROVE  NoFather' /\ [Tree!TreeNext]_TreeVars
  BY <1>2 DEF NoFather, Children, Linked, TreeVars
<1>3. ASSUME kin' = kin, NEW p \in Task, at[p] # "free", at'[p] # "free",
             \A q \in Task \ {p} : at'[q] = at[q]
      PROVE  NoFather' /\ [Tree!TreeNext]_TreeVars
  BY <1>2, <1>3
<1>4. CASE UNCHANGED vars
  BY <1>2, <1>4 DEF vars
<1>5. CASE Next
  <2>1. PICK p \in Task : Step(p)
    BY <1>5 DEF Next
  <2>2. CASE \E c \in Task, clone_parent \in BOOLEAN : do_fork(p, c, clone_parent)
    <3>1. PICK c \in Task, clone_parent \in BOOLEAN : do_fork(p, c, clone_parent)
      BY <2>2
    <3>2. NoFather' /\ \E f \in Task : Tree!Born(f, f, c)
      BY <3>1, ForkIsBorn
    <3> QED BY <3>2 DEF Tree!TreeNext
  <2>3. CASE forget_original_parent(p)
    BY <2>3, ForgetIsLeave DEF Tree!TreeNext
  <2>4. CASE KernelStep(p)
    <3>1. CASE exit_notify(p)
      <4> DEFINE b == [at EXCEPT ![p] = "mourn"]
      <4>1. kin' = kin /\ at' = Notified(b, kin.p_pptr[p]) /\ at[p] = "orphan"
        BY <3>1 DEF exit_notify
      <4>2. /\ b \in [Task -> Places] /\ b[p] = "mourn"
            /\ \A q \in Task \ {p} : b[q] = at[q]
        BY <1>1 DEF Places
      <4>3. p \in Children
        BY <4>1, ChildrenFacts DEF Inv, FamilyInOrder, InitStays, Gone
      <4>4. kin.p_pptr[p] \in Task
        BY <4>3, ParentsAreTasks DEF Inv, FamilyInOrder
      <4> HIDE DEF b
      <4>5. \A q \in Task : at'[q] = IF q = kin.p_pptr[p] /\ b[q] = "asleep" THEN "woken" ELSE b[q]
        BY <4>1, <4>2, <4>4, NotifiedFacts
      <4>6. \A q \in Task : at'[q] = "free" <=> at[q] = "free"
        BY <4>1, <4>2, <4>5
      <4> QED BY <1>2, <4>1, <4>6
    <3>2. CASE inherit_child(p)
      BY <3>2, InheritIsHanded DEF Tree!TreeNext
    <3>3. CASE exit_done(p)
      <4>1. /\ kin' = kin /\ at[p] = "mourn" /\ at'[p] = "dead"
            /\ \A q \in Task \ {p} : at'[q] = at[q]
        BY <1>1, <3>3 DEF exit_done
      <4> QED BY <1>3, <4>1
    <3>4. CASE attach_link(p)
      <4> DEFINE t == arg[p]
      <4>1. at[p] = "attach" /\ kin' = Relink(kin, t, p, p) /\ at' = [at EXCEPT ![p] = "user"]
        BY <3>4 DEF attach_link
      <4>2. t \in Children /\ \E S \in SUBSET Task : p \in S /\ UpClosed(kin, S) /\ t \notin S
        BY <4>1 DEF Inv, Attaching
      <4> HIDE DEF t
      <4>3. \A q \in Task : at'[q] = "free" <=> at[q] = "free"
        BY <1>1, <4>1
      <4>4. kin.p_pptr[t] \notin Mourners
        BY <4>1 DEF Inv, Alone, Mourners
      <4>5. NoFather' /\ Tree!Adopt(p, t)
        BY <4>1, <4>2, <4>3, <4>4, RelinkIsAdopt
      <4> QED BY <4>2, <4>5, ChildrenFacts DEF Tree!TreeNext
    <3> QED BY <2>4, <3>1, <3>2, <3>3, <3>4 DEF KernelStep
  <2>5. CASE Wait(p)
    <3>1. CASE release_task(p)
      BY <3>1, ReleaseIsBuried DEF Tree!TreeNext
    <3>2. CASE ~release_task(p)
      <4>1. /\ kin' = kin /\ at[p] # "free" /\ at'[p] # "free"
            /\ \A q \in Task \ {p} : at'[q] = at[q]
        BY <1>1, <2>5, <3>2, NoForeignZombie
           DEF Wait, sys_wait4, repeat, Search, Runs, signal, wait_fault
      <4> QED BY <1>3, <4>1
    <3> QED BY <3>1, <3>2
  <2>6. CASE Attach(p)
    <3>1. /\ kin' = kin /\ at[p] # "free" /\ at'[p] # "free"
          /\ \A q \in Task \ {p} : at'[q] = at[q]
      BY <1>1, <2>6 DEF Attach, attach_check, sys_get_child_processes, collect_pids
    <3> QED BY <1>3, <3>1
  <2>7. CASE Other(p)
    <3>1. CASE reparent_to_init(p)
      <4>1. /\ at[p] = "user" /\ CpuFree /\ p \in KernelThreads
            /\ kin' = Relink(kin, p, Init1, Init1) /\ at' = at
        BY <3>1 DEF reparent_to_init, Runs
      <4>2. p \in Children /\ Init1 \in Task /\ p # Init1
        BY <4>1, ChildrenFacts, FamilyAssumption
      <4>3. kin.p_pptr[p] \notin Mourners
        BY <4>1, CpuFreeFacts DEF Mourners, Uniprocessor
      <4>4. {Init1} \in SUBSET Task /\ UpClosed(kin, {Init1}) /\ p \notin {Init1}
        BY <4>2, ChildrenFacts DEF NoFather, UpClosed
      <4>5. NoFather' /\ Tree!Adopt(Init1, p)
        BY <4>1, <4>2, <4>3, <4>4, RelinkIsAdopt
      <4> QED BY <4>2, <4>5 DEF Tree!TreeNext
    <3>2. CASE \E u \in Euids : setuid(p, u)
      BY <1>2, <3>2 DEF setuid
    <3> QED BY <2>7, <3>1, <3>2, NoForeignZombie DEF Other
  <2> QED BY <2>1, <2>2, <2>3, <2>4, <2>5, <2>6, <2>7 DEF Step
<1> QED BY <1>4, <1>5

\* At boot nobody has a father or a child.
LEMMA TreeStart == Init => NoFather /\ Tree!TreeInit
<1> SUFFICES ASSUME Init PROVE NoFather /\ Tree!TreeInit
  OBVIOUS
<1>1. kin.p_opptr = [q \in Task |-> NULL]
  BY DEF Init, NoKin
<1>2. Children = {}
  BY DEF Init, Children, Linked
<1>3. kin \in Kin /\ InOrder(kin, Children, Mourners)
  BY InvInit, OrderOfInv
<1>4. ASSUME NEW q \in Task PROVE ChildList(kin, q) = << >>
  <2> DEFINE s == ChildList(kin, q)
  <2>1. s \in Seq(Task) /\ \A c : OnList(s, c) => c \in Children
    BY <1>2, <1>3, ListFacts
  <2> HIDE DEF s
  <2>2. s = << >>
    <3>1. \A c : ~OnList(s, c)
      BY <1>2, <2>1
    <3> QED BY <2>1, <3>1, NothingOnIt
  <2> QED BY <2>2 DEF s
<1>5. Tree!TreeInit
  BY <1>1, <1>4 DEF Tree!TreeInit
<1> QED BY <1>1, <1>5 DEF NoFather

\* REMOVE_LINKS, SET_LINKS, forget_original_parent, exit_notify's own relinking and
\* release_task do with five pointers per process what FamilyTree says of one father
\* and one list of children per process.
THEOREM PointersImplementTree ==
    ASSUME Uniprocessor
    PROVE  Spec => ImplementsTree
<1>1. Init => NoFather /\ Tree!TreeInit
  BY TreeStart
<1>2. Inv /\ NoFather /\ [Next]_vars => NoFather' /\ [Tree!TreeNext]_TreeVars
  BY TreeStep
<1> QED BY <1>1, <1>2, InvHolds, PTL DEF Spec, ImplementsTree, Tree!TreeSpec, TreeVars
=============================================================================
