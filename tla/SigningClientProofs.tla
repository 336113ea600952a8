------------------------ MODULE SigningClientProofs ------------------------
(***************************************************************************)
(* The chat delegate and what the web client has it sign, for any origins, *)
(* keys, boards and values, and any number of migrations, records and      *)
(* faults.                                                                 *)
(***************************************************************************)
EXTENDS SigningClient, SequenceTheorems, TLAPS

(***************************************************************************)
(* The chat delegate implements OriginStore.  The argument is that no two  *)
(* names of the flat store coincide; every handler then changes what the   *)
(* refinement mapping reads of one origin and one key, and nothing else.   *)
(***************************************************************************)

(* What the mapping reads of the flat store. *)
Value(o, k) == secrets[OriginKey(o, k)]
Signing(o, b) == secrets[SigningKeyName(o, b)]
Unsettled(o) == {k \in Keys : (k \in KeyIndex(o)) # (Value(o, k) # None)}

(* What a step does to them. *)
ValueBecomes(o, k, x) ==
    /\ Value(o, k)' = x
    /\ \A p \in Origins, l \in Keys : ~(p = o /\ l = k) => Value(p, l)' = Value(p, l)
IndexBecomes(o, I) ==
    /\ KeyIndex(o)' = I
    /\ \A p \in Origins : p # o => KeyIndex(p)' = KeyIndex(p)
SigningBecomes(o, b, sk) ==
    /\ Signing(o, b)' = sk
    /\ \A p \in Origins, c \in Boards :
            ~(p = o /\ c = b) => Signing(p, c)' = Signing(p, c)
ValuesKept == \A p \in Origins, l \in Keys : Value(p, l)' = Value(p, l)
IndicesKept == \A p \in Origins : KeyIndex(p)' = KeyIndex(p)
SigningKept == \A p \in Origins, b \in Boards : Signing(p, b)' = Signing(p, b)

(* The variables of OriginStore under the mapping. *)
Stored == [o \in Origins |-> [k \in Keys |-> Value(o, k)]]
UnsettledKeys == [o \in Origins |-> Unsettled(o)]
Signings == [o \in Origins |-> [b \in Boards |-> Signing(o, b)]]

(* The names of values, indices and signing keys are different names. *)
LEMMA NamesApart ==
    ASSUME NEW o \in Origins, NEW p \in Origins
    PROVE  /\ \A k \in Keys : OriginKey(o, k) \in Names
           /\ IndexKey(o) \in Names
           /\ \A b \in Boards : SigningKeyName(o, b) \in Names
           /\ \A k, l \in Keys : OriginKey(o, k) = OriginKey(p, l) => o = p /\ k = l
           /\ \A k \in Keys : OriginKey(o, k) # IndexKey(p)
           /\ IndexKey(o) = IndexKey(p) => o = p
           /\ \A k \in Keys, b \in Boards : OriginKey(o, k) # SigningKeyName(p, b)
           /\ \A b \in Boards : IndexKey(o) # SigningKeyName(p, b)
           /\ \A b, c \in Boards :
                SigningKeyName(o, b) = SigningKeyName(p, c) => o = p /\ b = c
  <1>1. \A k \in Keys : TextOf[k] \in Texts  BY TextOfAssumption
  <1>2. \A k \in Keys : OriginKey(o, k) \in Names  BY <1>1 DEF OriginKey, Names
  <1>3. IndexKey(o) \in Names  BY SuffixAssumption DEF IndexKey, Names
  <1>4. \A b \in Boards : SigningKeyName(o, b) \in Names  BY DEF SigningKeyName, Names
  <1>5. \A k, l \in Keys : OriginKey(o, k) = OriginKey(p, l) => o = p /\ k = l
    BY DistinctTexts DEF OriginKey
  <1>6. \A k \in Keys : OriginKey(o, k) # IndexKey(p)
    BY DistinctTexts DEF OriginKey, IndexKey
  <1>7. IndexKey(o) = IndexKey(p) => o = p  BY DEF IndexKey
  <1>8. \A k \in Keys, b \in Boards : OriginKey(o, k) # SigningKeyName(p, b)
    BY PrefixAssumption DEF OriginKey, SigningKeyName
  <1>9. \A b \in Boards : IndexKey(o) # SigningKeyName(p, b)
    BY PrefixAssumption DEF IndexKey, SigningKeyName
  <1>10. \A b, c \in Boards : SigningKeyName(o, b) = SigningKeyName(p, c) => o = p /\ b = c
    BY DEF SigningKeyName
  <1> QED  BY <1>2, <1>3, <1>4, <1>5, <1>6, <1>7, <1>8, <1>9, <1>10

---------------------------------------------------------------------------

(* What the parts of TypeOK say of a state or of the next one. *)
LEMMA TypeParts ==
    ASSUME TypeOK
    PROVE  /\ \A o \in Origins : KeyIndex(o) \in SUBSET Keys
           /\ \A o \in Origins, k \in Keys : Value(o, k) \in Values \cup {None}
           /\ \A o \in Origins, b \in Boards : Signing(o, b) \in SigningKeys \cup {None}
  BY DEF TypeOK, KeyIndex, IndexIn, KeyIndices, Value, Signing

(* A handler that writes one value changes that value only. *)
LEMMA ValueWritten ==
    ASSUME TypeOK, NEW o \in Origins, NEW k \in Keys, NEW x \in Values \cup {None},
           secrets' = [secrets EXCEPT ![OriginKey(o, k)] = x]
    PROVE  /\ TypeOK'
           /\ ValueBecomes(o, k, x)
           /\ IndicesKept
           /\ SigningKept
  <1>1. secrets \in [Names -> Secrets]  BY DEF TypeOK
  <1>2. OriginKey(o, k) \in Names /\ x \in Secrets  BY NamesApart DEF Secrets
  <1>3. secrets' \in [Names -> Secrets]  BY <1>1, <1>2
  <1>4. \A n \in Names : n # OriginKey(o, k) => secrets'[n] = secrets[n]  BY <1>1
  <1>5. secrets'[OriginKey(o, k)] = x  BY <1>1, <1>2
  <1>6. \A p \in Origins, l \in Keys :
            secrets'[OriginKey(p, l)] = IF p = o /\ l = k THEN x ELSE secrets[OriginKey(p, l)]
    BY <1>4, <1>5, NamesApart
  <1>7. \A p \in Origins : secrets'[IndexKey(p)] = secrets[IndexKey(p)]
    BY <1>4, NamesApart
  <1>8. \A p \in Origins, b \in Boards :
            secrets'[SigningKeyName(p, b)] = secrets[SigningKeyName(p, b)]
    BY <1>4, NamesApart
  <1>9. TypeOK'  BY <1>3, <1>6, <1>7, <1>8 DEF TypeOK
  <1>10. ValueBecomes(o, k, x)  BY <1>6 DEF ValueBecomes, Value
  <1>11. IndicesKept  BY <1>7 DEF IndicesKept, KeyIndex, IndexIn
  <1>12. SigningKept  BY <1>8 DEF SigningKept, Signing
  <1> QED  BY <1>9, <1>10, <1>11, <1>12

(* A handler that writes a value and then the index changes just these. *)
LEMMA ValueAndIndexWritten ==
    ASSUME TypeOK, NEW o \in Origins, NEW k \in Keys, NEW x \in Values \cup {None},
           NEW I \in SUBSET Keys,
           secrets' = [[secrets EXCEPT ![OriginKey(o, k)] = x]
                            EXCEPT ![IndexKey(o)] = [keys |-> I]]
    PROVE  /\ TypeOK'
           /\ ValueBecomes(o, k, x)
           /\ IndexBecomes(o, I)
           /\ SigningKept
  <1> DEFINE written == [secrets EXCEPT ![OriginKey(o, k)] = x]
             index == [keys |-> I]
  <1>1. secrets \in [Names -> Secrets]  BY DEF TypeOK
  <1>2. OriginKey(o, k) \in Names /\ IndexKey(o) \in Names  BY NamesApart
  <1>3. x \in Secrets /\ index \in KeyIndices /\ index \in Secrets
    BY DEF Secrets, KeyIndices
  <1>4. written \in [Names -> Secrets]  BY <1>1, <1>2, <1>3
  <1>5. /\ \A n \in Names : n # OriginKey(o, k) => written[n] = secrets[n]
        /\ written[OriginKey(o, k)] = x
    BY <1>1, <1>2
  <1>6. secrets' = [written EXCEPT ![IndexKey(o)] = index]  OBVIOUS
  <1> HIDE DEF written, index
  <1>7. secrets' \in [Names -> Secrets]  BY <1>2, <1>3, <1>4, <1>6
  <1>8. /\ \A n \in Names : n # IndexKey(o) => secrets'[n] = written[n]
        /\ secrets'[IndexKey(o)] = index
    BY <1>2, <1>4, <1>6
  <1>names. /\ \A p \in Origins, l \in Keys :
                 /\ OriginKey(p, l) \in Names
                 /\ OriginKey(p, l) # IndexKey(o)
                 /\ OriginKey(p, l) = OriginKey(o, k) => p = o /\ l = k
            /\ \A p \in Origins :
                 /\ IndexKey(p) \in Names
                 /\ IndexKey(p) # OriginKey(o, k)
                 /\ IndexKey(p) = IndexKey(o) => p = o
            /\ \A p \in Origins, b \in Boards :
                 /\ SigningKeyName(p, b) \in Names
                 /\ SigningKeyName(p, b) # IndexKey(o)
                 /\ SigningKeyName(p, b) # OriginKey(o, k)
    BY NamesApart
  <1>9. \A p \in Origins, l \in Keys :
            secrets'[OriginKey(p, l)] = IF p = o /\ l = k THEN x ELSE secrets[OriginKey(p, l)]
    BY <1>5, <1>8, <1>names
  <1>10. \A p \in Origins :
            p # o => secrets'[IndexKey(p)] = secrets[IndexKey(p)]
    BY <1>5, <1>8, <1>names
  <1>11. \A p \in Origins, b \in Boards :
            secrets'[SigningKeyName(p, b)] = secrets[SigningKeyName(p, b)]
    BY <1>5, <1>8, <1>names
  <1>12. TypeOK'
    <2>1. \A p \in Origins : secrets'[IndexKey(p)] \in KeyIndices \cup {None}
      BY <1>3, <1>8, <1>10 DEF TypeOK
    <2>2. \A p \in Origins, l \in Keys : secrets'[OriginKey(p, l)] \in Values \cup {None}
      <3>1. \A p \in Origins, l \in Keys : secrets[OriginKey(p, l)] \in Values \cup {None}
        BY DEF TypeOK
      <3> SUFFICES ASSUME NEW p \in Origins, NEW l \in Keys
                   PROVE  secrets'[OriginKey(p, l)] \in Values \cup {None}
        OBVIOUS
      <3>2. CASE p = o /\ l = k  BY <1>9, <3>2
      <3>3. CASE ~(p = o /\ l = k)  BY <1>9, <3>1, <3>3
      <3> QED  BY <3>2, <3>3
    <2>3. \A p \in Origins, b \in Boards :
            secrets'[SigningKeyName(p, b)] \in SigningKeys \cup {None}
      BY <1>11 DEF TypeOK
    <2> QED  BY <1>7, <2>1, <2>2, <2>3 DEF TypeOK
  <1>13. index.keys = I  BY DEF index
  <1>14. IndexBecomes(o, I)
    <2>1. KeyIndex(o)' = index.keys  BY <1>3, <1>8 DEF KeyIndex, IndexIn
    <2>2. ASSUME NEW p \in Origins, p # o  PROVE KeyIndex(p)' = KeyIndex(p)
      <3>1. secrets'[IndexKey(p)] = secrets[IndexKey(p)]  BY <1>10, <2>2
      <3> QED  BY <3>1 DEF KeyIndex, IndexIn
    <2> QED  BY <1>13, <2>1, <2>2 DEF IndexBecomes
  <1>15. ValueBecomes(o, k, x)  BY <1>9 DEF ValueBecomes, Value
  <1>16. SigningKept  BY <1>11 DEF SigningKept, Signing
  <1> QED  BY <1>12, <1>14, <1>15, <1>16

(* Storing a signing key changes that signing key only. *)
LEMMA SigningKeyWritten ==
    ASSUME TypeOK, NEW o \in Origins, NEW b \in Boards, NEW sk \in SigningKeys,
           secrets' = [secrets EXCEPT ![SigningKeyName(o, b)] = sk]
    PROVE  /\ TypeOK'
           /\ ValuesKept
           /\ IndicesKept
           /\ SigningBecomes(o, b, sk)
  <1>1. secrets \in [Names -> Secrets]  BY DEF TypeOK
  <1>2. SigningKeyName(o, b) \in Names /\ sk \in Secrets  BY NamesApart DEF Secrets
  <1>3. secrets' \in [Names -> Secrets]  BY <1>1, <1>2
  <1>4. \A n \in Names : n # SigningKeyName(o, b) => secrets'[n] = secrets[n]  BY <1>1
  <1>5. secrets'[SigningKeyName(o, b)] = sk  BY <1>1, <1>2
  <1>6. \A p \in Origins, l \in Keys : secrets'[OriginKey(p, l)] = secrets[OriginKey(p, l)]
    BY <1>4, NamesApart
  <1>7. \A p \in Origins : secrets'[IndexKey(p)] = secrets[IndexKey(p)]
    BY <1>4, NamesApart
  <1>8. \A p \in Origins, c \in Boards :
            secrets'[SigningKeyName(p, c)] =
                IF p = o /\ c = b THEN sk ELSE secrets[SigningKeyName(p, c)]
    BY <1>4, <1>5, NamesApart
  <1>9. TypeOK'  BY <1>3, <1>6, <1>7, <1>8 DEF TypeOK
  <1>10. ValuesKept  BY <1>6 DEF ValuesKept, Value
  <1>11. IndicesKept  BY <1>7 DEF IndicesKept, KeyIndex, IndexIn
  <1>12. SigningBecomes(o, b, sk)  BY <1>8 DEF SigningBecomes, Signing
  <1> QED  BY <1>9, <1>10, <1>11, <1>12

---------------------------------------------------------------------------

(* Requests that write, in terms of the three lemmas above. *)
LEMMA IndexKept ==
    ASSUME TypeOK, NEW o \in Origins, NEW k \in Keys, NEW x
    PROVE  IndexIn([secrets EXCEPT ![OriginKey(o, k)] = x], o) = KeyIndex(o)
  <1>1. [secrets EXCEPT ![OriginKey(o, k)] = x][IndexKey(o)] = secrets[IndexKey(o)]
    BY NamesApart DEF TypeOK
  <1> QED  BY <1>1 DEF IndexIn, KeyIndex

LEMMA StoreEffect ==
    ASSUME TypeOK, NEW o \in Origins, NEW k \in Keys, NEW v \in Values, StoreRequest(o, k, v)
    PROVE  /\ TypeOK'
           /\ ValueBecomes(o, k, v)
           /\ IndexBecomes(o, KeyIndex(o) \cup {k})
           /\ SigningKept
  <1> DEFINE written == [secrets EXCEPT ![OriginKey(o, k)] = v]
  <1>1. IndexIn(written, o) = KeyIndex(o)  BY IndexKept
  <1>2. KeyIndex(o) \in SUBSET Keys  BY TypeParts
  <1>3. secrets' = IF k \in KeyIndex(o) THEN written
                   ELSE [written EXCEPT ![IndexKey(o)] = [keys |-> KeyIndex(o) \cup {k}]]
    BY <1>1 DEF StoreRequest
  <1>4. CASE k \in KeyIndex(o)
    <2>1. secrets' = written  BY <1>3, <1>4
    <2>2. KeyIndex(o) \cup {k} = KeyIndex(o)  BY <1>4
    <2>3. /\ TypeOK'
          /\ ValueBecomes(o, k, v)
          /\ IndicesKept
          /\ SigningKept
      BY <2>1, ValueWritten
    <2>4. IndexBecomes(o, KeyIndex(o) \cup {k})
      BY <2>2, <2>3 DEF IndicesKept, IndexBecomes
    <2> QED  BY <2>3, <2>4
  <1>5. CASE k \notin KeyIndex(o)
    <2>1. secrets' = [written EXCEPT ![IndexKey(o)] = [keys |-> KeyIndex(o) \cup {k}]]
      BY <1>3, <1>5
    <2>2. KeyIndex(o) \cup {k} \in SUBSET Keys  BY <1>2
    <2> QED  BY <2>1, <2>2, ValueAndIndexWritten
  <1> QED  BY <1>4, <1>5

LEMMA DeleteEffect ==
    ASSUME TypeOK, NEW o \in Origins, NEW k \in Keys, DeleteRequest(o, k)
    PROVE  /\ TypeOK'
           /\ ValueBecomes(o, k, None)
           /\ IndexBecomes(o, KeyIndex(o) \ {k})
           /\ SigningKept
  <1> DEFINE written == [secrets EXCEPT ![OriginKey(o, k)] = None]
  <1>1. IndexIn(written, o) = KeyIndex(o)  BY IndexKept
  <1>2. KeyIndex(o) \ {k} \in SUBSET Keys  BY TypeParts
  <1>3. secrets' = [written EXCEPT ![IndexKey(o)] = [keys |-> KeyIndex(o) \ {k}]]
    BY <1>1 DEF DeleteRequest
  <1> QED  BY <1>2, <1>3, ValueAndIndexWritten

LEMMA InitTypes == Init => TypeOK
  <1> SUFFICES ASSUME Init PROVE TypeOK  OBVIOUS
  <1>1. secrets = [n \in Names |-> None]  BY DEF Init
  <1>2. secrets \in [Names -> Secrets]  BY <1>1 DEF Secrets
  <1>3. \A n \in Names : secrets[n] = None  BY <1>1
  <1> QED  BY <1>2, <1>3, NamesApart DEF TypeOK

LEMMA NextTypes == TypeOK /\ [Next]_vars => TypeOK'
  <1> SUFFICES ASSUME TypeOK, [Next]_vars PROVE TypeOK'  OBVIOUS
  <1>1. ASSUME NEW o \in Origins, NEW k \in Keys, NEW v \in Values, StoreRequest(o, k, v)
        PROVE  TypeOK'
    BY <1>1, StoreEffect
  <1>2. ASSUME NEW o \in Origins, NEW k \in Keys, NEW v \in Values,
               StoreRequestInterrupted(o, k, v)
        PROVE  TypeOK'
    BY <1>2, ValueWritten DEF StoreRequestInterrupted
  <1>3. ASSUME NEW o \in Origins, NEW k \in Keys, DeleteRequest(o, k)
        PROVE  TypeOK'
    BY <1>3, DeleteEffect
  <1>4. ASSUME NEW o \in Origins, NEW k \in Keys, DeleteRequestInterrupted(o, k)
        PROVE  TypeOK'
    BY <1>4, ValueWritten DEF DeleteRequestInterrupted
  <1>5. ASSUME NEW o \in Origins, NEW b \in Boards, NEW sk \in SigningKeys,
               StoreSigningKey(o, b, sk)
        PROVE  TypeOK'
    BY <1>5, SigningKeyWritten DEF StoreSigningKey
  <1>6. CASE UNCHANGED secrets  BY <1>6 DEF TypeOK
  <1>7. CASE UNCHANGED vars  BY <1>6, <1>7 DEF vars
  <1>8. CASE Next
    BY <1>1, <1>2, <1>3, <1>4, <1>5, <1>6, <1>8
    DEF Next, GetRequest, ListRequest, GetPublicKey, Sign, Refuse
  <1> QED  BY <1>7, <1>8

(* The names of the host's store never mix up what lies under them. *)
THEOREM DelegateTypes == Spec => []TypeOK
  BY InitTypes, NextTypes, PTL DEF Spec

---------------------------------------------------------------------------

(* Pointwise changes as changes of the mapped variables. *)
LEMMA StoredChanged ==
    ASSUME NEW o \in Origins, NEW k \in Keys, NEW x, ValueBecomes(o, k, x)
    PROVE  Stored' = [Stored EXCEPT ![o][k] = x]
  <1>1. [Stored EXCEPT ![o][k] = x] =
            [p \in Origins |-> [l \in Keys |-> IF p = o /\ l = k THEN x ELSE Value(p, l)]]
    BY DEF Stored
  <1>2. Stored' = [p \in Origins |-> [l \in Keys |-> Value(p, l)']]  BY DEF Stored
  <1> QED  BY <1>1, <1>2 DEF ValueBecomes

LEMMA SigningsChanged ==
    ASSUME NEW o \in Origins, NEW b \in Boards, NEW sk, SigningBecomes(o, b, sk)
    PROVE  Signings' = [Signings EXCEPT ![o][b] = sk]
  <1>1. [Signings EXCEPT ![o][b] = sk] =
            [p \in Origins |-> [c \in Boards |-> IF p = o /\ c = b THEN sk ELSE Signing(p, c)]]
    BY DEF Signings
  <1>2. Signings' = [p \in Origins |-> [c \in Boards |-> Signing(p, c)']]  BY DEF Signings
  <1> QED  BY <1>1, <1>2 DEF SigningBecomes

LEMMA Unchanged ==
    /\ ValuesKept => Stored' = Stored
    /\ SigningKept => Signings' = Signings
    /\ ValuesKept /\ IndicesKept => UnsettledKeys' = UnsettledKeys
  BY DEF Stored, Signings, UnsettledKeys, Unsettled, ValuesKept, IndicesKept, SigningKept

(* A request that settles key k of origin o. *)
LEMMA UnsettledChanged ==
    ASSUME NEW o \in Origins, NEW k \in Keys, NEW x, NEW I,
           ValueBecomes(o, k, x), IndexBecomes(o, I),
           (k \in I) = (x # None),
           \A l \in Keys : l # k => (l \in I <=> l \in KeyIndex(o))
    PROVE  UnsettledKeys' = [UnsettledKeys EXCEPT ![o] = @ \ {k}]
  <1>1. \A p \in Origins : p # o => Unsettled(p)' = Unsettled(p)
    BY DEF ValueBecomes, IndexBecomes, Unsettled
  <1>2. Unsettled(o)' = Unsettled(o) \ {k}
    <2>1. \A l \in Keys : l # k => (l \in Unsettled(o)' <=> l \in Unsettled(o))
      BY DEF ValueBecomes, IndexBecomes, Unsettled
    <2>2. k \notin Unsettled(o)'  BY DEF ValueBecomes, IndexBecomes, Unsettled
    <2>3. Unsettled(o)' \subseteq Keys /\ Unsettled(o) \subseteq Keys  BY DEF Unsettled
    <2> QED  BY <2>1, <2>2, <2>3
  <1> QED  BY <1>1, <1>2 DEF UnsettledKeys

---------------------------------------------------------------------------

(* Every request does to the mapped variables what OriginStore says. *)
LEMMA StoreMaps ==
    ASSUME TypeOK, NEW o \in Origins, NEW k \in Keys, NEW v \in Values, StoreRequest(o, k, v)
    PROVE  Promise!Store(o, k, v)
  <1>1. /\ ValueBecomes(o, k, v)
        /\ IndexBecomes(o, KeyIndex(o) \cup {k})
        /\ SigningKept
    BY StoreEffect
  <1>2. Stored' = [Stored EXCEPT ![o][k] = v]  BY <1>1, StoredChanged
  <1>3. Signings' = Signings  BY <1>1, Unchanged
  <1>4. (k \in KeyIndex(o) \cup {k}) = (v # None)  BY NoneAssumption
  <1>5. UnsettledKeys' = [UnsettledKeys EXCEPT ![o] = @ \ {k}]
    BY <1>1, <1>4, UnsettledChanged
  <1>6. answer' = [kind |-> "Store", origin |-> o, key |-> k]  BY DEF StoreRequest
  <1> QED
    BY <1>2, <1>3, <1>5, <1>6
    DEF Promise!Store, Stored, Signings, UnsettledKeys, Unsettled, Value, Signing

LEMMA DeleteMaps ==
    ASSUME TypeOK, NEW o \in Origins, NEW k \in Keys, DeleteRequest(o, k)
    PROVE  Promise!Delete(o, k)
  <1>1. /\ ValueBecomes(o, k, None)
        /\ IndexBecomes(o, KeyIndex(o) \ {k})
        /\ SigningKept
    BY DeleteEffect
  <1>2. Stored' = [Stored EXCEPT ![o][k] = None]  BY <1>1, StoredChanged
  <1>3. Signings' = Signings  BY <1>1, Unchanged
  <1>4. (k \in KeyIndex(o) \ {k}) = (None # None)  OBVIOUS
  <1>5. UnsettledKeys' = [UnsettledKeys EXCEPT ![o] = @ \ {k}]
    BY <1>1, <1>4, UnsettledChanged
  <1>6. answer' = [kind |-> "Delete", origin |-> o, key |-> k]  BY DEF DeleteRequest
  <1> QED
    BY <1>2, <1>3, <1>5, <1>6
    DEF Promise!Delete, Stored, Signings, UnsettledKeys, Unsettled, Value, Signing

(* A request the host interrupts leaves its key listed or not. *)
LEMMA InterruptedMaps ==
    ASSUME TypeOK, NEW o \in Origins, NEW k \in Keys, NEW x \in Values \cup {None},
           secrets' = [secrets EXCEPT ![OriginKey(o, k)] = x], answer' = Error
    PROVE  Promise!Interrupted(o, k, x)
  <1>1. /\ TypeOK'
        /\ ValueBecomes(o, k, x)
        /\ IndicesKept
        /\ SigningKept
    BY ValueWritten
  <1>2. Stored' = [Stored EXCEPT ![o][k] = x]  BY <1>1, StoredChanged
  <1>3. Signings' = Signings  BY <1>1, Unchanged
  <1>4. Unsettled(o)' \in {Unsettled(o) \cup {k}, Unsettled(o) \ {k}}
    <2>1. \A l \in Keys : l # k => (l \in Unsettled(o)' <=> l \in Unsettled(o))
      BY <1>1 DEF Unsettled, ValueBecomes, IndicesKept
    <2>2. Unsettled(o)' \subseteq Keys /\ Unsettled(o) \subseteq Keys  BY DEF Unsettled
    <2>3. CASE k \in Unsettled(o)'
      <3>1. Unsettled(o)' = Unsettled(o) \cup {k}  BY <2>1, <2>2, <2>3
      <3> QED  BY <3>1
    <2>4. CASE k \notin Unsettled(o)'
      <3>1. Unsettled(o)' = Unsettled(o) \ {k}  BY <2>1, <2>2, <2>4
      <3> QED  BY <3>1
    <2> QED  BY <2>3, <2>4
  <1>5. \A p \in Origins : p # o => Unsettled(p)' = Unsettled(p)
    BY <1>1 DEF Unsettled, ValueBecomes, IndicesKept
  <1>6. UnsettledKeys' = [UnsettledKeys EXCEPT ![o] = Unsettled(o)']
    BY <1>5 DEF UnsettledKeys
  <1>7. UnsettledKeys[o] = Unsettled(o)  BY DEF UnsettledKeys
  <1>8. \E U \in {UnsettledKeys[o] \cup {k}, UnsettledKeys[o] \ {k}} :
            UnsettledKeys' = [UnsettledKeys EXCEPT ![o] = U]
    BY <1>4, <1>6, <1>7
  <1> QED
    BY <1>2, <1>3, <1>8
    DEF Promise!Interrupted, Promise!Error, Error, Stored, Signings, UnsettledKeys,
        Unsettled, Value, Signing

LEMMA StoreSigningKeyMaps ==
    ASSUME TypeOK, NEW o \in Origins, NEW b \in Boards, NEW sk \in SigningKeys,
           StoreSigningKey(o, b, sk)
    PROVE  Promise!StoreSigningKey(o, b, sk)
  <1>1. /\ TypeOK'
        /\ ValuesKept
        /\ IndicesKept
        /\ SigningBecomes(o, b, sk)
    <2>1. secrets' = [secrets EXCEPT ![SigningKeyName(o, b)] = sk]  BY DEF StoreSigningKey
    <2> QED  BY <2>1, SigningKeyWritten
  <1>2. Stored' = Stored  BY <1>1, Unchanged
  <1>3. UnsettledKeys' = UnsettledKeys  BY <1>1, Unchanged
  <1>4. Signings' = [Signings EXCEPT ![o][b] = sk]  BY <1>1, SigningsChanged
  <1>5. answer' = [kind |-> "StoreSigningKey", origin |-> o, board |-> b]
    BY DEF StoreSigningKey
  <1> QED
    BY <1>2, <1>3, <1>4, <1>5
    DEF Promise!StoreSigningKey, Stored, Signings, UnsettledKeys, Unsettled, Value, Signing

(* A request that writes nothing is answered from what its origin stored. *)
LEMMA ReadsMap ==
    ASSUME TypeOK, UNCHANGED secrets, NEW o \in Origins
    PROVE  /\ \A k \in Keys : GetRequest(o, k) => Promise!Get(o, k)
           /\ ListRequest(o) => Promise!List(o)
           /\ \A b \in Boards : GetPublicKey(o, b) => Promise!GetPublicKey(o, b)
           /\ \A b \in Boards : Sign(o, b) => Promise!Sign(o, b)
  <1>1. /\ Stored' = Stored
        /\ UnsettledKeys' = UnsettledKeys
        /\ Signings' = Signings
    BY DEF Stored, UnsettledKeys, Unsettled, Signings, Value, Signing, KeyIndex, IndexIn
  <1>2. Stored[o] = [k \in Keys |-> Value(o, k)]  BY DEF Stored
  <1>3. Signings[o] = [b \in Boards |-> Signing(o, b)]  BY DEF Signings
  <1>4. ASSUME NEW k \in Keys, GetRequest(o, k)  PROVE Promise!Get(o, k)
    <2>1. answer' = [kind |-> "Get", origin |-> o, key |-> k, value |-> Stored[o][k]]
      BY <1>2, <1>4 DEF GetRequest, Value
    <2> QED
      BY <1>1, <2>1
      DEF Promise!Get, Stored, Signings, UnsettledKeys, Unsettled, Value, Signing
  <1>5. ASSUME ListRequest(o)  PROVE Promise!List(o)
    <2>1. KeyIndex(o) \in SUBSET Keys  BY TypeParts
    <2>2. UnsettledKeys[o] = Unsettled(o)  BY DEF UnsettledKeys
    <2> DEFINE P == {k \in Keys : Stored[o][k] # None}
    <2>3. P \ UnsettledKeys[o] \subseteq KeyIndex(o)  BY <1>2, <2>2 DEF Unsettled
    <2>4. KeyIndex(o) \subseteq P \cup UnsettledKeys[o]  BY <1>2, <2>1, <2>2 DEF Unsettled
    <2>5. \E L \in SUBSET Keys :
            /\ P \ UnsettledKeys[o] \subseteq L
            /\ L \subseteq P \cup UnsettledKeys[o]
            /\ answer' = [kind |-> "List", origin |-> o, keys |-> L]
      BY <1>5, <2>1, <2>3, <2>4 DEF ListRequest
    <2> QED
      BY <1>1, <2>5
      DEF Promise!List, Promise!Present, Stored, Signings, UnsettledKeys, Unsettled,
          Value, Signing
  <1>6. ASSUME NEW b \in Boards, GetPublicKey(o, b)  PROVE Promise!GetPublicKey(o, b)
    <2>1. answer' = [kind |-> "PublicKey", origin |-> o, board |-> b,
                     signer |-> Signings[o][b]]
      BY <1>3, <1>6 DEF GetPublicKey, Signing
    <2> QED
      BY <1>1, <2>1
      DEF Promise!GetPublicKey, Stored, Signings, UnsettledKeys, Unsettled, Value, Signing
  <1>7. ASSUME NEW b \in Boards, Sign(o, b)  PROVE Promise!Sign(o, b)
    <2>1. answer' = [kind |-> "Sign", origin |-> o, board |-> b, signer |-> Signings[o][b]]
      BY <1>3, <1>7 DEF Sign, Signing
    <2> QED
      BY <1>1, <2>1
      DEF Promise!Sign, Stored, Signings, UnsettledKeys, Unsettled, Value, Signing
  <1> QED  BY <1>4, <1>5, <1>6, <1>7

---------------------------------------------------------------------------

(* Each application sees a store of its own: what it stored last, listed     *)
(* unless the host interrupted a write of that key, and signatures by the    *)
(* key it stored last.                                                       *)
THEOREM DelegateKeepsPromise == Spec => KeepsPromise
  <1>1. Init => Promise!Init
    <2> SUFFICES ASSUME Init PROVE Promise!Init  OBVIOUS
    <2>1. \A n \in Names : secrets[n] = None  BY DEF Init
    <2>2. \A o \in Origins, k \in Keys : Value(o, k) = None  BY <2>1, NamesApart DEF Value
    <2>3. \A o \in Origins, b \in Boards : Signing(o, b) = None
      BY <2>1, NamesApart DEF Signing
    <2>4. \A o \in Origins : secrets[IndexKey(o)] = None  BY <2>1, NamesApart
    <2>5. \A o \in Origins : KeyIndex(o) = {}  BY <2>4, NoneAssumption DEF KeyIndex, IndexIn
    <2>6. Stored = [o \in Origins |-> [k \in Keys |-> None]]  BY <2>2 DEF Stored
    <2>7. UnsettledKeys = [o \in Origins |-> {}]
      <3>1. \A o \in Origins : Unsettled(o) = {}  BY <2>2, <2>5 DEF Unsettled
      <3> QED  BY <3>1 DEF UnsettledKeys
    <2>8. Signings = [o \in Origins |-> [b \in Boards |-> None]]  BY <2>3 DEF Signings
    <2> QED
      BY <2>6, <2>7, <2>8
      DEF Init, Promise!Init, Error, Promise!Error, Stored, Signings, UnsettledKeys,
          Unsettled, Value, Signing
  <1>2. TypeOK /\ [Next]_vars => [Promise!Next]_(Promise!vars)
    <2> SUFFICES ASSUME TypeOK, [Next]_vars PROVE [Promise!Next]_(Promise!vars)  OBVIOUS
    <2>1. ASSUME NEW o \in Origins, NEW k \in Keys, NEW v \in Values, StoreRequest(o, k, v)
          PROVE  Promise!Next
      BY <2>1, StoreMaps DEF Promise!Next
    <2>2. ASSUME NEW o \in Origins, NEW k \in Keys, NEW v \in Values,
                 StoreRequestInterrupted(o, k, v)
          PROVE  Promise!Next
      <3>1. Promise!Interrupted(o, k, v)
        BY <2>2, InterruptedMaps DEF StoreRequestInterrupted
      <3> QED  BY <3>1 DEF Promise!Next
    <2>3. ASSUME NEW o \in Origins, NEW k \in Keys, DeleteRequest(o, k)
          PROVE  Promise!Next
      BY <2>3, DeleteMaps DEF Promise!Next
    <2>4. ASSUME NEW o \in Origins, NEW k \in Keys, DeleteRequestInterrupted(o, k)
          PROVE  Promise!Next
      <3>1. Promise!Interrupted(o, k, None)
        BY <2>4, InterruptedMaps DEF DeleteRequestInterrupted
      <3> QED  BY <3>1 DEF Promise!Next
    <2>5. ASSUME NEW o \in Origins, NEW b \in Boards, NEW sk \in SigningKeys,
                 StoreSigningKey(o, b, sk)
          PROVE  Promise!Next
      BY <2>5, StoreSigningKeyMaps DEF Promise!Next
    <2>6. ASSUME NEW o \in Origins, NEW k \in Keys, GetRequest(o, k)
          PROVE  Promise!Next
      <3>1. Promise!Get(o, k)  BY <2>6, ReadsMap DEF GetRequest
      <3> QED  BY <3>1 DEF Promise!Next
    <2>7. ASSUME NEW o \in Origins, ListRequest(o)
          PROVE  Promise!Next
      <3>1. Promise!List(o)  BY <2>7, ReadsMap DEF ListRequest
      <3> QED  BY <3>1 DEF Promise!Next
    <2>8. ASSUME NEW o \in Origins, NEW b \in Boards, GetPublicKey(o, b)
          PROVE  Promise!Next
      <3>1. Promise!GetPublicKey(o, b)  BY <2>8, ReadsMap DEF GetPublicKey
      <3> QED  BY <3>1 DEF Promise!Next
    <2>9. ASSUME NEW o \in Origins, NEW b \in Boards, Sign(o, b)
          PROVE  Promise!Next
      <3>1. Promise!Sign(o, b)  BY <2>9, ReadsMap DEF Sign
      <3> QED  BY <3>1 DEF Promise!Next
    <2>10. ASSUME Refuse  PROVE Promise!Next
      <3>1. UNCHANGED secrets /\ answer' = Promise!Error
        BY <2>10 DEF Refuse, Error, Promise!Error
      <3>2. Promise!Refuse
        BY <3>1 DEF Promise!Refuse, KeyIndex, IndexIn
      <3> QED  BY <3>2 DEF Promise!Next
    <2>11. CASE UNCHANGED vars
      BY <2>11 DEF vars, Promise!vars, KeyIndex, IndexIn
    <2>12. CASE Next
      BY <2>1, <2>2, <2>3, <2>4, <2>5, <2>6, <2>7, <2>8, <2>9, <2>10, <2>12 DEF Next
    <2> QED  BY <2>11, <2>12
  <1> QED  BY <1>1, <1>2, DelegateTypes, PTL DEF Spec, KeepsPromise, Promise!Spec

(***************************************************************************)
(* What the web client has signed.  A migration that was alone until it    *)
(* succeeded has seen an answer with its own key, and no other key was     *)
(* stored since the delegate gave it.  Answers come in order: one to a     *)
(* request to sign that follows that answer was made with this key.        *)
(***************************************************************************)

Held == Signing(Web, Board)
KeyOrNone == SigningKeys \cup {None}

Pending == {requests[i] : i \in DOMAIN requests}

Requests == [kind : Keyed \cup {"Sign"}, for : Nat, key : KeyOrNone]
Answers ==
    {Error} \cup [kind : {"PublicKey", "Sign"}, origin : {Web}, board : {Board}, signer : KeyOrNone]
            \cup [kind : {"StoreSigningKey"}, origin : {Web}, board : {Board}]
Responses == [kind : Keyed \cup {"Sign"}, for : Nat, answer : Answers]
Migrations == [key : SigningKeys, import : BOOLEAN, step : DOMAIN Waiting, alone : BOOLEAN,
               steady : BOOLEAN]
Records == [author : SigningKeys, trusted : KeyOrNone]

RegisteredOk(reg, mig) ==
    /\ reg \in [Keyed -> Nat]
    /\ \A kind \in Keyed :
        reg[kind] # 0 => reg[kind] \in DOMAIN mig /\ Waiting[mig[reg[kind]].step] = kind

(* What the variables hold.  A request is answered before the next is made. *)
Sound ==
    /\ use \in Uses
    /\ begun.migrations \in Nat /\ begun.messages \in Nat
    /\ DOMAIN begun = {"migrations", "messages", "faults"}
    /\ requests \in Seq(Requests) /\ Len(requests) <= 1
    /\ responses \in Seq(Responses)
    /\ \A r \in Pending : r.kind = "StoreSigningKey" => r.key \in SigningKeys
    /\ \A r \in Pending : r.kind = "Sign" => r.for <= begun.messages
    /\ \A i \in DOMAIN responses : responses[i].kind = "Sign" => responses[i].for <= begun.messages
    /\ DOMAIN migrations \subseteq 1..begun.migrations
    /\ \A m \in DOMAIN migrations : migrations[m] \in Migrations
    /\ RegisteredOk(registered, migrations)
    /\ DOMAIN signings \subseteq 1..begun.messages
    /\ \A i \in DOMAIN signings : signings[i] \in Records
    /\ identity \in KeyOrNone /\ stored \in KeyOrNone /\ trusted \in KeyOrNone

(* What other applications ask for leaves this client alone.                *)
Idle ==
    use.by # "signing" =>
        /\ identity = None /\ DOMAIN migrations = {} /\ DOMAIN signings = {}
        /\ requests = <<>> /\ responses = <<>> /\ trusted = None /\ messages = {} /\ ~healed

(* A request to sign, or an answer to one, of a record still waited for.    *)
Ours(r, records) == r.kind = "Sign" /\ r.for \in DOMAIN records
Author(r, records) == records[r.for].author
(* The record will be signed by its author.                                *)
Fine(r, records) == r.answer = Error \/ r.answer.signer \in {None, Author(r, records)}
Tells(r, k) == r.kind = "PublicKey" /\ Found(r.answer) = k

(* During an import, the answer with its key sorts the signatures.          *)
Healing(k) ==
    /\ identity = k
    /\ \A r \in Pending : Ours(r, signings) => Author(r, signings) = k
    /\ \A i, j \in DOMAIN responses :
        i < j /\ responses[i].kind \in Keyed /\ Ours(responses[j], signings) =>
            /\ Author(responses[j], signings) = k
            /\ Tells(responses[i], k) => Fine(responses[j], signings)

Lone ==
    \A m \in DOMAIN migrations : migrations[m].alone =>
        LET k == migrations[m].key IN
        /\ DOMAIN migrations = {m}
        /\ \A r \in Pending : r.kind = "StoreSigningKey" => r.key = k
        /\ \A i \in DOMAIN responses : Tells(responses[i], k) => Held = k
        /\ migrations[m].import /\ migrations[m].steady => Healing(k)

Trusting ==
    /\ trusted # None =>
        /\ DOMAIN migrations = {} /\ Held = trusted
        /\ \A r \in Pending : r.kind # "StoreSigningKey"
    /\ healed => identity # None /\ trusted = identity

(* A record that has to come out valid.                                    *)
Sure(record) == healed \/ record.trusted = record.author
Covered ==
    /\ \A r \in Pending :
        Ours(r, signings) /\ Sure(signings[r.for]) => Held = Author(r, signings)
    /\ \A i \in DOMAIN responses :
        Ours(responses[i], signings) /\ Sure(signings[responses[i].for])
            => Fine(responses[i], signings)

(* SignedByAuthor and ImportHeals.                                         *)
Applied == \A x \in messages : healed \/ x.trusted = x.author => Valid(x)

IInv == TypeOK /\ Sound /\ Idle /\ Lone /\ Trusting /\ Covered /\ Applied

---------------------------------------------------------------------------
(* Requests and answers.                                                   *)

LEMMA HeldType == ASSUME TypeOK PROVE Held \in KeyOrNone
  BY TypeParts, WebAssumption DEF Held, KeyOrNone

LEMMA NoneIsNoKey == None \notin SigningKeys
  BY NoneAssumption

LEMMA Emptied == ASSUME requests' = <<>> PROVE Pending' = {} /\ requests' \in Seq(Requests) /\ Len(requests') <= 1
  BY EmptySeq DEF Pending

LEMMA Asked ==
    ASSUME requests = <<>>, NEW r \in Requests, requests' = Append(requests, r)
    PROVE  Pending' = {r} /\ requests' \in Seq(Requests) /\ Len(requests') <= 1
  <1>1. <<>> \in Seq(Requests) /\ Len(<<>>) = 0
    BY EmptySeq
  <1>2. requests' \in Seq(Requests) /\ Len(requests') = 1 /\ requests'[1] = r
    BY <1>1, AppendProperties
  <1>3. DOMAIN requests' = 1..1
    BY <1>2, LenProperties
  <1>. QED
    BY <1>2, <1>3 DEF Pending

LEMMA NothingPending == ASSUME requests = <<>> PROVE Pending = {}
  BY EmptySeq DEF Pending

(* What is left of the answers.                                            *)
Left ==
    /\ responses' \in Seq(Responses)
    /\ \E d \in Nat : \A j \in DOMAIN responses' :
        j \in Nat /\ j + d \in DOMAIN responses /\ responses'[j] = responses[j + d]

LEMMA AllLeft == ASSUME responses \in Seq(Responses), UNCHANGED responses PROVE Left
  <1>1. \A j \in DOMAIN responses : j \in Nat /\ j + 0 = j
    BY LenProperties
  <1>. QED
    BY <1>1 DEF Left

LEMMA NoneLeft == ASSUME responses' = <<>> PROVE Left
  BY EmptySeq DEF Left

LEMMA Received ==
    ASSUME responses \in Seq(Responses), responses # <<>>, responses' = Tail(responses)
    PROVE  /\ Left /\ 1 \in DOMAIN responses /\ Head(responses) = responses[1]
           /\ \A j \in DOMAIN responses' :
                j + 1 \in DOMAIN responses /\ 1 < j + 1 /\ responses'[j] = responses[j + 1]
  <1>1. Len(responses) \in Nat \ {0} /\ DOMAIN responses = 1..Len(responses)
    BY EmptySeq, LenProperties
  <1>2. /\ responses' \in Seq(Responses) /\ Len(responses') = Len(responses) - 1
        /\ \A j \in 1..Len(responses') : responses'[j] = responses[j + 1]
    BY HeadTailProperties
  <1>3. DOMAIN responses' = 1..(Len(responses) - 1)
    BY <1>2, LenProperties
  <1>4. \A j \in DOMAIN responses' :
            j \in Nat /\ j + 1 \in DOMAIN responses /\ 1 < j + 1 /\ responses'[j] = responses[j + 1]
    BY <1>1, <1>2, <1>3
  <1>. QED
    BY <1>1, <1>2, <1>4 DEF Left

---------------------------------------------------------------------------
(* What a step keeps that asks for nothing.                                *)

Fewer ==
    /\ Left /\ Pending' \subseteq Pending /\ Held' = Held
    /\ DOMAIN signings' \subseteq DOMAIN signings
    /\ \A i \in DOMAIN signings' : signings'[i] = signings[i]

LEMMA FewerRecords ==
    ASSUME Fewer, NEW r, Ours(r, signings')
    PROVE  /\ Ours(r, signings) /\ Author(r, signings') = Author(r, signings)
           /\ Fine(r, signings) <=> Fine(r, signings')
           /\ signings'[r.for] = signings[r.for]
  BY DEF Fewer, Ours, Author, Fine

LEMMA CoveredKept ==
    ASSUME Covered, Fewer, healed' => healed
    PROVE  Covered'
  <1>1. ASSUME NEW r \in Pending', Ours(r, signings'), healed' \/ signings'[r.for].trusted = signings'[r.for].author
        PROVE  Held' = Author(r, signings')
    <2>1. r \in Pending
      BY DEF Fewer
    <2>. QED
      BY <1>1, <2>1, FewerRecords DEF Covered, Sure, Fewer
  <1>2. ASSUME NEW j \in DOMAIN responses', Ours(responses'[j], signings'),
               healed' \/ signings'[responses'[j].for].trusted = signings'[responses'[j].for].author
        PROVE  Fine(responses'[j], signings')
    <2>1. PICK i \in DOMAIN responses : responses'[j] = responses[i]
      BY DEF Fewer, Left
    <2>. QED
      BY <1>2, <2>1, FewerRecords DEF Covered, Sure
  <1>. QED
    BY <1>1, <1>2 DEF Covered, Sure

LEMMA HealingKept ==
    ASSUME Fewer, NEW k, Healing(k), UNCHANGED identity
    PROVE  Healing(k)'
  <1>1. \A r \in Pending' : Ours(r, signings') => Author(r, signings') = k
    <2>1. \A r \in Pending' : r \in Pending
      BY DEF Fewer
    <2>. QED
      BY <2>1, FewerRecords DEF Healing
  <1>2. ASSUME NEW i \in DOMAIN responses', NEW j \in DOMAIN responses', i < j,
               responses'[i].kind \in Keyed, Ours(responses'[j], signings')
        PROVE  /\ Author(responses'[j], signings') = k
               /\ Tells(responses'[i], k) => Fine(responses'[j], signings')
    <2>1. PICK d \in Nat : \A h \in DOMAIN responses' :
              h \in Nat /\ h + d \in DOMAIN responses /\ responses'[h] = responses[h + d]
      BY DEF Fewer, Left
    <2>2. /\ i + d \in DOMAIN responses /\ j + d \in DOMAIN responses /\ i + d < j + d
          /\ responses'[i] = responses[i + d] /\ responses'[j] = responses[j + d]
      BY <1>2, <2>1
    <2>3. /\ Author(responses[j + d], signings) = k
          /\ Tells(responses[i + d], k) => Fine(responses[j + d], signings)
      BY <1>2, <2>2, FewerRecords DEF Healing
    <2>. QED
      BY <1>2, <2>2, <2>3, FewerRecords
  <1>. QED
    BY <1>1, <1>2 DEF Healing

LEMMA LoneKept ==
    ASSUME Lone, Fewer, UNCHANGED identity, UNCHANGED migrations
    PROVE  Lone'
  <1>. SUFFICES ASSUME NEW m \in DOMAIN migrations, migrations[m].alone, NEW k, k = migrations[m].key
                PROVE  /\ DOMAIN migrations = {m}
                       /\ \A r \in Pending' : r.kind = "StoreSigningKey" => r.key = k
                       /\ \A i \in DOMAIN responses' : Tells(responses'[i], k) => Held' = k
                       /\ migrations[m].import /\ migrations[m].steady => Healing(k)'
    BY DEF Lone, Tells
  <1>1. /\ DOMAIN migrations = {m}
        /\ \A r \in Pending : r.kind = "StoreSigningKey" => r.key = k
        /\ \A i \in DOMAIN responses : Tells(responses[i], k) => Held = k
        /\ migrations[m].import /\ migrations[m].steady => Healing(k)
    BY DEF Lone
  <1>2. \A j \in DOMAIN responses' : \E i \in DOMAIN responses : responses'[j] = responses[i]
    BY DEF Fewer, Left
  <1>. QED
    BY <1>1, <1>2, HealingKept DEF Fewer

(* The counts and the migrations are not disturbed.                        *)
LEMMA SoundKept ==
    ASSUME Sound, Fewer, use' = use, begun'.migrations = begun.migrations,
           begun'.messages = begun.messages, DOMAIN begun' = DOMAIN begun,
           requests' \in Seq(Requests), Len(requests') <= 1,
           DOMAIN migrations' \subseteq DOMAIN migrations,
           \A m \in DOMAIN migrations' : migrations'[m] \in Migrations,
           RegisteredOk(registered, migrations)',
           identity' \in KeyOrNone, stored' \in KeyOrNone, trusted' \in KeyOrNone
    PROVE  Sound'
  <1>1. \A j \in DOMAIN responses' : \E i \in DOMAIN responses : responses'[j] = responses[i]
    BY DEF Fewer, Left
  <1>2. \A i \in DOMAIN responses' :
            responses'[i].kind = "Sign" => responses'[i].for <= begun'.messages
    BY <1>1 DEF Sound
  <1>3. \A i \in DOMAIN signings' : signings'[i] \in Records
    BY DEF Sound, Fewer
  <1>. QED
    BY <1>2, <1>3 DEF Sound, Fewer, Left

LEMMA InitHolds == SigningInit => IInv
  <1>. SUFFICES ASSUME SigningInit
                PROVE  IInv
    OBVIOUS
  <1>1. TypeOK
    BY InitTypes DEF SigningInit
  <1>2. Pending = {} /\ DOMAIN migrations = {} /\ DOMAIN signings = {} /\ DOMAIN responses = {}
    BY EmptySeq DEF SigningInit, Pending
  <1>3. <<>> \in Seq(Requests) /\ Len(<<>>) = 0 /\ <<>> \in Seq(Responses)
    BY EmptySeq
  <1>4. RegisteredOk(registered, migrations)
    BY DEF SigningInit, RegisteredOk
  <1>5. Sound
    BY <1>2, <1>3, <1>4, UsesAssumption DEF SigningInit, Sound, KeyOrNone
  <1>. QED
    BY <1>1, <1>2, <1>5 DEF SigningInit, IInv, Idle, Lone, Trusting, Covered, Applied

---------------------------------------------------------------------------
(* The delegate and the connection.                                        *)

LEMMA ApplicationsHold ==
    ASSUME IInv, Applications
    PROVE  IInv'
  <1>1. TypeOK' /\ UNCHANGED client /\ use.by # "signing"
    BY NextTypes DEF Applications, IInv
  <1>2. /\ UNCHANGED <<use, requests, responses, registered, migrations, trusted, begun, signings>>
        /\ UNCHANGED <<identity, stored, loading, messages, healed>>
    BY <1>1 DEF client, pending, board
  <1>3. /\ DOMAIN migrations = {} /\ DOMAIN signings = {} /\ requests = <<>> /\ responses = <<>>
        /\ trusted = None /\ messages = {} /\ ~healed
    BY <1>1 DEF IInv, Idle
  <1>4. Pending = {} /\ Pending' = {} /\ DOMAIN responses = {}
    BY <1>2, <1>3, EmptySeq DEF Pending
  <1>5. Sound' /\ Idle'
    BY <1>2, <1>4 DEF IInv, Sound, Idle, RegisteredOk
  <1>. QED
    BY <1>1, <1>2, <1>3, <1>4, <1>5 DEF IInv, Lone, Trusting, Covered, Applied

LEMMA DisconnectHolds ==
    ASSUME IInv, Disconnect
    PROVE  IInv'
  <1>1. /\ UNCHANGED <<secrets, use, registered, migrations, trusted, signings, identity, stored>>
        /\ UNCHANGED <<messages, healed>>
        /\ requests' = <<>> /\ responses' = <<>> /\ begun' = [begun EXCEPT !.faults = @ + 1]
    BY DEF Disconnect, Fault, vars, pending
  <1>2. Pending' = {} /\ Left /\ requests' \in Seq(Requests) /\ Len(requests') <= 1
    BY <1>1, Emptied, NoneLeft
  <1>3. TypeOK' /\ Held' = Held
    BY <1>1 DEF IInv, TypeOK, Held, Signing
  <1>4. Fewer
    BY <1>1, <1>2, <1>3 DEF Fewer
  <1>5. Sound'
    <2>1. begun'.migrations = begun.migrations /\ begun'.messages = begun.messages
          /\ DOMAIN begun' = DOMAIN begun
      BY <1>1 DEF IInv, Sound
    <2>. QED
      BY <1>1, <1>2, <1>4, <2>1, SoundKept DEF IInv, Sound, RegisteredOk
  <1>6. Lone' /\ Covered'
    BY <1>1, <1>4, LoneKept, CoveredKept DEF IInv
  <1>. QED
    BY <1>1, <1>2, <1>3, <1>5, <1>6 DEF IInv, Idle, Trusting, Applied

(* What the delegate adds to the answers.                                  *)
LEMMA Answered ==
    ASSUME responses \in Seq(Responses), NEW r \in Responses, responses' = Append(responses, r)
    PROVE  /\ responses' \in Seq(Responses)
           /\ \A i \in DOMAIN responses' :
                \/ i \in DOMAIN responses /\ responses'[i] = responses[i]
                \/ responses'[i] = r /\ \A j \in DOMAIN responses' :
                        j # i => j \in DOMAIN responses /\ responses'[j] = responses[j] /\ j < i
  <1>1. Len(responses) \in Nat /\ DOMAIN responses = 1..Len(responses)
    BY LenProperties
  <1>2. /\ responses' \in Seq(Responses) /\ Len(responses') = Len(responses) + 1
        /\ \A i \in 1..Len(responses) : responses'[i] = responses[i]
        /\ responses'[Len(responses) + 1] = r
    BY AppendProperties
  <1>3. DOMAIN responses' = 1..(Len(responses) + 1)
    BY <1>2, LenProperties
  <1>. QED
    BY <1>1, <1>2, <1>3

(* An answer says what the delegate holds, and is made before anything else *)
(* is asked.                                                               *)
LEMMA AnswerHolds ==
    ASSUME IInv, NEW r \in Pending, NEW reply,
           UNCHANGED <<use, registered, migrations, trusted, signings, identity, stored, loading,
                       messages, healed>>,
           begun'.migrations = begun.migrations, begun'.messages = begun.messages,
           DOMAIN begun' = DOMAIN begun,
           requests' = <<>>, TypeOK',
           responses' = Append(responses, reply), reply \in Responses,
           reply.kind = r.kind, reply.for = r.for,
           Held' = IF r.kind = "StoreSigningKey" /\ reply.answer # Error THEN r.key ELSE Held,
           r.kind # "StoreSigningKey" /\ reply.answer # Error =>
                reply.answer.kind = r.kind /\ reply.answer.signer = Held
    PROVE  IInv'
  <1>1. Pending' = {} /\ requests' \in Seq(Requests) /\ Len(requests') <= 1
    BY Emptied
  <1>2. /\ responses' \in Seq(Responses)
        /\ \A i \in DOMAIN responses' :
             \/ i \in DOMAIN responses /\ responses'[i] = responses[i]
             \/ responses'[i] = reply /\ \A j \in DOMAIN responses' :
                     j # i => j \in DOMAIN responses /\ responses'[j] = responses[j] /\ j < i
    BY Answered DEF IInv, Sound
  <1>3. Sound'
    <2>1. \A i \in DOMAIN responses' :
            responses'[i].kind = "Sign" => responses'[i].for <= begun'.messages
      BY <1>2 DEF IInv, Sound
    <2>. QED
      BY <1>1, <1>2, <2>1 DEF IInv, Sound, RegisteredOk
  <1>4. Idle'
    <2>1. requests # <<>>
      BY NothingPending
    <2>. QED
      BY <2>1 DEF IInv, Idle
  <1>5. Trusting'
    BY <1>1 DEF IInv, Trusting
  <1>6. Ours(reply, signings) /\ Sure(signings[reply.for]) => Fine(reply, signings)
    <2>1. Ours(reply, signings) => Ours(r, signings) /\ Author(reply, signings) = Author(r, signings)
      BY DEF Ours, Author
    <2>. QED
      BY <2>1 DEF Ours, Fine, IInv, Covered
  <1>7. Covered'
    BY <1>1, <1>2, <1>6 DEF IInv, Covered, Sure
  <1>8. Applied'
    BY DEF IInv, Applied
  <1>9. Lone'
    <2>. SUFFICES ASSUME NEW m \in DOMAIN migrations, migrations[m].alone, NEW k, k = migrations[m].key
                  PROVE  /\ DOMAIN migrations = {m}
                         /\ \A i \in DOMAIN responses' : Tells(responses'[i], k) => Held' = k
                         /\ migrations[m].import /\ migrations[m].steady => Healing(k)'
      BY <1>1 DEF Lone
    <2>1. /\ DOMAIN migrations = {m} /\ k \in SigningKeys
          /\ r.kind = "StoreSigningKey" => r.key = k
          /\ \A i \in DOMAIN responses : Tells(responses[i], k) => Held = k
          /\ migrations[m].import /\ migrations[m].steady => Healing(k)
      BY DEF IInv, Lone, Sound, Migrations
    <2>2. Held = k => Held' = k
      BY <2>1
    <2>3. Tells(reply, k) => Held' = k
      <3>1. CASE reply.answer = Error
        BY <2>1, <3>1, ErrorAssumption DEF Tells, Found, Error
      <3>2. CASE reply.answer # Error
        BY <3>2 DEF Tells, Found
      <3>. QED
        BY <3>1, <3>2
    <2>4. \A i \in DOMAIN responses' : Tells(responses'[i], k) => Held' = k
      BY <1>2, <2>1, <2>2, <2>3
    <2>5. ASSUME Healing(k)
          PROVE  Healing(k)'
      <3>1. Ours(reply, signings) =>
                /\ Author(reply, signings) = k
                /\ \A i \in DOMAIN responses : Tells(responses[i], k) => Fine(reply, signings)
        <4>1. Ours(reply, signings) => Ours(r, signings) /\ Author(reply, signings) = Author(r, signings)
          BY DEF Ours, Author
        <4>2. Ours(reply, signings) => Author(reply, signings) = k
          BY <2>5, <4>1 DEF Healing
        <4>. QED
          BY <2>1, <4>2 DEF Ours, Fine
      <3>2. ASSUME NEW i \in DOMAIN responses', NEW j \in DOMAIN responses', i < j,
                   responses'[i].kind \in Keyed, Ours(responses'[j], signings)
            PROVE  /\ Author(responses'[j], signings) = k
                   /\ Tells(responses'[i], k) => Fine(responses'[j], signings)
        <4>1. i # j /\ ~(j < i) /\ i \in Nat /\ j \in Nat
          BY <1>2, <3>2, LenProperties
        <4>2. CASE j \in DOMAIN responses /\ responses'[j] = responses[j]
          <5>1. i \in DOMAIN responses /\ responses'[i] = responses[i]
            BY <1>2, <4>1
          <5>. QED
            BY <2>5, <3>2, <4>2, <5>1 DEF Healing
        <4>3. CASE responses'[j] = reply /\ i \in DOMAIN responses /\ responses'[i] = responses[i]
          BY <3>1, <3>2, <4>3
        <4>. QED
          BY <1>2, <4>1, <4>2, <4>3
      <3>. QED
        BY <1>1, <2>5, <3>2 DEF Healing
    <2>. QED
      BY <2>1, <2>4, <2>5
  <1>. QED
    BY <1>3, <1>4, <1>5, <1>7, <1>8, <1>9 DEF IInv

LEMMA HandleHolds ==
    ASSUME IInv, Handle
    PROVE  IInv'
  <1>. DEFINE r == Head(requests)
              reply == [kind |-> r.kind, for |-> r.for, answer |-> answer']
  <1>1. /\ UNCHANGED <<use, registered, migrations, trusted, signings, identity, stored, loading>>
        /\ UNCHANGED <<messages, healed>>
        /\ requests # <<>> /\ requests' = Tail(requests) /\ responses' = Append(responses, reply)
    BY DEF Handle, pending, board
  <1>2. r \in Pending /\ r \in Requests /\ requests' = <<>>
    <2>1. /\ requests \in Seq(Requests) /\ Len(requests) = 1 /\ DOMAIN requests = 1..1
          /\ r = requests[1] /\ r \in Requests
      <3>1. requests \in Seq(Requests) /\ Len(requests) \in Nat /\ Len(requests) <= 1
            /\ DOMAIN requests = 1..Len(requests) /\ Len(requests) # 0
        BY <1>1, EmptySeq, LenProperties DEF IInv, Sound
      <3>2. Len(requests) = 1
        BY <3>1
      <3>. QED
        BY <1>1, <3>1, <3>2, HeadTailProperties
    <2>2. requests' \in Seq(Requests) /\ Len(requests') = 0
      BY <1>1, <2>1, HeadTailProperties
    <2>. QED
      BY <2>1, <2>2, EmptySeq DEF Pending
  <1>3. /\ begun'.migrations = begun.migrations /\ begun'.messages = begun.messages
        /\ DOMAIN begun' = DOMAIN begun
    BY DEF Handle, Fault, IInv, Sound
  <1>4. Held \in KeyOrNone /\ (r.kind = "StoreSigningKey" => r.key \in SigningKeys)
    BY <1>2, HeldType DEF IInv, Sound
  <1>5. /\ TypeOK' /\ answer' \in Answers
        /\ Held' = IF r.kind = "StoreSigningKey" /\ answer' # Error THEN r.key ELSE Held
        /\ r.kind # "StoreSigningKey" /\ answer' # Error =>
                answer'.kind = r.kind /\ answer'.signer = Held
    <2>1. CASE r.kind = "PublicKey" /\ GetPublicKey(Web, Board)
      <3>1. /\ answer' = [kind |-> "PublicKey", origin |-> Web, board |-> Board, signer |-> Held]
            /\ UNCHANGED secrets
        BY <2>1 DEF GetPublicKey, Held, Signing
      <3>. QED
        BY <1>4, <2>1, <3>1 DEF Answers, IInv, TypeOK, Held, Signing
    <2>2. CASE r.kind = "StoreSigningKey" /\ StoreSigningKey(Web, Board, r.key)
      <3>1. answer' = [kind |-> "StoreSigningKey", origin |-> Web, board |-> Board]
            /\ secrets' = [secrets EXCEPT ![SigningKeyName(Web, Board)] = r.key]
        BY <2>2 DEF StoreSigningKey
      <3>2. TypeOK' /\ Held' = r.key
        BY <1>4, <2>2, <3>1, SigningKeyWritten, WebAssumption DEF IInv, SigningBecomes, Held
      <3>3. answer' # Error /\ answer' \in Answers
        BY <3>1 DEF Error, Answers
      <3>. QED
        BY <2>2, <3>2, <3>3
    <2>3. CASE r.kind = "Sign" /\ Sign(Web, Board)
      <3>1. /\ answer' = [kind |-> "Sign", origin |-> Web, board |-> Board, signer |-> Held]
            /\ UNCHANGED secrets
        BY <2>3 DEF Sign, Held, Signing
      <3>. QED
        BY <1>4, <2>3, <3>1 DEF Answers, IInv, TypeOK, Held, Signing
    <2>4. CASE Refuse
      BY <2>4 DEF Refuse, Answers, IInv, TypeOK, Held, Signing
    <2>. QED
      BY <2>1, <2>2, <2>3, <2>4 DEF Handle
  <1>6. /\ reply \in Responses /\ reply.kind = r.kind /\ reply.for = r.for /\ reply.answer = answer'
    BY <1>2, <1>5 DEF Requests, Responses
  <1>. HIDE DEF r, reply
  <1>. QED
    BY <1>1, <1>2, <1>3, <1>5, <1>6, AnswerHolds

---------------------------------------------------------------------------
(* Records.                                                                *)

LEMMA SignedHolds ==
    ASSUME IInv, requests = <<>>, NEW i \in DOMAIN signings, NEW signer, Signed(i, signer),
           Sure(signings[i]) => signer = signings[i].author,
           Left, begun'.migrations = begun.migrations, begun'.messages = begun.messages,
           DOMAIN begun' = DOMAIN begun
    PROVE  IInv'
  <1>1. /\ UNCHANGED <<secrets, use, requests, registered, migrations, trusted, identity, stored>>
        /\ UNCHANGED <<loading, healed>>
        /\ signings' = [j \in DOMAIN signings \ {i} |-> signings[j]]
    BY DEF Signed, Without, vars, pending
  <1>2. Pending = {} /\ Pending' = {} /\ requests' \in Seq(Requests) /\ Len(requests') <= 1
    BY <1>1, NothingPending, Emptied
  <1>3. TypeOK' /\ Held' = Held
    BY <1>1 DEF IInv, TypeOK, Held, Signing
  <1>4. Fewer
    BY <1>1, <1>2, <1>3 DEF Fewer
  <1>5. Sound'
    BY <1>1, <1>2, <1>4, SoundKept DEF IInv, Sound, RegisteredOk
  <1>6. Lone' /\ Covered' /\ Trusting'
    BY <1>1, <1>2, <1>3, <1>4, LoneKept, CoveredKept DEF IInv, Trusting
  <1>7. Idle'
    BY <1>1 DEF IInv, Idle
  <1>8. Applied'
    <2>. DEFINE x == [author |-> signings[i].author, signer |-> signer, trusted |-> signings[i].trusted]
    <2>1. messages' \subseteq messages \cup {x}
      BY DEF Signed
    <2>2. healed \/ x.trusted = x.author => Valid(x)
      BY DEF Valid, Sure
    <2>. HIDE DEF x
    <2>. QED
      BY <1>1, <2>1, <2>2 DEF IInv, Applied
  <1>. QED
    BY <1>3, <1>5, <1>6, <1>7, <1>8 DEF IInv

LEMMA DeliverSignatureHolds ==
    ASSUME IInv, requests = <<>>, DeliverSignature
    PROVE  IInv'
  <1>. DEFINE r == Head(responses)
  <1>1. /\ responses \in Seq(Responses) /\ responses # <<>> /\ responses' = Tail(responses)
        /\ r.kind = "Sign" /\ UNCHANGED begun
    BY DEF DeliverSignature, IInv, Sound
  <1>2. Left /\ 1 \in DOMAIN responses /\ r = responses[1]
    BY <1>1, Received
  <1>3. CASE r.for \notin DOMAIN signings
    <2>1. /\ UNCHANGED <<secrets, use, requests, registered, migrations, trusted, signings>>
          /\ UNCHANGED <<identity, stored, loading, messages, healed>>
      BY <1>3 DEF DeliverSignature, vars, pending, board
    <2>2. Pending' = Pending /\ requests' \in Seq(Requests) /\ Len(requests') <= 1
      BY <2>1 DEF Pending, IInv, Sound
    <2>3. TypeOK' /\ Held' = Held
      BY <2>1 DEF IInv, TypeOK, Held, Signing
    <2>4. Fewer
      BY <1>2, <2>1, <2>2, <2>3 DEF Fewer
    <2>5. Sound'
      BY <1>1, <2>1, <2>2, <2>4, SoundKept DEF IInv, Sound, RegisteredOk
    <2>6. Lone' /\ Covered' /\ Trusting' /\ Applied'
      BY <2>1, <2>2, <2>3, <2>4, LoneKept, CoveredKept DEF IInv, Trusting, Applied
    <2>7. Idle'
      BY <1>1, <2>1 DEF IInv, Idle
    <2>. QED
      BY <2>3, <2>5, <2>6, <2>7 DEF IInv
  <1>4. CASE r.for \in DOMAIN signings
    <2>1. PICK signer : /\ signer = IF r.answer = Error \/ r.answer.signer = None
                                    THEN signings[r.for].author ELSE r.answer.signer
                        /\ Signed(r.for, signer)
      BY <1>4 DEF DeliverSignature
    <2>2. Sure(signings[r.for]) => Fine(r, signings)
      BY <1>1, <1>2, <1>4 DEF IInv, Covered, Ours
    <2>3. Sure(signings[r.for]) => signer = signings[r.for].author
      BY <2>1, <2>2 DEF Fine, Author
    <2>. QED
      BY <1>1, <1>2, <1>4, <2>1, <2>3, SignedHolds DEF IInv, Sound
  <1>. QED
    BY <1>3, <1>4

LEMMA SignLocallyHolds ==
    ASSUME IInv, requests = <<>>, NEW i \in DOMAIN signings, SignLocally(i)
    PROVE  IInv'
  <1>1. /\ Signed(i, signings[i].author) /\ UNCHANGED responses
        /\ begun' = [begun EXCEPT !.faults = @ + 1]
    BY DEF SignLocally, Fault
  <1>2. /\ begun'.migrations = begun.migrations /\ begun'.messages = begun.messages
        /\ DOMAIN begun' = DOMAIN begun
    BY <1>1 DEF IInv, Sound
  <1>3. Left
    BY <1>1, AllLeft DEF IInv, Sound
  <1>. QED
    BY <1>1, <1>2, <1>3, SignedHolds

LEMMA ComposeHolds ==
    ASSUME IInv, requests = <<>>, Compose
    PROVE  IInv'
  <1>. DEFINE i == begun.messages + 1
              r == Request("Sign", i, None)
              record == [author |-> identity, trusted |-> trusted]
  <1>1. /\ UNCHANGED <<secrets, use, responses, registered, migrations, trusted, identity, stored>>
        /\ UNCHANGED <<loading, messages, healed>>
        /\ use.by = "signing" /\ identity # None
        /\ begun' = [begun EXCEPT !.messages = i] /\ requests' = Append(requests, r)
    BY DEF Compose, vars, pending, board
  <1>2. begun.messages \in Nat /\ i \in Nat /\ DOMAIN signings \subseteq 1..begun.messages
    BY DEF IInv, Sound
  <1>3. i \notin DOMAIN signings
    BY <1>2
  <1>4. /\ DOMAIN signings' = DOMAIN signings \cup {i} /\ signings'[i] = record
        /\ \A j \in DOMAIN signings : signings'[j] = signings[j]
    BY <1>3 DEF Compose
  <1>5. /\ begun'.messages = i /\ begun'.migrations = begun.migrations
        /\ DOMAIN begun' = DOMAIN begun
    BY <1>1 DEF IInv, Sound
  <1>6. r \in Requests /\ r.kind = "Sign" /\ r.for = i
    BY <1>2 DEF Request, Requests, KeyOrNone
  <1>7. record \in Records /\ record.author = identity /\ record.trusted = trusted
    BY <1>1 DEF Records, IInv, Sound, KeyOrNone
  <1>. HIDE DEF i, r, record
  <1>8. Pending' = {r} /\ requests' \in Seq(Requests) /\ Len(requests') <= 1
    BY <1>1, <1>6, Asked
  <1>9. TypeOK' /\ Held' = Held
    BY <1>1 DEF IInv, TypeOK, Held, Signing
  <1>10. \A j \in DOMAIN responses :
            responses[j].kind = "Sign" => responses[j].for <= begun.messages /\ responses[j].for # i
    <2>1. \A j \in DOMAIN responses : responses[j].kind = "Sign" => responses[j].for <= begun.messages
      BY DEF IInv, Sound
    <2>2. \A n : n <= begun.messages => n # i
      BY <1>2 DEF i
    <2>. QED
      BY <2>1, <2>2
  <1>11. Sound'
    <2>1. \A j \in DOMAIN responses : responses[j].kind = "Sign" => responses[j].for <= i
      <3>1. \A j \in DOMAIN responses : responses[j].for \in Nat
        <4>1. responses \in Seq(Responses) /\ DOMAIN responses = 1..Len(responses)
          BY LenProperties DEF IInv, Sound
        <4>2. \A j \in DOMAIN responses : responses[j] \in Responses
          BY <4>1, ElementOfSeq
        <4>. QED
          BY <4>2 DEF Responses
      <3>. QED
        BY <1>2, <1>10, <3>1 DEF i
    <2>2. DOMAIN signings' \subseteq 1..i
      BY <1>2, <1>4 DEF i
    <2>3. \A j \in DOMAIN signings' : signings'[j] \in Records
      BY <1>4, <1>7 DEF IInv, Sound
    <2>4. i <= i
      BY <1>2
    <2>. QED
      BY <1>1, <1>2, <1>5, <1>6, <1>8, <2>1, <2>2, <2>3, <2>4 DEF IInv, Sound, RegisteredOk
  <1>12. Idle'
    BY <1>1 DEF Idle
  <1>13. Trusting' /\ Applied'
    BY <1>1, <1>6, <1>8, <1>9 DEF IInv, Trusting, Applied
  <1>14. \A j \in DOMAIN responses :
            Ours(responses[j], signings') =>
                /\ Ours(responses[j], signings)
                /\ signings'[responses[j].for] = signings[responses[j].for]
                /\ Author(responses[j], signings') = Author(responses[j], signings)
                /\ Fine(responses[j], signings) <=> Fine(responses[j], signings')
    BY <1>4, <1>10 DEF Ours, Author, Fine
  <1>15. Covered'
    <2>1. Sure(record) => Held = identity
      BY <1>1, <1>7 DEF Sure, IInv, Trusting
    <2>. QED
      BY <1>1, <1>4, <1>6, <1>7, <1>8, <1>9, <1>14, <2>1 DEF IInv, Covered, Sure, Author
  <1>16. Lone'
    <2>. SUFFICES ASSUME NEW m \in DOMAIN migrations, migrations[m].alone, NEW k, k = migrations[m].key
                  PROVE  /\ DOMAIN migrations = {m}
                         /\ \A i_1 \in DOMAIN responses : Tells(responses[i_1], k) => Held = k
                         /\ migrations[m].import /\ migrations[m].steady => Healing(k)'
      BY <1>1, <1>6, <1>8, <1>9 DEF Lone
    <2>1. /\ DOMAIN migrations = {m}
          /\ \A j \in DOMAIN responses : Tells(responses[j], k) => Held = k
          /\ migrations[m].import /\ migrations[m].steady => Healing(k)
      BY DEF IInv, Lone
    <2>2. ASSUME Healing(k)
          PROVE  Healing(k)'
      <3>1. Author(r, signings') = k
        BY <1>4, <1>6, <1>7, <2>2 DEF Author, Healing
      <3>2. \A h, j \in DOMAIN responses :
                h < j /\ responses[h].kind \in Keyed /\ Ours(responses[j], signings') =>
                    /\ Author(responses[j], signings') = k
                    /\ Tells(responses[h], k) => Fine(responses[j], signings')
        BY <1>14, <2>2 DEF Healing
      <3>. QED
        BY <1>1, <1>8, <2>2, <3>1, <3>2 DEF Healing
    <2>. QED
      BY <2>1, <2>2
  <1>. QED
    BY <1>9, <1>11, <1>12, <1>13, <1>15, <1>16 DEF IInv

---------------------------------------------------------------------------
(* Migrations.                                                             *)

(* While one runs, nothing is known of what the delegate holds.             *)
LEMMA WhileMigrating ==
    ASSUME IInv, NEW m \in DOMAIN migrations
    PROVE  /\ trusted = None /\ ~healed /\ use.by = "signing"
           /\ migrations[m] \in Migrations /\ migrations[m].key \in SigningKeys
           /\ \A n \in DOMAIN migrations : migrations[n].alone => n = m
  BY DEF IInv, Trusting, Idle, Lone, Sound, Migrations

(* An end that teaches nothing: it failed, or it was not alone.             *)
LEMMA EndHolds ==
    ASSUME IInv, requests = <<>>, NEW m \in DOMAIN migrations, NEW successful \in BOOLEAN,
           End(m, successful), Left,
           UNCHANGED <<secrets, use, signings, identity, stored, loading>>,
           begun'.migrations = begun.migrations, begun'.messages = begun.messages,
           DOMAIN begun' = DOMAIN begun,
           RegisteredOk(registered', migrations), \A kind \in Keyed : registered'[kind] # m,
           successful /\ migrations[m].alone => Held = migrations[m].key,
           successful /\ migrations[m].alone /\ migrations[m].import /\ migrations[m].steady =>
                /\ identity = migrations[m].key
                /\ \A j \in DOMAIN responses' :
                    Ours(responses'[j], signings) => Fine(responses'[j], signings)
    PROVE  IInv'
  <1>. DEFINE g == migrations[m]
  <1>1. /\ trusted = None /\ ~healed /\ use.by = "signing"
        /\ g.key \in SigningKeys /\ \A n \in DOMAIN migrations : migrations[n].alone => n = m
    BY WhileMigrating
  <1>2. /\ DOMAIN migrations' = DOMAIN migrations \ {m}
        /\ \A n \in DOMAIN migrations' : migrations'[n] = migrations[n]
        /\ trusted' = IF successful /\ g.alone THEN g.key ELSE trusted
        /\ UNCHANGED requests /\ messages' \subseteq messages
        /\ successful /\ g.import => healed' = (g.alone /\ g.steady) /\ \A x \in messages' : Valid(x)
        /\ ~(successful /\ g.import) => UNCHANGED healed
    BY DEF End, Without
  <1>3. Pending = {} /\ Pending' = {} /\ requests' \in Seq(Requests) /\ Len(requests') <= 1
    BY <1>2, NothingPending, Emptied
  <1>4. TypeOK' /\ Held' = Held
    BY DEF IInv, TypeOK, Held, Signing
  <1>5. Fewer
    BY <1>3, <1>4 DEF Fewer
  <1>6. Sound'
    <2>1. RegisteredOk(registered, migrations)'
      BY <1>2 DEF RegisteredOk
    <2>2. trusted' \in KeyOrNone
      BY <1>1, <1>2 DEF KeyOrNone
    <2>3. \A n \in DOMAIN migrations' : migrations'[n] \in Migrations
      BY <1>2 DEF IInv, Sound
    <2>. QED
      BY <1>2, <1>3, <1>5, <2>1, <2>2, <2>3, SoundKept DEF IInv, Sound
  <1>7. Idle' /\ Lone'
    BY <1>1, <1>2 DEF Idle, Lone
  <1>8. Trusting'
    <2>1. successful /\ g.alone => DOMAIN migrations' = {}
      BY <1>2 DEF IInv, Lone
    <2>2. trusted' # None => successful /\ g.alone /\ trusted' = g.key /\ Held' = g.key
      BY <1>1, <1>2, <1>4
    <2>3. healed' => successful /\ g.import /\ g.alone /\ g.steady
      BY <1>1, <1>2
    <2>4. healed' => identity' # None /\ trusted' = identity'
      BY <1>1, <1>2, <2>3, NoneIsNoKey
    <2>. QED
      BY <1>3, <2>1, <2>2, <2>4 DEF Trusting
  <1>9. Applied'
    BY <1>1, <1>2 DEF IInv, Applied
  <1>10. Covered'
    <2>1. CASE healed'
      BY <1>1, <1>2, <1>3, <2>1 DEF Covered
    <2>2. CASE ~healed'
      BY <1>5, <2>2, CoveredKept DEF IInv
    <2>. QED
      BY <2>1, <2>2
  <1>. QED
    BY <1>4, <1>6, <1>7, <1>8, <1>9, <1>10 DEF IInv

LEMMA AskHolds ==
    ASSUME IInv, requests = <<>>, NEW m \in DOMAIN migrations, NEW others, Left,
           NEW step \in DOMAIN Waiting, Ask(m, step, Waiting[step], others),
           UNCHANGED <<secrets, use, signings, identity, stored, loading>>,
           begun'.migrations = begun.migrations, begun'.messages = begun.messages,
           DOMAIN begun' = DOMAIN begun,
           RegisteredOk(others, migrations), \A kind \in Keyed : others[kind] # m
    PROVE  IInv'
  <1>. DEFINE g == migrations[m]
              r == Request(Waiting[step], m, g.key)
  <1>1. /\ trusted = None /\ ~healed /\ use.by = "signing" /\ g \in Migrations
        /\ g.key \in SigningKeys /\ \A n \in DOMAIN migrations : migrations[n].alone => n = m
    BY WhileMigrating
  <1>2. /\ requests' = Append(requests, r) /\ UNCHANGED <<trusted, messages, healed>>
        /\ registered' = [others EXCEPT ![Waiting[step]] = m]
        /\ migrations' = [migrations EXCEPT ![m] = [g EXCEPT !.step = step]]
    BY DEF Ask
  <1>3. m \in Nat /\ Waiting[step] \in Keyed /\ begun.messages \in Nat
    BY DEF IInv, Sound, Waiting, Keyed
  <1>4. /\ r \in Requests /\ r.kind = Waiting[step] /\ r.kind # "Sign" /\ r.key = g.key
        /\ r.kind = "StoreSigningKey" => r.key \in SigningKeys
    BY <1>1, <1>3 DEF Request, Requests, KeyOrNone, Waiting, Keyed
  <1>5. /\ DOMAIN migrations' = DOMAIN migrations /\ m \in Nat
        /\ \A n \in DOMAIN migrations : n # m => migrations'[n] = migrations[n]
        /\ migrations'[m].step = step /\ migrations'[m].key = g.key
        /\ migrations'[m].alone = g.alone /\ migrations'[m].import = g.import
        /\ migrations'[m].steady = g.steady /\ migrations'[m] \in Migrations
    BY <1>1, <1>2, <1>3 DEF Migrations
  <1>. HIDE DEF r
  <1>6. Pending = {} /\ Pending' = {r} /\ requests' \in Seq(Requests) /\ Len(requests') <= 1
    BY <1>2, <1>4, NothingPending, Asked
  <1>7. TypeOK' /\ Held' = Held
    BY DEF IInv, TypeOK, Held, Signing
  <1>8. \A j \in DOMAIN responses' : \E i \in DOMAIN responses : responses'[j] = responses[i]
    BY DEF Left
  <1>9. Sound'
    <2>1. RegisteredOk(registered, migrations)'
      BY <1>2, <1>3, <1>5 DEF RegisteredOk
    <2>2. \A i \in DOMAIN responses' :
            responses'[i].kind = "Sign" => responses'[i].for <= begun'.messages
      BY <1>8 DEF IInv, Sound
    <2>3. \A n \in DOMAIN migrations' : migrations'[n] \in Migrations
      BY <1>5 DEF IInv, Sound
    <2>. QED
      BY <1>2, <1>4, <1>5, <1>6, <2>1, <2>2, <2>3 DEF IInv, Sound, Left
  <1>10. Idle' /\ Trusting'
    BY <1>1, <1>2 DEF Idle, Trusting
  <1>11. Applied'
    BY <1>2 DEF IInv, Applied
  <1>12. Covered'
    <2>1. \A j \in DOMAIN responses' :
            Ours(responses'[j], signings) /\ Sure(signings[responses'[j].for]) => Fine(responses'[j], signings)
      BY <1>8 DEF IInv, Covered
    <2>. QED
      BY <1>2, <1>4, <1>6, <2>1 DEF Covered, Ours, Sure
  <1>13. Lone'
    <2>. SUFFICES ASSUME g.alone, NEW k, k = g.key
                  PROVE  /\ DOMAIN migrations = {m}
                         /\ \A i \in DOMAIN responses' : Tells(responses'[i], k) => Held = k
                         /\ g.import /\ g.steady => Healing(k)'
      BY <1>1, <1>4, <1>5, <1>6, <1>7 DEF Lone
    <2>1. /\ DOMAIN migrations = {m}
          /\ \A i \in DOMAIN responses : Tells(responses[i], k) => Held = k
          /\ g.import /\ g.steady => Healing(k)
      BY DEF IInv, Lone
    <2>2. ASSUME Healing(k)
          PROVE  Healing(k)'
      <3>1. PICK d \in Nat : \A h \in DOMAIN responses' :
                h \in Nat /\ h + d \in DOMAIN responses /\ responses'[h] = responses[h + d]
        BY DEF Left
      <3>2. ASSUME NEW i \in DOMAIN responses', NEW j \in DOMAIN responses', i < j,
                   responses'[i].kind \in Keyed, Ours(responses'[j], signings)
            PROVE  /\ Author(responses'[j], signings) = k
                   /\ Tells(responses'[i], k) => Fine(responses'[j], signings)
        <4>1. /\ i + d \in DOMAIN responses /\ j + d \in DOMAIN responses /\ i + d < j + d
              /\ responses'[i] = responses[i + d] /\ responses'[j] = responses[j + d]
          BY <3>1, <3>2
        <4>. QED
          BY <2>2, <3>2, <4>1 DEF Healing
      <3>. QED
        BY <1>4, <1>6, <2>2, <3>2 DEF Healing, Ours
    <2>. QED
      BY <1>8, <2>1, <2>2
  <1>. QED
    BY <1>7, <1>9, <1>10, <1>11, <1>12, <1>13 DEF IInv

LEMMA ProceedHolds ==
    ASSUME IInv, requests = <<>>, NEW m \in DOMAIN migrations, NEW found, NEW others, Left,
           Proceed(m, found, others),
           UNCHANGED <<secrets, use, signings, identity, stored, loading>>,
           begun'.migrations = begun.migrations, begun'.messages = begun.messages,
           DOMAIN begun' = DOMAIN begun,
           RegisteredOk(others, migrations), \A kind \in Keyed : others[kind] # m,
           found = migrations[m].key /\ migrations[m].step # "store" /\ migrations[m].alone =>
                /\ Held = found
                /\ migrations[m].import /\ migrations[m].steady =>
                    /\ identity = found
                    /\ \A j \in DOMAIN responses' :
                        Ours(responses'[j], signings) => Fine(responses'[j], signings)
    PROVE  IInv'
  <1>1. CASE /\ found = migrations[m].key /\ migrations[m].step # "store"
             /\ registered' = others /\ End(m, TRUE)
    BY <1>1, EndHolds
  <1>2. CASE registered' = others /\ End(m, FALSE)
    BY <1>2, EndHolds
  <1>3. CASE Ask(m, "store", "StoreSigningKey", others)
    <2>1. "store" \in DOMAIN Waiting /\ Waiting["store"] = "StoreSigningKey"
      BY DEF Waiting
    <2>. QED
      BY <1>3, <2>1, AskHolds
  <1>4. CASE Ask(m, "verify", "PublicKey", others)
    <2>1. "verify" \in DOMAIN Waiting /\ Waiting["verify"] = "PublicKey"
      BY DEF Waiting
    <2>. QED
      BY <1>4, <2>1, AskHolds
  <1>. QED
    BY <1>1, <1>2, <1>3, <1>4 DEF Proceed

(* Nobody waits for an answer of another kind than its step asks for.       *)
LEMMA Unregistered ==
    ASSUME IInv, NEW m \in DOMAIN migrations, NEW kind, kind = Waiting[migrations[m].step],
           NEW others,
           others = [registered EXCEPT ![kind] = 0] \/ (others = registered /\ registered[kind] # m)
    PROVE  RegisteredOk(others, migrations) /\ \A k \in Keyed : others[k] # m
  <1>1. m # 0 /\ kind \in Keyed
    BY DEF IInv, Sound, Migrations, Waiting, Keyed
  <1>2. \A k \in Keyed : registered[k] = m => k = kind
    BY <1>1 DEF IInv, Sound, RegisteredOk
  <1>3. registered \in [Keyed -> Nat]
    BY DEF IInv, Sound, RegisteredOk
  <1>4. others \in [Keyed -> Nat] /\ \A k \in Keyed : others[k] # m /\ others[k] \in {0, registered[k]}
    BY <1>1, <1>2, <1>3
  <1>. QED
    BY <1>4 DEF IInv, Sound, RegisteredOk

LEMMA DeliverToMigrationHolds ==
    ASSUME IInv, requests = <<>>, DeliverToMigration
    PROVE  IInv'
  <1>. DEFINE r == Head(responses)
              m == registered[r.kind]
  <1>1. /\ UNCHANGED <<secrets, use, begun, signings, identity, stored, loading>>
        /\ responses \in Seq(Responses) /\ responses # <<>> /\ responses' = Tail(responses)
        /\ r.kind \in Keyed
    BY DEF DeliverToMigration, IInv, Sound, vars
  <1>2. /\ Left /\ 1 \in DOMAIN responses /\ r = responses[1]
        /\ \A j \in DOMAIN responses' :
             j + 1 \in DOMAIN responses /\ 1 < j + 1 /\ responses'[j] = responses[j + 1]
    BY <1>1, Received
  <1>3. CASE m = 0
    <2>1. UNCHANGED <<requests, registered, migrations, trusted, messages, healed>>
      BY <1>3 DEF DeliverToMigration, pending
    <2>2. Pending' = Pending /\ requests' \in Seq(Requests) /\ Len(requests') <= 1
      BY <2>1 DEF Pending, IInv, Sound
    <2>3. TypeOK' /\ Held' = Held
      BY <1>1 DEF IInv, TypeOK, Held, Signing
    <2>4. Fewer
      BY <1>1, <1>2, <2>2, <2>3 DEF Fewer
    <2>5. Sound'
      BY <1>1, <2>1, <2>2, <2>4, SoundKept DEF IInv, Sound, RegisteredOk
    <2>6. Lone' /\ Covered' /\ Trusting' /\ Applied'
      BY <1>1, <2>1, <2>2, <2>3, <2>4, LoneKept, CoveredKept DEF IInv, Trusting, Applied
    <2>7. Idle'
      BY <1>1, <2>1 DEF IInv, Idle
    <2>. QED
      BY <2>3, <2>5, <2>6, <2>7 DEF IInv
  <1>4. CASE m # 0
    <2>. DEFINE g == migrations[m]
                others == [registered EXCEPT ![r.kind] = 0]
    <2>1. m \in DOMAIN migrations /\ Waiting[g.step] = r.kind /\ g \in Migrations
      BY <1>1, <1>4 DEF IInv, Sound, RegisteredOk
    <2>2. Proceed(m, Found(r.answer), others)
      BY <1>4 DEF DeliverToMigration
    <2>3. RegisteredOk(others, migrations) /\ \A k \in Keyed : others[k] # m
      BY <2>1, Unregistered
    <2>4. ASSUME Found(r.answer) = g.key, g.step # "store", g.alone
          PROVE  /\ Held = g.key
                 /\ g.import /\ g.steady =>
                     /\ identity = g.key
                     /\ \A j \in DOMAIN responses' :
                         Ours(responses'[j], signings) => Fine(responses'[j], signings)
      <3>1. r.kind = "PublicKey"
        BY <2>1, <2>4 DEF Migrations, Waiting
      <3>2. Tells(responses[1], g.key)
        BY <1>2, <2>4, <3>1 DEF Tells
      <3>3. Held = g.key
        BY <1>2, <2>1, <2>4, <3>2 DEF IInv, Lone
      <3>4. ASSUME g.import, g.steady
            PROVE  Healing(g.key)
        BY <2>1, <2>4, <3>4 DEF IInv, Lone
      <3>5. ASSUME Healing(g.key), NEW j \in DOMAIN responses', Ours(responses'[j], signings)
            PROVE  Fine(responses'[j], signings)
        <4>1. j + 1 \in DOMAIN responses /\ 1 < j + 1 /\ responses'[j] = responses[j + 1]
          BY <1>2
        <4>. HIDE DEF g, m
        <4>. QED
          BY <1>1, <1>2, <3>2, <3>5, <4>1 DEF Healing
      <3>. QED
        BY <3>3, <3>4, <3>5 DEF Healing
    <2>. HIDE DEF m, others, r
    <2>. QED
      BY <1>1, <1>2, <2>1, <2>2, <2>3, <2>4, ProceedHolds
  <1>. QED
    BY <1>3, <1>4

LEMMA FailMigrationHolds ==
    ASSUME IInv, requests = <<>>, NEW m \in DOMAIN migrations, FailMigration(m)
    PROVE  IInv'
  <1>1. /\ UNCHANGED <<secrets, use, responses, signings, identity, stored, loading>>
        /\ UNCHANGED begun \/ begun' = [begun EXCEPT !.faults = @ + 1]
    BY DEF FailMigration, Fault, vars
  <1>2. /\ begun'.migrations = begun.migrations /\ begun'.messages = begun.messages
        /\ DOMAIN begun' = DOMAIN begun
    BY <1>1 DEF IInv, Sound
  <1>3. PICK kind, others :
            /\ kind = Waiting[migrations[m].step] /\ Proceed(m, Error, others)
            /\ others = [registered EXCEPT ![kind] = 0] \/ (others = registered /\ registered[kind] # m)
    BY DEF FailMigration
  <1>4. RegisteredOk(others, migrations) /\ \A k \in Keyed : others[k] # m
    BY <1>3, Unregistered
  <1>5. Error # migrations[m].key
    BY WhileMigrating, ErrorAssumption
  <1>6. Left
    BY <1>1, AllLeft DEF IInv, Sound
  <1>. QED
    BY <1>1, <1>2, <1>3, <1>4, <1>5, <1>6, ProceedHolds

(* Nothing that was under way concerns a migration that begins alone.       *)
LEMMA MigrateHolds ==
    ASSUME IInv, requests = <<>>, NEW k \in SigningKeys, NEW import \in BOOLEAN, Migrate(k, import),
           UNCHANGED <<secrets, use, responses, signings, stored>>,
           identity' \in KeyOrNone, import => identity' = k, messages' \subseteq messages
    PROVE  IInv'
  <1>. DEFINE m == begun.migrations + 1
              alone == migrations = <<>> /\ \A i \in DOMAIN responses : responses[i].kind \notin Keyed
              g == [key |-> k, import |-> import, step |-> "check", alone |-> alone, steady |-> TRUE]
              r == Request("PublicKey", m, k)
  <1>1. /\ use.by = "signing" /\ begun' = [begun EXCEPT !.migrations = m]
        /\ requests' = Append(requests, r)
        /\ registered' = [registered EXCEPT !.PublicKey = m]
        /\ trusted' = None /\ ~healed'
        /\ migrations' = [i \in DOMAIN migrations \cup {m} |->
                            IF i = m THEN g ELSE [migrations[i] EXCEPT !.alone = FALSE]]
    BY DEF Migrate
  <1>2. m \in Nat \ {0} /\ m \notin DOMAIN migrations /\ DOMAIN migrations \cup {m} \subseteq 1..m
    BY DEF IInv, Sound
  <1>3. /\ begun'.messages = begun.messages /\ begun'.migrations = m /\ DOMAIN begun' = DOMAIN begun
    BY <1>1 DEF IInv, Sound
  <1>4. r \in Requests /\ r.kind = "PublicKey"
    BY <1>2 DEF Request, Requests, Keyed, KeyOrNone
  <1>5. /\ g \in Migrations /\ g.key = k /\ g.import = import /\ g.step = "check" /\ g.alone = alone
    <2>1. alone \in BOOLEAN
      OBVIOUS
    <2>. HIDE DEF alone
    <2>. QED
      BY <2>1 DEF Migrations, Waiting
  <1>. HIDE DEF m, g, r
  <1>6. /\ DOMAIN migrations' = DOMAIN migrations \cup {m} /\ migrations'[m] = g
        /\ \A n \in DOMAIN migrations :
             migrations'[n] = [migrations[n] EXCEPT !.alone = FALSE]
    BY <1>1, <1>2
  <1>7. \A n \in DOMAIN migrations :
            /\ migrations'[n] \in Migrations /\ ~migrations'[n].alone
            /\ migrations'[n].step = migrations[n].step
    BY <1>6 DEF IInv, Sound, Migrations
  <1>8. Pending' = {r} /\ requests' \in Seq(Requests) /\ Len(requests') <= 1
    BY <1>1, <1>4, Asked
  <1>9. TypeOK' /\ Held' = Held
    BY DEF IInv, TypeOK, Held, Signing
  <1>10. Sound'
    <2>1. RegisteredOk(registered, migrations)'
      <3>1. /\ registered' \in [Keyed -> Nat] /\ registered'["PublicKey"] = m
            /\ registered'["StoreSigningKey"] = registered["StoreSigningKey"]
        BY <1>1, <1>2 DEF IInv, Sound, RegisteredOk, Keyed
      <3>2. Waiting["check"] = "PublicKey"
        BY DEF Waiting
      <3>. QED
        BY <1>2, <1>5, <1>6, <1>7, <3>1, <3>2 DEF IInv, Sound, RegisteredOk, Keyed
    <2>2. \A n \in DOMAIN migrations' : migrations'[n] \in Migrations
      BY <1>5, <1>6, <1>7
    <2>. QED
      BY <1>1, <1>2, <1>3, <1>4, <1>6, <1>8, <2>1, <2>2 DEF IInv, Sound, KeyOrNone
  <1>11. Idle' /\ Trusting' /\ Applied'
    BY <1>1 DEF IInv, Idle, Trusting, Applied
  <1>12. Covered'
    BY <1>1, <1>4, <1>8 DEF IInv, Covered, Sure, Ours
  <1>13. Lone'
    <2>1. ASSUME alone
          PROVE  DOMAIN migrations' = {m} /\ \A i \in DOMAIN responses : responses[i].kind \notin Keyed
      <3>1. DOMAIN migrations = {}
        BY <2>1, EmptySeq
      <3>. QED
        BY <1>6, <2>1, <3>1
    <2>. HIDE DEF alone
    <2>2. ASSUME alone
          PROVE  /\ \A i \in DOMAIN responses' : ~Tells(responses'[i], k)
                 /\ import => Healing(k)'
      BY <1>4, <1>8, <2>1, <2>2 DEF Tells, Keyed, Healing, Ours
    <2>. QED
      BY <1>4, <1>5, <1>6, <1>7, <1>8, <2>1, <2>2 DEF Lone
  <1>. QED
    BY <1>9, <1>10, <1>11, <1>12, <1>13 DEF IInv

(* The identity changes without a migration.                               *)
LEMMA UnsteadyHolds ==
    ASSUME IInv, migrations' = Unsteady, ~healed', messages' \subseteq messages,
           UNCHANGED <<secrets, use, requests, responses, registered, trusted, signings, stored>>,
           begun'.migrations = begun.migrations, begun'.messages = begun.messages,
           DOMAIN begun' = DOMAIN begun,
           identity' \in KeyOrNone, use.by = "signing" \/ identity' = None
    PROVE  IInv'
  <1>1. /\ DOMAIN migrations' = DOMAIN migrations
        /\ \A n \in DOMAIN migrations : migrations'[n] = [migrations[n] EXCEPT !.steady = FALSE]
    BY DEF Unsteady
  <1>2. \A n \in DOMAIN migrations :
            /\ migrations'[n] \in Migrations /\ ~migrations'[n].steady
            /\ migrations'[n].step = migrations[n].step /\ migrations'[n].key = migrations[n].key
            /\ migrations'[n].alone = migrations[n].alone
    BY <1>1 DEF IInv, Sound, Migrations
  <1>3. TypeOK' /\ Held' = Held /\ Pending' = Pending
    BY DEF IInv, TypeOK, Held, Signing, Pending
  <1>4. Fewer
    BY <1>3, AllLeft DEF Fewer, IInv, Sound
  <1>5. Sound'
    BY <1>1, <1>2, <1>4, SoundKept DEF IInv, Sound, RegisteredOk
  <1>6. Idle' /\ Trusting' /\ Applied'
    BY <1>1, <1>3 DEF IInv, Idle, Trusting, Applied
  <1>7. Covered'
    BY <1>4, CoveredKept DEF IInv
  <1>8. Lone'
    <2>. SUFFICES ASSUME NEW m \in DOMAIN migrations, migrations[m].alone, NEW k, k = migrations[m].key
                  PROVE  /\ DOMAIN migrations = {m}
                         /\ \A r \in Pending : r.kind = "StoreSigningKey" => r.key = k
                         /\ \A i \in DOMAIN responses : Tells(responses[i], k) => Held = k
      BY <1>1, <1>2, <1>3 DEF Lone
    <2>. QED
      BY DEF IInv, Lone
  <1>. QED
    BY <1>3, <1>5, <1>6, <1>7, <1>8 DEF IInv

(* Only what is stored, or whether it was asked for, changes.               *)
LEMMA StoredHolds ==
    ASSUME IInv, stored' \in KeyOrNone,
           UNCHANGED <<secrets, use, requests, responses, registered, migrations, trusted, begun>>,
           UNCHANGED <<signings, identity, messages, healed>>
    PROVE  IInv'
  <1>1. TypeOK' /\ Held' = Held /\ Pending' = Pending
    BY DEF IInv, TypeOK, Held, Signing, Pending
  <1>2. Fewer
    BY <1>1, AllLeft DEF Fewer, IInv, Sound
  <1>3. Sound' /\ Lone' /\ Covered'
    BY <1>2, SoundKept, LoneKept, CoveredKept DEF IInv, Sound, RegisteredOk
  <1>4. Idle' /\ Trusting' /\ Applied'
    BY <1>1 DEF IInv, Idle, Trusting, Applied
  <1>. QED
    BY <1>1, <1>3, <1>4 DEF IInv

LEMMA UserHolds ==
    ASSUME IInv, requests = <<>>, User
    PROVE  IInv'
  <1>1. identity \in KeyOrNone /\ stored \in KeyOrNone /\ use.keys \subseteq SigningKeys
    BY UsesAssumption DEF IInv, Sound
  <1>2. CASE Compose
    BY <1>2, ComposeHolds
  <1>3. CASE Load
    <2>1. UNCHANGED <<secrets, use, responses, signings, stored, messages>>
      BY <1>3 DEF Load, vars
    <2>2. CASE stored = None
      <3>1. UNCHANGED <<requests, registered, migrations, trusted, begun, identity, healed>>
        BY <1>3, <2>2 DEF Load, pending
      <3>. QED
        BY <1>1, <2>1, <3>1, StoredHolds
    <2>3. CASE stored # None
      <3>1. Migrate(stored, FALSE) /\ stored \in SigningKeys /\ identity' \in KeyOrNone
        BY <1>1, <1>3, <2>3 DEF Load, KeyOrNone
      <3>. QED
        BY <2>1, <3>1, MigrateHolds
    <2>. QED
      BY <2>2, <2>3
  <1>4. CASE Leave
    <2>1. UNCHANGED <<secrets, use, requests, responses, registered, trusted, begun, signings, stored>>
      BY <1>4 DEF Leave, vars
    <2>2. /\ identity' = None /\ messages' = {} /\ ~healed' /\ migrations' = Unsteady
          /\ identity' \in KeyOrNone
      BY <1>4 DEF Leave, KeyOrNone
    <2>. QED
      BY <2>1, <2>2, UnsteadyHolds
  <1>5. CASE Save
    BY <1>1, <1>5, StoredHolds DEF Save, vars, pending
  <1>6. ASSUME NEW k \in use.keys, AcceptInvitation(k)
        PROVE  IInv'
    <2>1. /\ UNCHANGED <<secrets, use, responses, signings, stored, loading, messages>>
          /\ use.by = "signing" /\ k \in SigningKeys /\ identity' \in KeyOrNone
      BY <1>1, <1>6 DEF AcceptInvitation, vars, KeyOrNone
    <2>2. CASE Migrate(k, FALSE)
      BY <2>1, <2>2, MigrateHolds
    <2>3. CASE Fault /\ ~healed' /\ migrations' = Unsteady /\ UNCHANGED <<requests, registered, trusted>>
      <3>1. /\ begun'.migrations = begun.migrations /\ begun'.messages = begun.messages
            /\ DOMAIN begun' = DOMAIN begun
        BY <2>3 DEF Fault, IInv, Sound
      <3>. QED
        BY <2>1, <2>3, <3>1, UnsteadyHolds
    <2>. QED
      BY <1>6, <2>2, <2>3 DEF AcceptInvitation
  <1>7. ASSUME NEW k \in use.keys, ImportIdentity(k)
        PROVE  IInv'
    <2>1. /\ UNCHANGED <<secrets, use, responses, signings, stored>>
          /\ Migrate(k, TRUE) /\ k \in SigningKeys /\ identity' = k /\ identity' \in KeyOrNone
          /\ messages' = {}
      BY <1>1, <1>7 DEF ImportIdentity, vars, KeyOrNone
    <2>. QED
      BY <2>1, MigrateHolds
  <1>. QED
    BY <1>2, <1>3, <1>4, <1>5, <1>6, <1>7 DEF User

---------------------------------------------------------------------------

LEMMA NextHolds == IInv /\ [SigningNext]_signingVars => IInv'
  <1>. SUFFICES ASSUME IInv, [SigningNext]_signingVars
                PROVE  IInv'
    OBVIOUS
  <1>1. CASE Applications
    BY <1>1, ApplicationsHold
  <1>2. CASE Handle
    BY <1>2, HandleHolds
  <1>3. CASE Disconnect
    BY <1>3, DisconnectHolds
  <1>4. CASE requests = <<>> /\ User
    BY <1>4, UserHolds
  <1>5. CASE requests = <<>> /\ Client
    BY <1>5, DeliverToMigrationHolds, DeliverSignatureHolds, FailMigrationHolds, SignLocallyHolds
    DEF Client
  <1>6. CASE UNCHANGED signingVars
    <2>1. UNCHANGED <<vars, use, requests, responses, pending, begun, signings, board>>
      BY <1>6 DEF signingVars, client
    <2>. QED
      BY <2>1, StoredHolds DEF vars, pending, board, IInv, Sound
  <1>. QED
    BY <1>1, <1>2, <1>3, <1>4, <1>5, <1>6 DEF SigningNext

LEMMA AlwaysHolds == SigningSpec => []IInv
  BY InitHolds, NextHolds, PTL DEF SigningSpec

(* What a client that signs through it, or any application, makes of the    *)
(* delegate's store is what the names say.                                 *)
THEOREM SigningTypes == SigningSpec => []TypeOK
  <1>1. IInv => TypeOK
    BY DEF IInv
  <1>. QED
    BY <1>1, AlwaysHolds, PTL

(* A record composed when the delegate was said to hold its author's key is *)
(* signed by its author, whatever fails, is late or is lost.               *)
THEOREM AuthorsSign == SigningSpec => []SignedByAuthor
  <1>1. IInv => SignedByAuthor
    BY DEF IInv, Applied, SignedByAuthor
  <1>. QED
    BY <1>1, AlwaysHolds, PTL

(* After an import that nothing disturbed every message of the board is      *)
(* signed by its author, those under way and those to come included.        *)
THEOREM ImportsHeal == SigningSpec => []ImportHeals
  <1>1. IInv => ImportHeals
    BY DEF IInv, Applied, ImportHeals
  <1>. QED
    BY <1>1, AlwaysHolds, PTL

(* To the delegate the signing client is one of the applications: each of   *)
(* them sees a store of its own.                                           *)
THEOREM SigningKeepsPromise == SigningSpec => KeepsPromise
  <1>1. SigningInit => Init
    BY DEF SigningInit
  <1>2. IInv /\ [SigningNext]_signingVars => [Next]_vars
    <2>. SUFFICES ASSUME IInv, [SigningNext]_signingVars
                  PROVE  [Next]_vars
      OBVIOUS
    <2>1. CASE Handle
      <3>1. Head(requests).kind = "StoreSigningKey" => Head(requests).key \in SigningKeys
        <4>1. requests # <<>> /\ requests \in Seq(Requests)
          BY <2>1 DEF Handle, IInv, Sound
        <4>2. Head(requests) \in Pending
          BY <4>1, HeadTailProperties, EmptySeq, LenProperties DEF Pending
        <4>. QED
          BY <4>2 DEF IInv, Sound
      <3>. QED
        BY <2>1, <3>1, WebAssumption DEF Handle, Next
    <2>2. CASE Applications
      BY <2>2 DEF Applications
    <2>3. CASE UNCHANGED vars
      BY <2>3
    <2>4. CASE Disconnect \/ User \/ Client
      BY <2>4 DEF Disconnect, User, Client, Compose, Load, Leave, Save, AcceptInvitation, ImportIdentity,
                  DeliverToMigration, DeliverSignature, FailMigration, SignLocally, Signed
    <2>. QED
      BY <2>1, <2>2, <2>3, <2>4 DEF SigningNext, signingVars
  <1>3. SigningSpec => Spec
    BY <1>1, <1>2, AlwaysHolds, PTL DEF SigningSpec, Spec
  <1>. QED
    BY <1>3, DelegateKeepsPromise
=============================================================================
