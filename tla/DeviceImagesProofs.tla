------------------------- MODULE DeviceImagesProofs -------------------------
(* Type correctness of DeviceImages, that no row names a missing file, why a  *)
(* file is left without a row, and how many images a device can have.         *)
EXTENDS DeviceImages, FiniteSetTheorems, TLAPS

(* The counting of the types: what a new upload has room for.                 *)
LEMMA RoomInRange ==
  ASSUME NEW S \in SUBSET Key, Cardinality(S) < MaxImages
  PROVE  MaxImages - Cardinality(S) \in 0 .. MaxImages
<1>1. IsFiniteSet(Key)
  BY FS_Interval, ImagesAssumption DEF Key
<1>2. IsFiniteSet(S)
  BY <1>1, FS_Subset
<1>3. Cardinality(S) \in Nat
  BY <1>2, FS_CardinalityType
<1> QED BY <1>3, ImagesAssumption

LEMMA TypeNext == TypeOK /\ [Next]_vars => TypeOK'
<1> SUFFICES ASSUME TypeOK, [Next]_vars PROVE TypeOK'
  OBVIOUS
<1>0. Idle \in Request
  BY ImagesAssumption DEF Idle, Request
<1>1. ASSUME NEW p \in Proc, UploadReceive(p) PROVE TypeOK'
  <2>1. Room \in 0 .. MaxImages
    BY <1>1, RoomInRange DEF UploadReceive, Room, TypeOK
  <2>2. [Idle EXCEPT !.pc = "upload", !.remaining = Room] \in Request
    BY <2>1 DEF Idle, Request
  <2> QED BY <1>1, <2>2 DEF UploadReceive, Go, TypeOK
<1>2. ASSUME NEW p \in Proc, UploadPart(p) PROVE TypeOK'
  <2>1. req[p] \in Request /\ issued + 1 \in Key
    BY <1>2, ImagesAssumption DEF UploadPart, TypeOK, Key
  <2>2. req[p].remaining - 1 \in 0 .. MaxImages
    BY <1>2, <2>1, ImagesAssumption DEF UploadPart, Request
  <2>3. req[p].saved \cup {issued + 1} \in SUBSET Key
    BY <2>1 DEF Request
  <2>4. [req[p] EXCEPT !.remaining = @ - 1, !.saved = @ \cup {issued + 1}] \in Request
    BY <2>1, <2>2, <2>3 DEF Request
  <2> QED BY <1>2, <2>1, <2>4, ImagesAssumption DEF UploadPart, Go, TypeOK
<1>3. ASSUME NEW p \in Proc, UploadRefused(p) \/ Fail(p) PROVE TypeOK'
  BY <1>0, <1>3 DEF UploadRefused, Fail, Reply, Go, TypeOK
<1>4. ASSUME NEW p \in Proc, UploadCommit(p) PROVE TypeOK'
  <2>1. req[p].saved \in SUBSET Key
    BY DEF TypeOK, Request
  <2> QED BY <1>0, <1>4, <2>1 DEF UploadCommit, Reply, Go, TypeOK
<1>5. ASSUME NEW p \in Proc, DeleteReceive(p) PROVE TypeOK'
  <2>1. PICK k \in images : Go(p, [Idle EXCEPT !.pc = "delete_row", !.key = k])
    BY <1>5 DEF DeleteReceive
  <2>2. k \in Key
    BY DEF TypeOK
  <2>3. [Idle EXCEPT !.pc = "delete_row", !.key = k] \in Request
    BY <1>0, <2>2 DEF Request
  <2> QED BY <1>5, <2>1, <2>3 DEF DeleteReceive, Go, TypeOK
<1>6. ASSUME NEW p \in Proc, DeleteRow(p) PROVE TypeOK'
  BY <1>0, <1>6 DEF DeleteRow, Reply, Go, TypeOK
<1>7. ASSUME NEW k \in Key, DropFile(k) PROVE TypeOK'
  BY <1>7 DEF DropFile, TypeOK
<1>8. CASE UNCHANGED vars
  BY <1>8 DEF vars, TypeOK
<1> QED BY <1>1, <1>2, <1>3, <1>4, <1>5, <1>6, <1>7, <1>8 DEF Next

THEOREM TypeCorrect == Spec => []TypeOK
<1>1. Init => TypeOK
  BY ImagesAssumption DEF Init, TypeOK, Idle, Request
<1> QED BY <1>1, TypeNext, PTL DEF Spec

-----------------------------------------------------------------------------
(* Why a deletion never takes a file a row still needs: keys are given out    *)
(* once, so a file is in one of the hands that may yet create its row, or in  *)
(* the table, or on its way out, and those three never overlap.               *)
FilesInv ==
  /\ NoDeadLinks
  /\ \A p \in Proc : req[p].saved \subseteq stored
  /\ stored \subseteq 1 .. issued
  /\ dropping \subseteq 1 .. issued
  /\ images \cap dropping = {}
  /\ \A p \in Proc : req[p].saved \cap dropping = {}
  /\ \A p \in Proc : req[p].saved \cap images = {}
  /\ \A p, q \in Proc : p # q => req[p].saved \cap req[q].saved = {}

LEMMA FilesKept == Spec => []FilesInv
<1>1. Init => FilesInv
  BY DEF Init, FilesInv, NoDeadLinks, Idle
<1>2. TypeOK /\ FilesInv /\ [Next]_vars => FilesInv'
  <2> SUFFICES ASSUME TypeOK, FilesInv, [Next]_vars PROVE FilesInv'
    OBVIOUS
  <2>0. \A p \in Proc : req[p] \in Request
    BY DEF TypeOK
  <2>1. ASSUME NEW p \in Proc, UploadReceive(p) PROVE FilesInv'
    BY <2>1 DEF UploadReceive, Go, Idle, TypeOK, FilesInv, NoDeadLinks
  <2>2. ASSUME NEW p \in Proc, UploadPart(p) PROVE FilesInv'
    <3>1. /\ req'[p].saved = req[p].saved \cup {issued + 1}
          /\ \A q \in Proc \ {p} : req'[q] = req[q]
      BY <2>0, <2>2 DEF UploadPart, Go, TypeOK, Request
    <3>2. issued' = issued + 1 /\ issued \in Nat
      BY <2>2 DEF UploadPart, TypeOK
    <3>3. issued + 1 \notin stored \cup dropping \cup images
      BY <3>2 DEF FilesInv, NoDeadLinks
    <3>4. \A q \in Proc : issued + 1 \notin req[q].saved
      BY <3>3 DEF FilesInv
    <3>5. stored' \subseteq 1 .. issued' /\ dropping' \subseteq 1 .. issued'
      BY <2>2, <3>2 DEF UploadPart, FilesInv
    <3>6. NoDeadLinks' /\ images' \cap dropping' = {}
      BY <2>2 DEF UploadPart, FilesInv, NoDeadLinks
    <3>7. \A q \in Proc : req'[q].saved \subseteq stored'
      BY <2>2, <3>1 DEF UploadPart, FilesInv
    <3>8. \A q \in Proc : /\ req'[q].saved \cap dropping' = {}
                          /\ req'[q].saved \cap images' = {}
      BY <2>2, <3>1, <3>3 DEF UploadPart, FilesInv
    <3>9. \A q, r \in Proc : q # r => req'[q].saved \cap req'[r].saved = {}
      BY <3>1, <3>4 DEF FilesInv
    <3> QED BY <3>5, <3>6, <3>7, <3>8, <3>9 DEF FilesInv
  <2>3. ASSUME NEW p \in Proc, UploadRefused(p) \/ Fail(p) PROVE FilesInv'
    <3>1. /\ req'[p].saved = {}
          /\ \A q \in Proc \ {p} : req'[q] = req[q]
          /\ UNCHANGED <<images, stored, issued, dropping>>
      BY <2>3 DEF UploadRefused, Fail, Reply, Go, Idle, TypeOK
    <3> QED BY <3>1 DEF FilesInv, NoDeadLinks
  <2>4. ASSUME NEW p \in Proc, UploadCommit(p) PROVE FilesInv'
    <3>1. /\ req'[p].saved = {}
          /\ \A q \in Proc \ {p} : req'[q] = req[q]
      BY <2>4 DEF UploadCommit, Reply, Go, Idle, TypeOK
    <3> QED BY <2>4, <3>1 DEF UploadCommit, FilesInv, NoDeadLinks
  <2>5. ASSUME NEW p \in Proc, DeleteReceive(p) PROVE FilesInv'
    BY <2>5 DEF DeleteReceive, Go, Idle, TypeOK, FilesInv, NoDeadLinks
  <2>6. ASSUME NEW p \in Proc, DeleteRow(p) PROVE FilesInv'
    <3>1. /\ req'[p].saved = {}
          /\ \A q \in Proc \ {p} : req'[q] = req[q]
      BY <2>6 DEF DeleteRow, Reply, Go, Idle, TypeOK
    <3>2. /\ images' = images \ {req[p].key} /\ UNCHANGED <<stored, issued>>
          /\ \A k \in dropping' : k \in dropping \/ (k = req[p].key /\ k \in images)
      BY <2>6 DEF DeleteRow
    <3>3. images' \subseteq stored' /\ images' \subseteq images
      BY <3>2 DEF FilesInv, NoDeadLinks
    <3>4. \A q \in Proc : req'[q].saved \subseteq req[q].saved
      BY <3>1
    <3>5. /\ dropping' \subseteq 1 .. issued' /\ images' \cap dropping' = {}
          /\ \A q \in Proc : req[q].saved \cap dropping' = {}
      BY <3>2 DEF FilesInv, NoDeadLinks
    <3> QED BY <3>2, <3>3, <3>4, <3>5 DEF FilesInv, NoDeadLinks
  <2>7. ASSUME NEW k \in Key, DropFile(k) PROVE FilesInv'
    <3>1. k \in dropping /\ k \notin images /\ \A q \in Proc : k \notin req[q].saved
      BY <2>7 DEF DropFile, FilesInv
    <3>2. req' = req /\ images' = images /\ issued' = issued
      BY <2>7 DEF DropFile
    <3>3. dropping' \subseteq dropping /\ stored \ {k} \subseteq stored' /\ stored' \subseteq stored
      BY <2>7 DEF DropFile
    <3>4. NoDeadLinks' /\ \A p \in Proc : req'[p].saved \subseteq stored'
      BY <3>1, <3>2, <3>3 DEF FilesInv, NoDeadLinks
    <3>5. stored' \subseteq 1 .. issued' /\ dropping' \subseteq 1 .. issued'
      BY <3>2, <3>3 DEF FilesInv
    <3>6. images' \cap dropping' = {}
      BY <3>2, <3>3 DEF FilesInv
    <3>7. \A p, q \in Proc : /\ req'[p].saved \cap dropping' = {}
                             /\ req'[p].saved \cap images' = {}
                             /\ p # q => req'[p].saved \cap req'[q].saved = {}
      BY <3>2, <3>3 DEF FilesInv
    <3> QED BY <3>4, <3>5, <3>6, <3>7 DEF FilesInv
  <2>8. CASE UNCHANGED vars
    BY <2>8 DEF vars, FilesInv, NoDeadLinks
  <2> QED BY <2>1, <2>2, <2>3, <2>4, <2>5, <2>6, <2>7, <2>8 DEF Next
<1> QED BY <1>1, <1>2, TypeCorrect, PTL DEF Spec

(* No row of device_images ever names a file the storage does not hold.       *)
THEOREM LinksAlive == Spec => []NoDeadLinks
<1>1. FilesInv => NoDeadLinks
  BY DEF FilesInv
<1> QED BY <1>1, FilesKept, PTL

-----------------------------------------------------------------------------
\* Only an upload has files saved.
SavedInv == \A p \in Proc : req[p].pc # "upload" => req[p].saved = {}

LEMMA SavedNext == TypeOK /\ SavedInv /\ [Next]_vars => SavedInv'
<1> SUFFICES ASSUME TypeOK, SavedInv, [Next]_vars PROVE SavedInv'
  OBVIOUS
<1>1. ASSUME NEW p \in Proc, UploadReceive(p) PROVE SavedInv'
  BY <1>1 DEF UploadReceive, Go, Idle, TypeOK, SavedInv
<1>2. ASSUME NEW p \in Proc, UploadPart(p) PROVE SavedInv'
  BY <1>2 DEF UploadPart, Go, TypeOK, Request, SavedInv
<1>3. ASSUME NEW p \in Proc,
             UploadRefused(p) \/ UploadCommit(p) \/ DeleteRow(p) \/ Fail(p)
      PROVE  SavedInv'
  BY <1>3 DEF UploadRefused, UploadCommit, DeleteRow, Fail, Reply, Go, Idle, TypeOK, SavedInv
<1>4. ASSUME NEW p \in Proc, DeleteReceive(p) PROVE SavedInv'
  BY <1>4 DEF DeleteReceive, Go, Idle, TypeOK, SavedInv
<1>5. CASE req' = req
  BY <1>5 DEF SavedInv
<1> QED BY <1>1, <1>2, <1>3, <1>4, <1>5 DEF Next, DropFile, vars

(* A file loses its last hold only to a background deletion that fails, or to *)
(* the refusal or the failure of the request that stored it.                  *)
THEOREM OrphansExplained == Spec => NoOrphans
<1> DEFINE Explained(k) == Orphan(k)' /\ ~Orphan(k) =>
      k \in dropping \/ (k \in Saved /\ UNCHANGED images)
<1>1. TypeOK /\ SavedInv /\ [Next]_vars => [\A k \in Key : Explained(k)]_vars
  <2> SUFFICES ASSUME TypeOK, SavedInv, Next, NEW k \in Key, Orphan(k)', ~Orphan(k),
                      k \notin dropping
               PROVE  k \in Saved /\ UNCHANGED images
    OBVIOUS
  <2>0. /\ k \in stored' /\ k \notin images' /\ k \notin dropping'
        /\ \A q \in Proc : k \notin req'[q].saved
    BY DEF Orphan, Saved
  <2>1. k \in stored => k \in images \/ \E q \in Proc : k \in req[q].saved
    BY DEF Orphan, Saved
  <2>2. ASSUME stored' = stored, images' = images
        PROVE  k \in Saved /\ UNCHANGED images
    BY <2>0, <2>1, <2>2 DEF Saved
  <2>3. ASSUME NEW p \in Proc,
               UploadReceive(p) \/ UploadRefused(p) \/ DeleteReceive(p) \/ Fail(p)
        PROVE  k \in Saved /\ UNCHANGED images
    BY <2>2, <2>3 DEF UploadReceive, UploadRefused, DeleteReceive, Fail
  <2>4. ASSUME NEW p \in Proc, UploadPart(p) PROVE FALSE
    <3>1. /\ req'[p].saved = req[p].saved \cup {issued + 1}
          /\ \A q \in Proc \ {p} : req'[q] = req[q]
      BY <2>4 DEF UploadPart, Go, TypeOK, Request
    <3>2. stored' = stored \cup {issued + 1} /\ images' = images
      BY <2>4 DEF UploadPart
    <3>3. k # issued + 1
      BY <2>0, <3>1
    <3> QED BY <2>0, <2>1, <3>1, <3>2, <3>3
  <2>5. ASSUME NEW p \in Proc, UploadCommit(p) PROVE FALSE
    <3>1. /\ images' = images \cup req[p].saved
          /\ stored' = stored
          /\ \A q \in Proc \ {p} : req'[q] = req[q]
      BY <2>5 DEF UploadCommit, Reply, Go, TypeOK
    <3> QED BY <2>0, <2>1, <3>1
  <2>6. ASSUME NEW p \in Proc, DeleteRow(p)
        PROVE  k \in Saved /\ UNCHANGED images
    <3>1. /\ images' = images \ {req[p].key}
          /\ stored' = stored
          /\ req[p].key \in images => req[p].key \in dropping'
      BY <2>6 DEF DeleteRow
    <3>2. k \notin images
      BY <2>0, <3>1
    <3>3. req[p].saved = {} /\ \A q \in Proc \ {p} : req'[q] = req[q]
      BY <2>6 DEF DeleteRow, Reply, Go, TypeOK, SavedInv
    <3> QED BY <2>0, <2>1, <3>1, <3>2, <3>3
  <2>7. ASSUME NEW j \in Key, DropFile(j) PROVE k \in Saved /\ UNCHANGED images
    <3>1. j # k /\ stored \ {j} \subseteq stored' /\ stored' \subseteq stored /\ images' = images
      BY <2>7 DEF DropFile
    <3> QED BY <2>0, <2>1, <3>1 DEF Saved
  <2> QED BY <2>3, <2>4, <2>5, <2>6, <2>7 DEF Next
<1>2. Init => SavedInv
  BY DEF Init, Idle, SavedInv
<1> QED BY <1>1, <1>2, SavedNext, TypeCorrect, PTL DEF Spec, NoOrphans

-----------------------------------------------------------------------------
(* How far the check of MAX_IMAGES can be overrun.  Each row is on the account *)
(* of the request that made it; what an account holds, what its upload has     *)
(* saved and what it may still save are together within MAX_IMAGES.            *)

Within(account, p) ==
  /\ account[p] \subseteq images
  /\ Cardinality(account[p]) + Cardinality(req[p].saved) + req[p].remaining
        <= MaxImages

Accounts ==
  \E account \in [Proc -> SUBSET Key] :
    /\ \A k \in images : \E p \in Proc : k \in account[p]
    /\ \A p \in Proc : Within(account, p)

LEMMA KeysFinite ==
  ASSUME NEW S \in SUBSET Key
  PROVE  IsFiniteSet(S) /\ Cardinality(S) \in Nat
<1>1. IsFiniteSet(Key)
  BY FS_Interval, ImagesAssumption DEF Key
<1> QED BY <1>1, FS_Subset, FS_CardinalityType

\* A set covered by as many sets as T has members, each of at most n.
LEMMA Cover ==
  ASSUME NEW T, IsFiniteSet(T), NEW n \in Nat, NEW S,
         NEW part, \A t \in T : IsFiniteSet(part[t]) /\ Cardinality(part[t]) <= n,
         \A x \in S : \E t \in T : x \in part[t]
  PROVE  Cardinality(S) <= n * Cardinality(T)
<1> DEFINE Order(t) == CHOOSE b : b \in Bijection(1 .. Cardinality(part[t]), part[t])
           Owner(x) == CHOOSE t \in T : x \in part[t]
           Place(x) == CHOOSE i \in 1 .. Cardinality(part[Owner(x)]) : Order(Owner(x))[i] = x
           Slot == [x \in S |-> <<Place(x), Owner(x)>>]
<1>1. \A x \in S : Owner(x) \in T /\ x \in part[Owner(x)]
  OBVIOUS
<1>2. \A t \in T : /\ Cardinality(part[t]) \in Nat
                  /\ Order(t) \in Bijection(1 .. Cardinality(part[t]), part[t])
  BY FS_CardinalityType DEF ExistsBijection
<1> HIDE DEF Order, Owner
<1>3. \A x \in S : /\ Place(x) \in 1 .. Cardinality(part[Owner(x)])
                  /\ Order(Owner(x))[Place(x)] = x
  BY <1>1, <1>2 DEF Bijection, Surjection
<1> HIDE DEF Place
<1>4. \A x \in S : Place(x) \in 1 .. n
  BY <1>1, <1>2, <1>3
<1>5. Slot \in Injection(S, (1 .. n) \X T)
  <2>1. Slot \in [S -> (1 .. n) \X T]
    BY <1>1, <1>4
  <2>2. \A x, y \in S : Slot[x] = Slot[y] => x = y
    BY <1>3
  <2> HIDE DEF Slot
  <2> QED BY <2>1, <2>2 DEF Injection, IsInjective
<1>6. /\ IsFiniteSet(1 .. n) /\ Cardinality(1 .. n) = n
      /\ IsFiniteSet((1 .. n) \X T)
      /\ Cardinality((1 .. n) \X T) = n * Cardinality(T)
  <2>1. IsFiniteSet(1 .. n) /\ Cardinality(1 .. n) = n
    BY FS_Interval
  <2> QED BY <2>1, FS_Product
<1> HIDE DEF Slot
<1> QED BY <1>5, <1>6, FS_Injection

LEMMA RequestIs ==
  ASSUME TypeOK, NEW p \in Proc
  PROVE  /\ req[p].remaining \in Nat /\ req[p].saved \in SUBSET Key
         /\ Cardinality(req[p].saved) \in Nat
  BY KeysFinite, ImagesAssumption DEF TypeOK, Request

LEMMA AfterReply ==
  ASSUME TypeOK, NEW p \in Proc, Reply(p)
  PROVE  /\ req'[p].saved = {} /\ req'[p].remaining = 0
         /\ Cardinality(req'[p].saved) = 0
         /\ \A q \in Proc \ {p} : req'[q] = req[q]
  BY FS_EmptySet DEF Reply, Go, Idle, TypeOK

\* A step of p that may save no more than p could before.
LEMMA AccountsKept ==
  ASSUME TypeOK, TypeOK', Accounts, images' = images, NEW p \in Proc,
         \A q \in Proc \ {p} : req'[q] = req[q],
         Cardinality(req'[p].saved) + req'[p].remaining
           <= Cardinality(req[p].saved) + req[p].remaining
  PROVE  Accounts'
<1>1. PICK account \in [Proc -> SUBSET Key] :
        /\ \A k \in images : \E q \in Proc : k \in account[q]
        /\ \A q \in Proc : Within(account, q)
  BY DEF Accounts
<1>2. ASSUME NEW q \in Proc PROVE Within(account, q)'
  <2>1. Cardinality(account[q]) \in Nat /\ Within(account, q)
    BY <1>1, KeysFinite
  <2>2. /\ req'[q].remaining \in Nat /\ Cardinality(req'[q].saved) \in Nat
        /\ req[q].remaining \in Nat /\ Cardinality(req[q].saved) \in Nat
    BY RequestIs, KeysFinite, ImagesAssumption DEF TypeOK, Request
  <2>3. CASE q = p
    BY <2>1, <2>2, <2>3, ImagesAssumption DEF Within
  <2>4. CASE q # p
    BY <2>1, <2>4 DEF Within
  <2> QED BY <2>3, <2>4
<1> QED BY <1>1, <1>2 DEF Accounts

LEMMA AccountsNext == TypeOK /\ FilesInv /\ Accounts /\ [Next]_vars => Accounts'
<1> SUFFICES ASSUME TypeOK, FilesInv, Accounts, [Next]_vars PROVE Accounts'
  OBVIOUS
<1>0. TypeOK'
  BY TypeNext
<1>1. PICK account \in [Proc -> SUBSET Key] :
        /\ \A k \in images : \E q \in Proc : k \in account[q]
        /\ \A q \in Proc : Within(account, q)
  BY DEF Accounts
<1>2. \A q \in Proc : /\ Cardinality(account[q]) \in Nat
                     /\ req[q].remaining \in Nat
                     /\ Cardinality(req[q].saved) \in Nat
  BY KeysFinite, RequestIs
<1>3. ASSUME NEW p \in Proc, UploadReceive(p) PROVE Accounts'
  <2>1. /\ req'[p].saved = {} /\ req'[p].remaining = MaxImages - Cardinality(images)
        /\ \A q \in Proc \ {p} : req'[q] = req[q]
        /\ images' = images
    BY <1>3 DEF UploadReceive, Go, Idle, Room, TypeOK
  <2>2. Cardinality(account[p]) <= Cardinality(images) /\ Cardinality(images) \in Nat
    BY <1>1, KeysFinite, FS_Subset DEF Within, TypeOK
  <2>3. Within(account, p)'
    BY <1>1, <1>2, <2>1, <2>2, FS_EmptySet, ImagesAssumption DEF Within
  <2>4. \A q \in Proc \ {p} : Within(account, q)'
    BY <1>1, <2>1 DEF Within
  <2> QED BY <1>1, <2>1, <2>3, <2>4 DEF Accounts
<1>4. ASSUME NEW p \in Proc, UploadPart(p) PROVE Accounts'
  <2>1. /\ req'[p].saved = req[p].saved \cup {issued + 1}
        /\ req'[p].remaining = req[p].remaining - 1
        /\ \A q \in Proc \ {p} : req'[q] = req[q]
        /\ images' = images
    BY <1>4 DEF UploadPart, Go, TypeOK, Request
  <2>2. Cardinality(req'[p].saved) <= Cardinality(req[p].saved) + 1
    BY <1>2, <2>1, RequestIs, KeysFinite, FS_AddElement
  <2>3. Cardinality(req'[p].saved) \in Nat
    BY <1>0, KeysFinite DEF TypeOK, Request
  <2>4. Cardinality(req'[p].saved) + req'[p].remaining
          <= Cardinality(req[p].saved) + req[p].remaining
    BY <1>2, <2>1, <2>2, <2>3
  <2> QED BY <1>0, <2>1, <2>4, AccountsKept
<1>5. ASSUME NEW p \in Proc, UploadRefused(p) \/ Fail(p) PROVE Accounts'
  <2>1. Reply(p) /\ images' = images
    BY <1>5 DEF UploadRefused, Fail
  <2>2. Cardinality(req'[p].saved) + req'[p].remaining
          <= Cardinality(req[p].saved) + req[p].remaining
    BY <1>2, <2>1, AfterReply
  <2> QED BY <1>0, <2>1, <2>2, AfterReply, AccountsKept
<1>6. ASSUME NEW p \in Proc, DeleteReceive(p) PROVE Accounts'
  <2>1. /\ req'[p].saved = {} /\ req'[p].remaining = 0
        /\ \A q \in Proc \ {p} : req'[q] = req[q]
        /\ images' = images
    BY <1>6 DEF DeleteReceive, Go, Idle, TypeOK
  <2>2. Cardinality(req'[p].saved) = 0
    BY <2>1, FS_EmptySet
  <2>3. Cardinality(req'[p].saved) + req'[p].remaining
          <= Cardinality(req[p].saved) + req[p].remaining
    BY <1>2, <2>1, <2>2
  <2> QED BY <1>0, <2>1, <2>3, AccountsKept
<1>7. ASSUME NEW p \in Proc, UploadCommit(p) PROVE Accounts'
  <2>1. PICK more \in [Proc -> SUBSET Key] :
          /\ more[p] = account[p] \cup req[p].saved
          /\ \A q \in Proc \ {p} : more[q] = account[q]
    <3> DEFINE m == [account EXCEPT ![p] = @ \cup req[p].saved]
    <3>1. /\ m \in [Proc -> SUBSET Key]
          /\ m[p] = account[p] \cup req[p].saved
          /\ \A q \in Proc \ {p} : m[q] = account[q]
      BY RequestIs
    <3> HIDE DEF m
    <3> QED BY <3>1
  <2>2. Reply(p) /\ images' = images \cup req[p].saved
    BY <1>7 DEF UploadCommit
  <2>3. \A k \in images' : \E q \in Proc : k \in more[q]
    BY <1>1, <2>1, <2>2
  <2>4. Cardinality(more[p]) = Cardinality(account[p]) + Cardinality(req[p].saved)
    <3>1. account[p] \cap req[p].saved = {}
      BY <1>1 DEF Within, FilesInv
    <3>2. /\ IsFiniteSet(account[p]) /\ IsFiniteSet(req[p].saved)
          /\ Cardinality(account[p] \cap req[p].saved) = 0
      BY <3>1, KeysFinite, RequestIs, FS_EmptySet
    <3>3. Cardinality(account[p] \cup req[p].saved) =
            Cardinality(account[p]) + Cardinality(req[p].saved)
              - Cardinality(account[p] \cap req[p].saved)
      BY <3>2, FS_Union
    <3> QED BY <1>2, <2>1, <3>2, <3>3
  <2>5. Within(more, p)'
    BY <1>1, <1>2, <2>1, <2>2, <2>4, AfterReply, ImagesAssumption DEF Within
  <2>6. \A q \in Proc \ {p} : Within(more, q)'
    BY <1>1, <2>1, <2>2, AfterReply DEF Within
  <2> QED BY <2>1, <2>3, <2>5, <2>6 DEF Accounts
<1>8. ASSUME NEW p \in Proc, DeleteRow(p) PROVE Accounts'
  <2>1. PICK less \in [Proc -> SUBSET Key] :
          \A q \in Proc : less[q] = account[q] \ {req[p].key}
    <3> DEFINE m == [q \in Proc |-> account[q] \ {req[p].key}]
    <3>1. m \in [Proc -> SUBSET Key] /\ \A q \in Proc : m[q] = account[q] \ {req[p].key}
      OBVIOUS
    <3> HIDE DEF m
    <3> QED BY <3>1
  <2>2. Reply(p) /\ images' = images \ {req[p].key}
    BY <1>8 DEF DeleteRow
  <2>3. \A k \in images' : \E q \in Proc : k \in less[q]
    BY <1>1, <2>1, <2>2
  <2>4. \A q \in Proc : /\ Cardinality(less[q]) \in Nat
                       /\ Cardinality(less[q]) <= Cardinality(account[q])
                       /\ less[q] \subseteq images'
    BY <1>1, <2>1, <2>2, KeysFinite, FS_Subset DEF Within
  <2>5. \A q \in Proc : Within(less, q)'
    BY <1>1, <1>2, <2>2, <2>4, AfterReply, ImagesAssumption DEF Within
  <2> QED BY <2>1, <2>3, <2>5 DEF Accounts
<1>9. CASE UNCHANGED <<images, req>>
  BY <1>9 DEF Accounts, Within
<1> QED BY <1>3, <1>4, <1>5, <1>6, <1>7, <1>8, <1>9 DEF Next, DropFile, vars

(* A device never has more images than MAX_IMAGES for each of the requests    *)
(* that can be in flight together, however uploads and deletions overlap.     *)
THEOREM ExcessBounded == Spec => []BoundedExcess
<1>1. Init => Accounts
  <2> SUFFICES ASSUME Init PROVE Accounts
    OBVIOUS
  <2> DEFINE none == [p \in Proc |-> {}]
  <2>1. none \in [Proc -> SUBSET Key] /\ \A p \in Proc : none[p] = {}
    OBVIOUS
  <2>2. /\ \A p \in Proc : req[p].saved = {} /\ req[p].remaining = 0
        /\ images = {}
    BY DEF Init, Idle
  <2> HIDE DEF none
  <2>3. \A p \in Proc : Within(none, p)
    BY <2>1, <2>2, FS_EmptySet, ImagesAssumption DEF Within
  <2> HIDE DEF none
  <2> QED BY <2>1, <2>2, <2>3 DEF Accounts
<1>2. TypeOK /\ Accounts => BoundedExcess
  <2> SUFFICES ASSUME TypeOK, Accounts PROVE BoundedExcess
    OBVIOUS
  <2>1. PICK account \in [Proc -> SUBSET Key] :
          /\ \A k \in images : \E q \in Proc : k \in account[q]
          /\ \A q \in Proc : Within(account, q)
    BY DEF Accounts
  <2>2. \A q \in Proc : IsFiniteSet(account[q]) /\ Cardinality(account[q]) <= MaxImages
    BY <2>1, KeysFinite, RequestIs, ImagesAssumption DEF Within
  <2> QED BY <2>1, <2>2, Cover, ProcAssumption, ImagesAssumption DEF BoundedExcess
<1> QED BY <1>1, <1>2, AccountsNext, FilesKept, TypeCorrect, PTL DEF Spec
=============================================================================
