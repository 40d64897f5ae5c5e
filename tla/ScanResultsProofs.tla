-------------------------- MODULE ScanResultsProofs --------------------------
(***************************************************************************)
(* Theorems about ScanResults: no set is leaked and the supplicant's       *)
(* pointer never dangles, for any number of borrowers, blocks and scans.   *)
(***************************************************************************)
EXTENDS ScanResults, FiniteSetTheorems, WellFoundedInduction, TLAPS

\* The two properties need each other: that the supplicant's pointer is the
\* current set is what makes freeing that set, and forgetting the pointer, one
\* step; and the count must be a number for a release to leave it positive.
\* Borrowed pointers need not be sound, only pointers.
SetInv ==
    /\ scan_rst_set_ptr \in Addr \cup {NULL}
    /\ ref \in [Addr -> Nat]
    /\ rst \in Addr \cup {NULL}
    /\ scan_rst \in [App -> Addr \cup {NULL}]
    /\ NoSetLeaked
    /\ UploadPointsToCurrent

\* At start there is no set.
LEMMA SetInit == Init => SetInv
  BY ScanAssumption DEF Init, SetInv, NoSetLeaked, UploadPointsToCurrent

\* Freeing the current set forgets every pointer to it (sr_free_all and the
\* stores after it in sr_release_scan_results).
LEMMA FreeKeepsInv ==
    ASSUME SetInv, NEW p \in alloc, sr_free_all(p),
           rst' \in Addr \cup {NULL}, scan_rst' \in [App -> Addr \cup {NULL}]
    PROVE  SetInv'
  BY ScanAssumption
  DEF SetInv, NoSetLeaked, UploadPointsToCurrent, sr_free_all

\* A reference more leaves everything else as it is (sr_get_scan_results).
LEMMA GetKeepsInv ==
    ASSUME SetInv, sr_get_scan_results,
           alloc' = alloc, scan_rst_set_ptr' = scan_rst_set_ptr,
           upload' \in {upload, scan_rst_set_ptr},
           rst' \in Addr \cup {NULL}, scan_rst' \in [App -> Addr \cup {NULL}]
    PROVE  SetInv'
<1>1. ref' \in [Addr -> Nat]
  BY DEF SetInv, sr_get_scan_results
<1>2. NoSetLeaked' /\ (scan_rst_set_ptr \in Addr \cup {NULL})'
  BY DEF SetInv, NoSetLeaked
<1>3. ASSUME upload' # NULL
      PROVE  /\ upload' = scan_rst_set_ptr
             /\ upload' \in alloc
             /\ ref'[upload'] > 0
  <2>1. upload' = scan_rst_set_ptr
    BY <1>3 DEF SetInv, UploadPointsToCurrent
  <2>2. upload' \in Addr /\ upload' \in alloc
    BY <2>1, <1>3 DEF SetInv, NoSetLeaked
  <2>3. ref'[upload'] = ref[upload'] + 1
    BY <2>1, <2>2 DEF sr_get_scan_results
  <2> QED
    BY <2>1, <2>2, <2>3 DEF SetInv
<1> QED
  BY <1>1, <1>2, <1>3 DEF SetInv, UploadPointsToCurrent

\* A release preserves the invariant whoever makes it and whichever pointer it
\* is given, one that dangles included; up is what the caller leaves in
\* s_scan_result_upload_ptr.
LEMMA ReleaseKeepsInv ==
    ASSUME SetInv, NEW b, NEW p \in Addr \cup {NULL}, NEW up \in {upload, NULL},
           sr_release_scan_results(b, p, up),
           rst' \in Addr \cup {NULL}, scan_rst' \in [App -> Addr \cup {NULL}]
    PROVE  SetInv'
<1>1. CASE /\ upload' = up
           /\ UNCHANGED <<alloc, ref, scan_rst_set_ptr>>
  BY <1>1 DEF SetInv, NoSetLeaked, UploadPointsToCurrent
<1>2. CASE /\ p \in alloc /\ ref[p] > 1
           /\ ref' = [ref EXCEPT ![p] = @ - 1]
           /\ upload' = up
           /\ UNCHANGED <<alloc, scan_rst_set_ptr>>
  <2>1. p = scan_rst_set_ptr /\ p \in Addr
    BY <1>2 DEF SetInv, NoSetLeaked
  <2>2. ref' \in [Addr -> Nat] /\ ref'[p] > 0
    BY <1>2, <2>1 DEF SetInv
  <2> QED
    BY <1>2, <2>1, <2>2 DEF SetInv, NoSetLeaked, UploadPointsToCurrent
<1>3. CASE p \in alloc /\ sr_free_all(p)
  BY <1>3, FreeKeepsInv
<1> QED
  BY <1>1, <1>2, <1>3 DEF sr_release_scan_results

\* SCANU_RESULT_IND preserves the invariant: the set it flushes is the only
\* one, and the pointer it stores is the set it allocated.
LEMMA ResultKeepsInv ==
    ASSUME SetInv, NEW item, NEW kept, SCANU_RESULT_IND(item, kept)
    PROVE  SetInv'
<1> DEFINE flushed == IF Outdated THEN {scan_rst_set_ptr} ELSE {}
<1>1. UNCHANGED <<rst, scan_rst>>
  BY DEF SCANU_RESULT_IND, wpaVars
<1>2. CASE scan_rst_set_ptr # NULL /\ flushed = {}
  <2>1. UNCHANGED <<alloc, ref, scan_rst_set_ptr, upload>>
    BY <1>2 DEF SCANU_RESULT_IND
  <2> QED
    BY <1>1, <2>1 DEF SetInv, NoSetLeaked, UploadPointsToCurrent
<1>3. CASE ~(scan_rst_set_ptr # NULL /\ flushed = {})
  <2>1. alloc \ flushed = {}
    BY <1>3 DEF SetInv, NoSetLeaked
  <2>2. PICK new \in sr_malloc_shell(alloc \ flushed) :
            /\ alloc' = (alloc \ flushed) \cup ({new} \ {NULL})
            /\ ref' = [a \in Addr |->
                         IF a \in flushed \cup {new} THEN 0 ELSE ref[a]]
            /\ scan_rst_set_ptr' = new
    BY <1>3 DEF SCANU_RESULT_IND
  <2>3. upload' = NULL
    <3>1. upload' = IF flushed = {} THEN upload ELSE NULL
      BY <1>3 DEF SCANU_RESULT_IND
    <3>2. flushed = {} => upload = NULL
      BY <1>3 DEF SetInv, UploadPointsToCurrent
    <3> QED
      BY <3>1, <3>2
  <2>4. ref' \in [Addr -> Nat]
    BY <2>2 DEF SetInv
  <2>5. NoSetLeaked' /\ (scan_rst_set_ptr \in Addr \cup {NULL})'
    BY <2>1, <2>2 DEF NoSetLeaked, sr_malloc_shell
  <2> QED
    BY <1>1, <2>3, <2>4, <2>5 DEF SetInv, UploadPointsToCurrent
<1> QED
  BY <1>2, <1>3

\* Every step preserves the invariant.
LEMMA SetStep ==
    ASSUME SetInv, [Next]_vars
    PROVE  SetInv'
<1> USE DEF setVars, wpaVars, scanVars
<1>1. CASE StartScan
  BY <1>1 DEF StartScan, SetInv, NoSetLeaked, UploadPointsToCurrent
<1>2. CASE \E b \in Bssid, l \in Level, on, kept \in BOOLEAN :
               SCANU_RESULT_IND([bssid |-> b, level |-> l, on_channel |-> on,
                                 scan |-> scan], kept)
  BY <1>2, ResultKeepsInv
<1>3. CASE \E ok \in BOOLEAN : SCANU_START_CFM(ok)
  <2>1. PICK ok \in BOOLEAN : SCANU_START_CFM(ok)
    BY <1>3
  <2>2. UNCHANGED <<rst, scan_rst>>
    BY <2>1 DEF SCANU_START_CFM
  <2>3. CASE UNCHANGED <<alloc, ref, scan_rst_set_ptr, upload>>
    BY <2>2, <2>3 DEF SetInv, NoSetLeaked, UploadPointsToCurrent
  <2>4. CASE scan_rst_set_ptr # NULL /\ sr_free_all(scan_rst_set_ptr)
    <3>1. scan_rst_set_ptr \in alloc
      BY <2>4 DEF SetInv, NoSetLeaked
    <3> QED
      BY <2>2, <2>4, <3>1, FreeKeepsInv DEF SetInv
  <2> QED
    BY <2>1, <2>3, <2>4 DEF SCANU_START_CFM, sr_flush_scan_results
<1>4. CASE WpaCopy
  BY <1>4, GetKeepsInv DEF WpaCopy, SetInv
<1>5. CASE WpaCheck
  <2>1. rst' \in Addr \cup {NULL}
    BY <1>5 DEF WpaCheck, SetInv, UploadPointsToCurrent
  <2> QED
    BY <1>5, <2>1 DEF WpaCheck, SetInv, NoSetLeaked, UploadPointsToCurrent
<1>6. CASE WpaReget
  BY <1>6, GetKeepsInv DEF WpaReget, SetInv
<1>7. CASE WpaRelease
  BY <1>7, ReleaseKeepsInv DEF WpaRelease, SetInv
<1>8. CASE \E a \in App : AppCopy(a)
  BY <1>8, GetKeepsInv DEF AppCopy, SetInv
<1>9. CASE \E a \in App : AppRelease(a)
  BY <1>9, ReleaseKeepsInv DEF AppRelease, SetInv
<1>10. CASE UNCHANGED vars
  BY <1>10 DEF vars, SetInv, NoSetLeaked, UploadPointsToCurrent
<1> QED
  BY <1>1, <1>2, <1>3, <1>4, <1>5, <1>6, <1>7, <1>8, <1>9, <1>10 DEF Next

\* The invariant holds throughout.
LEMMA SetInvariant == Spec => []SetInv
  BY SetInit, SetStep, PTL DEF Spec

\* No scan result set is leaked, however flushes, failed scans and releases of
\* dangling pointers interleave.
THEOREM NoLeak == Spec => []NoSetLeaked
<1>1. SetInv => NoSetLeaked
  BY DEF SetInv
<1> QED
  BY <1>1, SetInvariant, PTL

\* The supplicant never reads its list through a pointer that was freed.
THEOREM UploadSound == Spec => []UploadPointsToCurrent
<1>1. SetInv => UploadPointsToCurrent
  BY DEF SetInv
<1> QED
  BY <1>1, SetInvariant, PTL

-----------------------------------------------------------------------------
(* The readers of a set.                                                   *)

\* Those whose reference a set counts.
Readers(p) == Borrowers(p) \cup
              (IF wpc = "copied" /\ upload = p THEN {"wpas"} ELSE {})

\* The supplicant's pointer is set only between its copy and its release.
UploadInUse ==
    /\ wpc \in {"idle", "copied", "release", "reget", "drop"}
    /\ wpc \in {"idle", "reget", "drop"} => upload = NULL
    /\ wpc = "release" => rst # NULL

\* As long as no set was taken away, all borrowed pointers are to the current
\* set, and it counts them.
CountInv ==
    /\ UploadInUse
    /\ lost = {} =>
           /\ \A a \in App : scan_rst[a] # NULL => scan_rst[a] = scan_rst_set_ptr
           /\ wpc \in {"release", "drop"} /\ rst # NULL => rst = scan_rst_set_ptr
           /\ \A p \in alloc : ref[p] = Cardinality(Readers(p))

\* A set has finitely many readers.
LEMMA ReadersFinite ==
    ASSUME NEW p
    PROVE  IsFiniteSet(Readers(p)) /\ Cardinality(Readers(p)) \in Nat
<1>1. IsFiniteSet(App \cup {"wpas"})
  BY ScanAssumption, FS_AddElement
<1>2. Readers(p) \in SUBSET (App \cup {"wpas"})
  BY DEF Readers, Borrowers
<1>3. IsFiniteSet(Readers(p))
  BY <1>1, <1>2, FS_Subset
<1> QED
  BY <1>3, FS_CardinalityType

\* At start there are no readers.
LEMMA CountInit == Init => CountInv
  BY DEF Init, CountInv, UploadInUse

\* A get counts its reader.
LEMMA CountGet ==
    ASSUME SetInv, CountInv, sr_get_scan_results, lost = {}, NEW b,
           NEW p \in alloc, b \notin Readers(p),
           Readers(p)' = Readers(p) \cup {b}
    PROVE  ref'[p] = Cardinality(Readers(p)')
<1>1. p = scan_rst_set_ptr /\ p \in Addr
  BY DEF SetInv, NoSetLeaked
<1>2. ref'[p] = ref[p] + 1 /\ ref[p] = Cardinality(Readers(p))
  BY <1>1 DEF sr_get_scan_results, CountInv
<1>3. Cardinality(Readers(p) \cup {b}) = Cardinality(Readers(p)) + 1
  BY ReadersFinite, FS_AddElement
<1> QED
  BY <1>2, <1>3

\* A release that does not take the set from anyone uncounts its reader.
LEMMA CountRelease ==
    ASSUME SetInv, CountInv, lost' = {}, NEW b, NEW q, NEW up,
           sr_release_scan_results(b, q, up),
           q # NULL => q = scan_rst_set_ptr /\ b \in Readers(q),
           \A p \in alloc : Readers(p)' = Readers(p) \ (IF p = q THEN {b} ELSE {})
    PROVE  \A p \in alloc' : ref'[p] = Cardinality(Readers(p)')
<1>1. lost = {} /\ alloc' \subseteq alloc /\ ref \in [Addr -> Nat]
  BY DEF sr_release_scan_results, sr_free_all, SetInv
<1> SUFFICES ASSUME NEW p \in alloc' PROVE ref'[p] = Cardinality(Readers(p)')
  OBVIOUS
<1>2. /\ p \in alloc /\ p = scan_rst_set_ptr /\ p \in Addr /\ p # NULL
      /\ ref[p] = Cardinality(Readers(p))
  BY <1>1 DEF SetInv, NoSetLeaked, CountInv
<1>3. CASE q = NULL
  <2>1. ref' = ref
    BY <1>2, <1>3, ScanAssumption DEF sr_release_scan_results, SetInv, NoSetLeaked
  <2>2. Readers(p)' = Readers(p)
    BY <1>2, <1>3
  <2> QED
    BY <1>2, <2>1, <2>2
<1>4. CASE q # NULL
  <2>1. q = p /\ b \in Readers(p) /\ Readers(p)' = Readers(p) \ {b}
    BY <1>2, <1>4
  <2>2. Cardinality(Readers(p) \ {b}) = Cardinality(Readers(p)) - 1
    BY <2>1, ReadersFinite, FS_RemoveElement
  <2>3. ref[p] # 0
    BY <1>2, <2>1, ReadersFinite, FS_EmptySet
  <2>4. ref[p] > 1 /\ ref' = [ref EXCEPT ![p] = @ - 1]
    BY <1>1, <1>2, <2>1, <2>3, ScanAssumption
    DEF sr_release_scan_results, sr_free_all
  <2> QED
    BY <1>1, <1>2, <2>1, <2>2, <2>4
<1> QED
  BY <1>3, <1>4

\* Every step keeps the count.
LEMMA CountStep ==
    ASSUME SetInv, CountInv, [Next]_vars
    PROVE  CountInv'
<1> USE DEF setVars, wpaVars, scanVars
<1>1. \A p \in alloc : p = scan_rst_set_ptr /\ p # NULL /\ p \in Addr
  BY ScanAssumption DEF SetInv, NoSetLeaked
<1>2. CASE StartScan \/ UNCHANGED vars
  <2>1. UNCHANGED <<alloc, ref, scan_rst_set_ptr, upload, wpc, rst, scan_rst, lost>>
    BY <1>2 DEF StartScan, vars
  <2> QED
    BY <2>1 DEF CountInv, UploadInUse, Readers, Borrowers
<1>3. CASE WpaCopy
  <2>1. /\ wpc = "idle" /\ upload' = scan_rst_set_ptr /\ sr_get_scan_results
        /\ wpc' = (IF scan_rst_set_ptr = NULL THEN "idle" ELSE "copied")
        /\ UNCHANGED <<alloc, scan_rst_set_ptr, rst, scan_rst, lost>>
    BY <1>3 DEF WpaCopy
  <2>2. UploadInUse'
    BY <2>1 DEF UploadInUse
  <2>3. ASSUME lost = {}, NEW p \in alloc
        PROVE  ref'[p] = Cardinality(Readers(p)')
    <3>1. "wpas" \notin Readers(p)
      BY <2>1, ScanAssumption DEF Readers, Borrowers
    <3>2. Readers(p)' = Readers(p) \cup {"wpas"}
      BY <1>1, <2>1 DEF Readers, Borrowers
    <3> QED
      BY <2>1, <2>3, <3>1, <3>2, CountGet
  <2> QED
    BY <2>1, <2>2, <2>3 DEF CountInv, Readers, Borrowers
<1>4. CASE WpaCheck
  <2>1. /\ wpc = "copied" /\ rst' = upload
        /\ wpc' = (IF upload = NULL THEN "reget" ELSE "release")
        /\ UNCHANGED <<alloc, ref, scan_rst_set_ptr, upload, scan_rst, lost>>
    BY <1>4 DEF WpaCheck
  <2>2. UploadInUse'
    BY <2>1 DEF UploadInUse
  <2>3. \A p \in alloc : Readers(p)' = Readers(p)
    BY <1>1, <2>1 DEF Readers, Borrowers
  <2>4. rst' # NULL => rst' = scan_rst_set_ptr
    BY <2>1 DEF SetInv, UploadPointsToCurrent
  <2>5. lost = {} => \A p \in alloc : ref'[p] = Cardinality(Readers(p)')
    BY <2>1, <2>3 DEF CountInv
  <2> QED
    BY <2>1, <2>2, <2>4, <2>5 DEF CountInv, Readers, Borrowers
<1>5. CASE WpaReget
  <2>1. /\ wpc = "reget" /\ rst' = scan_rst_set_ptr /\ sr_get_scan_results
        /\ wpc' = "drop"
        /\ UNCHANGED <<alloc, scan_rst_set_ptr, upload, scan_rst, lost>>
    BY <1>5 DEF WpaReget
  <2>2. UploadInUse'
    BY <2>1 DEF CountInv, UploadInUse
  <2>3. ASSUME lost = {}, NEW p \in alloc
        PROVE  ref'[p] = Cardinality(Readers(p)')
    <3>1. "wpas" \notin Readers(p)
      BY <2>1, ScanAssumption DEF Readers, Borrowers
    <3>2. Readers(p)' = Readers(p) \cup {"wpas"}
      BY <1>1, <2>1 DEF Readers, Borrowers
    <3> QED
      BY <2>1, <2>3, <3>1, <3>2, CountGet
  <2> QED
    BY <2>1, <2>2, <2>3 DEF CountInv, Readers, Borrowers
<1>6. CASE WpaRelease
  <2>1. /\ wpc \in {"release", "drop"} /\ wpc' = "idle" /\ rst' = NULL
        /\ sr_release_scan_results("wpas", rst, NULL)
        /\ scan_rst' = scan_rst
    BY <1>6 DEF WpaRelease
  <2>2. upload' = NULL /\ lost \subseteq lost'
        /\ scan_rst_set_ptr' \in {scan_rst_set_ptr, NULL}
    BY <2>1 DEF sr_release_scan_results, sr_free_all
  <2>3. UploadInUse'
    BY <2>1, <2>2 DEF UploadInUse
  <2>4. ASSUME lost' = {}
        PROVE  /\ \A a \in App : scan_rst[a] # NULL => scan_rst[a] = scan_rst_set_ptr'
               /\ \A p \in alloc' : ref'[p] = Cardinality(Readers(p)')
    <3>1. lost = {}
      BY <2>2, <2>4
    <3>2. rst # NULL => rst = scan_rst_set_ptr /\ "wpas" \in Readers(rst)
      BY <2>1, <3>1 DEF CountInv, Readers, Borrowers
    <3>3. \A p \in alloc :
              Readers(p)' = Readers(p) \ (IF p = rst THEN {"wpas"} ELSE {})
      BY <1>1, <2>1, <2>2, ScanAssumption DEF Readers, Borrowers
    <3>4. \A p \in alloc' : ref'[p] = Cardinality(Readers(p)')
      BY <2>1, <2>4, <3>2, <3>3, CountRelease
    <3>5. CASE scan_rst_set_ptr' = scan_rst_set_ptr
      BY <3>1, <3>4, <3>5 DEF CountInv
    <3>6. CASE scan_rst_set_ptr' # scan_rst_set_ptr
      <4>1. Borrowers(rst) \ {"wpas"} = {} /\ rst \in alloc
        BY <2>1, <2>4, <3>6 DEF sr_release_scan_results
      <4>2. \A a \in App : scan_rst[a] # rst
        BY <4>1, ScanAssumption DEF Borrowers
      <4> QED
        BY <1>1, <3>1, <3>4, <4>1, <4>2 DEF CountInv
    <3> QED
      BY <3>5, <3>6
  <2> QED
    BY <2>1, <2>3, <2>4 DEF CountInv, Readers, Borrowers
<1>7. CASE \E a \in App : AppCopy(a)
  <2>0. PICK b \in App : AppCopy(b)
    BY <1>7
  <2>1. /\ scan_rst[b] = NULL /\ scan_rst_set_ptr # NULL /\ sr_get_scan_results
        /\ scan_rst' = [scan_rst EXCEPT ![b] = scan_rst_set_ptr]
        /\ UNCHANGED <<alloc, scan_rst_set_ptr, upload, wpc, rst, lost>>
        /\ scan_rst \in [App -> Addr \cup {NULL}]
    BY <2>0 DEF AppCopy, SetInv
  <2>2. UploadInUse'
    BY <2>1 DEF CountInv, UploadInUse
  <2>3. ASSUME lost = {}, NEW p \in alloc
        PROVE  ref'[p] = Cardinality(Readers(p)')
    <3>1. b \notin Readers(p)
      BY <1>1, <2>1, ScanAssumption DEF Readers, Borrowers
    <3>2. Readers(p)' = Readers(p) \cup {b}
      BY <1>1, <2>1 DEF Readers, Borrowers
    <3> QED
      BY <2>1, <2>3, <3>1, <3>2, CountGet
  <2>4. lost = {} => \A a \in App : scan_rst'[a] # NULL => scan_rst'[a] = scan_rst_set_ptr
    BY <2>1 DEF CountInv
  <2> QED
    BY <2>1, <2>2, <2>3, <2>4 DEF CountInv, Readers, Borrowers
<1>8. CASE \E a \in App : AppRelease(a)
  <2>0. PICK b \in App : AppRelease(b)
    BY <1>8
  <2>1. /\ scan_rst[b] # NULL
        /\ sr_release_scan_results(b, scan_rst[b], upload)
        /\ scan_rst' = [scan_rst EXCEPT ![b] = NULL]
        /\ UNCHANGED <<wpc, rst>>
        /\ scan_rst \in [App -> Addr \cup {NULL}]
    BY <2>0 DEF AppRelease, SetInv
  <2>2. upload' \in {upload, NULL} /\ lost \subseteq lost'
        /\ scan_rst_set_ptr' \in {scan_rst_set_ptr, NULL}
        /\ (upload' = upload \/ alloc' = alloc \ {scan_rst[b]})
    BY <2>1 DEF sr_release_scan_results, sr_free_all
  <2>3. UploadInUse'
    BY <2>1, <2>2 DEF CountInv, UploadInUse
  <2>4. ASSUME lost' = {}
        PROVE  /\ \A a \in App : scan_rst'[a] # NULL => scan_rst'[a] = scan_rst_set_ptr'
               /\ wpc \in {"release", "drop"} /\ rst # NULL => rst = scan_rst_set_ptr'
               /\ \A p \in alloc' : ref'[p] = Cardinality(Readers(p)')
    <3>1. lost = {}
      BY <2>2, <2>4
    <3>2. scan_rst[b] = scan_rst_set_ptr /\ b \in Readers(scan_rst[b])
      BY <2>1, <3>1 DEF CountInv, Readers, Borrowers
    <3>3. CASE scan_rst_set_ptr' = scan_rst_set_ptr
      <4>1. upload' = upload
        BY <2>1, <3>2, <3>3 DEF sr_release_scan_results, sr_free_all
      <4>2. \A p \in alloc :
                Readers(p)' = Readers(p) \ (IF p = scan_rst[b] THEN {b} ELSE {})
        BY <1>1, <2>1, <4>1, ScanAssumption DEF Readers, Borrowers
      <4>3. \A p \in alloc' : ref'[p] = Cardinality(Readers(p)')
        BY <2>1, <2>4, <3>2, <4>2, CountRelease
      <4>4. \A a \in App : scan_rst'[a] # NULL => scan_rst'[a] = scan_rst_set_ptr'
        BY <2>1, <3>1, <3>3 DEF CountInv
      <4> QED
        BY <2>1, <3>1, <3>3, <4>3, <4>4 DEF CountInv
    <3>4. CASE scan_rst_set_ptr' # scan_rst_set_ptr
      <4>1. Borrowers(scan_rst[b]) \ {b} = {} /\ alloc' = alloc \ {scan_rst[b]}
        BY <2>1, <2>4, <3>4 DEF sr_release_scan_results, sr_free_all
      <4>2. alloc' = {}
        BY <1>1, <3>2, <4>1
      <4>3. \A a \in App : a # b => scan_rst[a] # scan_rst_set_ptr
        BY <3>2, <4>1 DEF Borrowers
      <4>4. \A a \in App : scan_rst'[a] = NULL
        BY <2>1, <3>1, <4>3 DEF CountInv
      <4>5. ~(wpc \in {"release", "drop"} /\ rst = scan_rst_set_ptr)
        BY <3>2, <4>1, ScanAssumption DEF Borrowers
      <4> QED
        BY <3>1, <4>2, <4>4, <4>5 DEF CountInv
    <3> QED
      BY <3>3, <3>4
  <2> QED
    BY <2>1, <2>3, <2>4 DEF CountInv, Readers, Borrowers
<1>9. CASE \E ok \in BOOLEAN : SCANU_START_CFM(ok)
  <2>1. UNCHANGED <<wpc, rst, scan_rst>>
    BY <1>9 DEF SCANU_START_CFM
  <2>2. CASE UNCHANGED <<alloc, ref, scan_rst_set_ptr, upload, lost>>
    BY <2>1, <2>2 DEF CountInv, UploadInUse, Readers, Borrowers
  <2>3. CASE /\ sr_free_all(scan_rst_set_ptr)
             /\ lost' = lost \cup Borrowers(scan_rst_set_ptr)
    <3>1. alloc' = {} /\ upload' = NULL /\ scan_rst_set_ptr' = NULL
      BY <1>1, <2>3 DEF sr_free_all
    <3>2. UploadInUse'
      BY <2>1, <3>1 DEF CountInv, UploadInUse
    <3>3. ASSUME lost' = {}
          PROVE  /\ \A a \in App : scan_rst[a] = NULL
                 /\ wpc \in {"release", "drop"} => rst = NULL
      BY <2>3, <3>3 DEF CountInv, Borrowers
    <3> QED
      BY <2>1, <3>1, <3>2, <3>3 DEF CountInv
  <2> QED
    BY <1>9, <2>2, <2>3 DEF SCANU_START_CFM, sr_flush_scan_results
<1>10. ASSUME NEW item, NEW kept, SCANU_RESULT_IND(item, kept)
       PROVE  CountInv'
  <2> DEFINE flushed == IF Outdated THEN {scan_rst_set_ptr} ELSE {}
  <2>1. UNCHANGED <<wpc, rst, scan_rst>>
    BY <1>10 DEF SCANU_RESULT_IND
  <2>2. CASE scan_rst_set_ptr # NULL /\ flushed = {}
    <3>1. UNCHANGED <<alloc, ref, scan_rst_set_ptr, upload, lost>>
      BY <1>10, <2>2 DEF SCANU_RESULT_IND
    <3> QED
      BY <2>1, <3>1 DEF CountInv, UploadInUse, Readers, Borrowers
  <2>3. CASE ~(scan_rst_set_ptr # NULL /\ flushed = {})
    <3>1. alloc \ flushed = {}
      BY <2>3 DEF SetInv, NoSetLeaked
    <3>2. PICK new \in sr_malloc_shell(alloc \ flushed) :
              /\ alloc' = (alloc \ flushed) \cup ({new} \ {NULL})
              /\ ref' = [a \in Addr |->
                           IF a \in flushed \cup {new} THEN 0 ELSE ref[a]]
              /\ scan_rst_set_ptr' = new
      BY <1>10, <2>3 DEF SCANU_RESULT_IND
    <3>3. upload' = NULL
      <4>1. upload' = IF flushed = {} THEN upload ELSE NULL
        BY <1>10, <2>3 DEF SCANU_RESULT_IND
      <4>2. flushed = {} => upload = NULL
        BY <2>3 DEF SetInv, UploadPointsToCurrent
      <4> QED
        BY <4>1, <4>2
    <3>4. UploadInUse'
      BY <2>1, <3>3 DEF CountInv, UploadInUse
    <3>5. lost' = lost \cup UNION {Borrowers(p) : p \in flushed}
      BY <1>10, <2>3 DEF SCANU_RESULT_IND
    <3>6. ASSUME lost' = {}
          PROVE  /\ \A a \in App : scan_rst[a] = NULL
                 /\ wpc \in {"release", "drop"} => rst = NULL
      <4>1. lost = {}
        BY <3>5, <3>6
      <4>2. flushed = {scan_rst_set_ptr} \/ scan_rst_set_ptr = NULL
        BY <2>3
      <4>3. CASE flushed = {scan_rst_set_ptr}
        <5>1. Borrowers(scan_rst_set_ptr) = {}
          BY <3>5, <3>6, <4>3
        <5> QED
          BY <4>1, <5>1 DEF CountInv, Borrowers
      <4>4. CASE scan_rst_set_ptr = NULL
        BY <4>1, <4>4 DEF CountInv
      <4> QED
        BY <4>2, <4>3, <4>4
    <3>7. ASSUME lost' = {}, NEW p \in alloc'
          PROVE  ref'[p] = Cardinality(Readers(p)')
      <4>1. p = new /\ p # NULL /\ p \in Addr
        BY <3>1, <3>2, <3>7 DEF sr_malloc_shell
      <4>2. ref'[p] = 0
        BY <3>2, <4>1
      <4>3. Readers(p)' = {}
        BY <2>1, <3>3, <3>6, <3>7, <4>1 DEF Readers, Borrowers
      <4> QED
        BY <4>2, <4>3, FS_EmptySet
    <3> QED
      BY <2>1, <3>4, <3>6, <3>7 DEF CountInv, Readers, Borrowers
  <2> QED
    BY <2>2, <2>3
<1> QED
  BY <1>2, <1>3, <1>4, <1>5, <1>6, <1>7, <1>8, <1>9, <1>10 DEF Next

\* As long as no scan has taken a set away from its readers, the reference
\* count that sr_get_scan_results and sr_release_scan_results keep is the
\* number of its readers, for any number of them.
THEOREM CountMatchesReaders == Spec => []CountIsReaders
<1>1. Spec => [](SetInv /\ CountInv)
  BY SetInit, SetStep, CountInit, CountStep, PTL DEF Spec
<1>2. CountInv => CountIsReaders
  BY DEF CountInv, CountIsReaders, Readers
<1> QED
  BY <1>1, <1>2, PTL

-----------------------------------------------------------------------------
(* The results in a set.                                                   *)

\* Strongest first.
Sorted(r) == \A i, j \in DOMAIN r : i < j => r[i].level >= r[j].level

\* An access point is listed once.
DistinctBssids(r) == \A i, j \in DOMAIN r : r[i].bssid = r[j].bssid => i = j

\* All results are of scan n.
AllOfScan(r, n) == \A i \in DOMAIN r : r[i].scan = n

\* Sets hold results, and a scan in progress has a number.
ListTypes ==
    /\ TypeOK
    /\ res \in [Addr -> Seq(Item)]
    /\ scanning => scan >= 1

\* The list r of the current set: as long as it is not confirmed (cfm), of the
\* scan n in progress; afterwards of one scan, and sorted.
GoodList(r, cfm, n) ==
    /\ DistinctBssids(r)
    /\ \E m \in 0..MaxScans : AllOfScan(r, m)
    /\ ~cfm => AllOfScan(r, n)
    /\ cfm => Sorted(r)

ListInv ==
    /\ ListTypes
    /\ scan_rst_set_ptr # NULL =>
           GoodList(res[scan_rst_set_ptr], resultful_scan_cfm, scan)
    /\ scan_rst_set_ptr # NULL /\ ~resultful_scan_cfm => scanning
    /\ resultful_scan_cfm => scan_rst_set_ptr # NULL

-----------------------------------------------------------------------------
(* Induction.                                                              *)

\* Every set of naturals that is not empty has a least element.
LEMMA LeastNatural ==
    ASSUME NEW T, T \subseteq Nat, T # {}
    PROVE  \E x \in T : \A y \in T : x <= y
<1> DEFINE R == {ss \in Nat \X Nat : ss[1] < ss[2]}
<1>1. IsWellFoundedOn(R, Nat)
  BY NatLessThanWellFounded DEF OpToRel
<1> HIDE DEF R
<1>2. \E x \in T : \A y \in T : ~(<<y, x>> \in R)
  BY <1>1, WFMin
<1>3. PICK x \in T : \A y \in T : ~(<<y, x>> \in R)
  BY <1>2
<1>4. \A y \in T : ~(y < x)
  BY <1>3 DEF R
<1> QED
  BY <1>4

\* Induction over the naturals from m, for a property given as a set.
LEMMA InductionFrom ==
    ASSUME NEW m \in Nat, NEW S, m \in S,
           \A n \in Nat : n >= m /\ n \in S => n + 1 \in S
    PROVE  \A n \in Nat : n >= m => n \in S
<1> DEFINE T == {n \in Nat : n >= m /\ n \notin S}
<1> SUFFICES ASSUME T # {} PROVE FALSE
  OBVIOUS
<1>1. PICK x \in T : \A y \in T : x <= y
  BY LeastNatural
<1>2. x # m /\ x \in Nat /\ x >= m
  OBVIOUS
<1>3. x - 1 \in Nat /\ x - 1 >= m /\ x - 1 \notin T
  BY <1>1, <1>2
<1>4. (x - 1) + 1 \in S
  BY <1>3
<1> QED
  BY <1>2, <1>4

-----------------------------------------------------------------------------
(* sort_scan_result.                                                       *)

\* What every exchange keeps: the number of results, that they are results,
\* that they are of different access points, and the scan they are of.
SameResults(r, q) ==
    /\ q \in Seq(Item) /\ Len(q) = Len(r)
    /\ DistinctBssids(r) => DistinctBssids(q)
    /\ \A n \in 0..MaxScans : AllOfScan(r, n) => AllOfScan(q, n)

\* Places 1 to i hold their final results.
SortedTo(r, i) ==
    \A k, l \in DOMAIN r : k <= i /\ k < l => r[k].level >= r[l].level

\* The place i has been compared with the places up to j.
PassedTo(r, i, j) ==
    /\ SortedTo(r, i - 1)
    /\ \A l \in DOMAIN r : i < l /\ l <= j => r[i].level >= r[l].level

\* One turn of the inner loop.
LEMMA ExchangeKeeps ==
    ASSUME NEW r \in Seq(Item), NEW i \in DOMAIN r, NEW j \in DOMAIN r, i < j,
           PassedTo(r, i, j - 1)
    PROVE  /\ SameResults(r, Exchange(r, i, j))
           /\ PassedTo(Exchange(r, i, j), i, j)
<1>1. /\ DOMAIN r = 1..Len(r) /\ Len(r) \in Nat
      /\ \A k \in DOMAIN r : r[k] \in Item
      /\ \A k \in DOMAIN r : r[k].level \in Nat
      /\ i \in Nat /\ j \in Nat
  <2>1. /\ DOMAIN r = 1..Len(r) /\ Len(r) \in Nat
        /\ \A k \in DOMAIN r : r[k] \in Item
    OBVIOUS
  <2>2. \A x \in Item : x.level \in Nat
    BY ScanAssumption DEF Item
  <2> QED
    BY <2>1, <2>2
<1>2. CASE r[j].level > r[i].level
  <2> DEFINE q == [r EXCEPT ![i] = r[j], ![j] = r[i]]
  <2>1. /\ DOMAIN q = DOMAIN r /\ q[i] = r[j] /\ q[j] = r[i]
        /\ \A k \in DOMAIN r : k # i /\ k # j => q[k] = r[k]
    BY <1>1
  <2>2. q \in Seq(Item) /\ Len(q) = Len(r)
    <3>1. q \in [1..Len(r) -> Item]
      BY <1>1
    <3> QED
      BY <1>1, <3>1
  <2>3. Exchange(r, i, j) = q
    BY <1>2 DEF Exchange
  <2> HIDE DEF q
  <2>4. DistinctBssids(r) => DistinctBssids(q)
    BY <2>1 DEF DistinctBssids
  <2>5. \A n \in 0..MaxScans : AllOfScan(r, n) => AllOfScan(q, n)
    BY <2>1 DEF AllOfScan
  <2>6. SortedTo(q, i - 1)
    <3> SUFFICES ASSUME NEW k \in DOMAIN r, NEW l \in DOMAIN r, k <= i - 1, k < l
                 PROVE  q[k].level >= q[l].level
      BY <2>1 DEF SortedTo
    <3>1. k # i /\ k # j /\ q[k] = r[k]
      BY <1>1, <2>1
    <3>2. \A x \in DOMAIN r : k < x => r[k].level >= r[x].level
      BY DEF PassedTo, SortedTo
    <3>3. k < i /\ k < j
      BY <1>1
    <3>4. q[l] \in {r[i], r[j], r[l]}
      BY <2>1
    <3> QED
      BY <3>1, <3>2, <3>3, <3>4
  <2>7. ASSUME NEW l \in DOMAIN r, i < l, l <= j
        PROVE  q[i].level >= q[l].level
    <3>1. CASE l = j
      BY <1>1, <1>2, <2>1, <3>1
    <3>2. CASE l # j
      <4>1. q[l] = r[l] /\ l <= j - 1
        BY <1>1, <2>1, <2>7, <3>2
      <4>2. r[i].level >= r[l].level
        BY <2>7, <4>1 DEF PassedTo
      <4> QED
        BY <1>1, <1>2, <2>1, <4>1, <4>2
    <3> QED
      BY <3>1, <3>2
  <2> QED
    BY <2>1, <2>2, <2>3, <2>4, <2>5, <2>6, <2>7 DEF SameResults, PassedTo
<1>3. CASE ~(r[j].level > r[i].level)
  <2>1. Exchange(r, i, j) = r
    BY <1>3 DEF Exchange
  <2>2. SameResults(r, r)
    BY DEF SameResults
  <2>3. PassedTo(r, i, j)
    BY <1>1, <1>3 DEF PassedTo
  <2> QED
    BY <2>1, <2>2, <2>3
<1> QED
  BY <1>2, <1>3

\* The inner loop leaves the strongest of the places from i on at place i.
LEMMA PassKeeps ==
    ASSUME NEW r \in Seq(Item), NEW i \in DOMAIN r, SortedTo(r, i - 1)
    PROVE  SameResults(r, SortPass(r, i)) /\ SortedTo(SortPass(r, i), i)
<1> DEFINE n == Len(r)
           IsUpto(f, m) == f = [j \in i..m |-> IF j = i THEN r
                                               ELSE Exchange(f[j - 1], i, j)]
           Good(q, j) == SameResults(r, q) /\ PassedTo(q, i, j)
           S == {m \in Nat : \E f : IsUpto(f, m)}
<1>1. n \in Nat /\ i \in 1..n /\ DOMAIN r = 1..n
  OBVIOUS
<1>2. Good(r, i)
  BY <1>1 DEF SameResults, PassedTo
<1> HIDE DEF Good, n
\* The recursion has a solution.
<1>3. i \in S
  <2> DEFINE f == [j \in i..i |-> r]
  <2>1. IsUpto(f, i)
    BY <1>1
  <2> HIDE DEF f
  <2> QED
    BY <1>1, <2>1
<1>4. ASSUME NEW m \in Nat, m >= i, m \in S PROVE m + 1 \in S
  <2>1. PICK f : IsUpto(f, m)
    BY <1>4
  <2> DEFINE q == Exchange(f[m], i, m + 1)
             g == [j \in i..(m + 1) |-> IF j = m + 1 THEN q ELSE f[j]]
  <2>2. \A j \in i..m : f[j] = IF j = i THEN r ELSE Exchange(f[j - 1], i, j)
    BY <2>1
  <2>3. g[m + 1] = q /\ \A j \in i..m : g[j] = f[j]
    BY <1>1, <1>4
  <2>4. ASSUME NEW j \in i..(m + 1)
        PROVE  g[j] = IF j = i THEN r ELSE Exchange(g[j - 1], i, j)
    <3>1. CASE j = m + 1
      <4>1. g[j - 1] = f[m] /\ j # i
        BY <1>1, <1>4, <2>3, <3>1
      <4> QED
        BY <2>3, <3>1, <4>1
    <3>2. CASE j # m + 1
      <4>1. j \in i..m /\ (j # i => j - 1 \in i..m)
        BY <1>1, <1>4, <3>2
      <4> QED
        BY <2>2, <2>3, <4>1
    <3> QED
      BY <3>1, <3>2
  <2>5. g = [j \in i..(m + 1) |-> g[j]]
    OBVIOUS
  <2> HIDE DEF g
  <2>6. IsUpto(g, m + 1)
    BY <2>4, <2>5
  <2> QED
    BY <2>6
<1> HIDE DEF S
<1>5. n \in S
  BY <1>1, <1>3, <1>4, InductionFrom
<1> DEFINE U == CHOOSE h : IsUpto(h, n)
<1>6. IsUpto(U, n)
  BY <1>5 DEF S
<1>7. SortPass(r, i) = U[n]
  BY DEF SortPass, n
<1> HIDE DEF U
<1>8. \A j \in i..n : U[j] = IF j = i THEN r ELSE Exchange(U[j - 1], i, j)
  BY <1>6
\* Each of its values is good.
<1> DEFINE D == {m \in Nat : m > n \/ Good(U[m], m)}
<1>9. i \in D
  BY <1>1, <1>2, <1>8
<1>10. ASSUME NEW m \in Nat, m >= i, m \in D PROVE m + 1 \in D
  <2>1. CASE m + 1 > n
    BY <2>1
  <2>2. CASE m + 1 <= n
    <3>1. Good(U[m], m)
      BY <1>1, <1>10, <2>2
    <3>2. /\ U[m] \in Seq(Item) /\ Len(U[m]) = n /\ SameResults(r, U[m])
          /\ PassedTo(U[m], i, m)
      BY <3>1 DEF Good, SameResults, n
    <3>3. U[m + 1] = Exchange(U[m], i, m + 1)
      BY <1>1, <1>8, <1>10, <2>2
    <3>4. i \in DOMAIN U[m] /\ m + 1 \in DOMAIN U[m] /\ i < m + 1
      BY <1>1, <1>10, <2>2, <3>2
    <3>5. PassedTo(U[m], i, (m + 1) - 1)
      BY <3>2
    <3>6. SameResults(U[m], U[m + 1]) /\ PassedTo(U[m + 1], i, m + 1)
      BY <3>2, <3>3, <3>4, <3>5, ExchangeKeeps
    <3>7. SameResults(r, U[m + 1])
      BY <3>2, <3>6 DEF SameResults
    <3>8. Good(U[m + 1], m + 1)
      BY <3>6, <3>7 DEF Good
    <3> QED
      BY <3>8
  <2> QED
    BY <1>1, <2>1, <2>2
<1> HIDE DEF D
<1>11. n \in D
  BY <1>1, <1>9, <1>10, InductionFrom
<1>12. Good(U[n], n)
  BY <1>1, <1>11 DEF D
<1>13. SortedTo(U[n], i)
  <2>1. PassedTo(U[n], i, n) /\ U[n] \in Seq(Item) /\ Len(U[n]) = n
    BY <1>12 DEF Good, SameResults, n
  <2>2. DOMAIN U[n] = 1..n
    BY <2>1
  <2> QED
    BY <1>1, <2>1, <2>2 DEF PassedTo, SortedTo
<1> QED
  BY <1>7, <1>12, <1>13 DEF Good

\* sort_scan_result sorts, and keeps the results.
LEMMA SortSorts ==
    ASSUME NEW r \in Seq(Item)
    PROVE  SameResults(r, sort_scan_result(r)) /\ Sorted(sort_scan_result(r))
<1> DEFINE n == Len(r)
<1>1. n \in Nat /\ DOMAIN r = 1..n
  OBVIOUS
<1>2. SameResults(r, r)
  BY DEF SameResults
<1>3. CASE r = <<>>
  <2>1. sort_scan_result(r) = r /\ DOMAIN r = {}
    BY <1>1, <1>3 DEF sort_scan_result
  <2> QED
    BY <1>2, <2>1 DEF Sorted
<1>4. CASE r # <<>>
  <2> DEFINE IsPasses(f, m) == f = [i \in 0..m |-> IF i = 0 THEN r
                                                 ELSE SortPass(f[i - 1], i)]
             Good(q, i) == SameResults(r, q) /\ SortedTo(q, i)
             S == {m \in Nat : \E f : IsPasses(f, m)}
  <2>1. n >= 1 /\ n - 1 \in Nat
    BY <1>1, <1>4
  <2>2. Good(r, 0)
    BY <1>1, <1>2 DEF SortedTo
  <2> HIDE DEF Good, n
  <2>3. 0 \in S
    <3> DEFINE f == [i \in 0..0 |-> r]
    <3>1. IsPasses(f, 0)
      OBVIOUS
    <3> HIDE DEF f
    <3> QED
      BY <3>1
  <2>4. ASSUME NEW m \in Nat, m >= 0, m \in S PROVE m + 1 \in S
    <3>1. PICK f : IsPasses(f, m)
      BY <2>4
    <3> DEFINE q == SortPass(f[m], m + 1)
               g == [i \in 0..(m + 1) |-> IF i = m + 1 THEN q ELSE f[i]]
    <3>2. \A i \in 0..m : f[i] = IF i = 0 THEN r ELSE SortPass(f[i - 1], i)
      BY <3>1
    <3>3. g[m + 1] = q /\ \A i \in 0..m : g[i] = f[i]
      BY <2>4
    <3>4. ASSUME NEW i \in 0..(m + 1)
          PROVE  g[i] = IF i = 0 THEN r ELSE SortPass(g[i - 1], i)
      <4>1. CASE i = m + 1
        <5>1. g[i - 1] = f[m] /\ i # 0
          BY <3>3, <4>1
        <5> QED
          BY <3>3, <4>1, <5>1
      <4>2. CASE i # m + 1
        <5>1. i \in 0..m /\ (i # 0 => i - 1 \in 0..m)
          BY <4>2
        <5> QED
          BY <3>2, <3>3, <5>1
      <4> QED
        BY <4>1, <4>2
    <3>5. g = [i \in 0..(m + 1) |-> g[i]]
      OBVIOUS
    <3> HIDE DEF g
    <3>6. IsPasses(g, m + 1)
      BY <3>4, <3>5
    <3> QED
      BY <3>6
  <2> HIDE DEF S
  <2>5. n - 1 \in S
    BY <2>1, <2>3, <2>4, InductionFrom
  <2> DEFINE U == CHOOSE h : IsPasses(h, n - 1)
  <2>6. IsPasses(U, n - 1)
    BY <2>5 DEF S
  <2>7. sort_scan_result(r) = U[n - 1]
    BY <1>4 DEF sort_scan_result, n
  <2> HIDE DEF U
  <2>8. \A i \in 0..(n - 1) : U[i] = IF i = 0 THEN r ELSE SortPass(U[i - 1], i)
    BY <2>6
  <2> DEFINE D == {m \in Nat : m > n - 1 \/ Good(U[m], m)}
  <2>9. 0 \in D
    BY <2>1, <2>2, <2>8
  <2>10. ASSUME NEW m \in Nat, m >= 0, m \in D PROVE m + 1 \in D
    <3>1. CASE m + 1 > n - 1
      BY <3>1
    <3>2. CASE m + 1 <= n - 1
      <4>1. Good(U[m], m)
        BY <2>1, <2>10, <3>2
      <4>2. /\ U[m] \in Seq(Item) /\ Len(U[m]) = n /\ SameResults(r, U[m])
            /\ SortedTo(U[m], (m + 1) - 1)
        BY <4>1 DEF Good, SameResults, n
      <4>3. U[m + 1] = SortPass(U[m], m + 1)
        BY <2>8, <3>2
      <4>4. m + 1 \in DOMAIN U[m]
        BY <2>1, <3>2, <4>2
      <4>5. SameResults(U[m], U[m + 1]) /\ SortedTo(U[m + 1], m + 1)
        BY <4>2, <4>3, <4>4, PassKeeps
      <4>6. SameResults(r, U[m + 1])
        BY <4>2, <4>5 DEF SameResults
      <4>7. Good(U[m + 1], m + 1)
        BY <4>5, <4>6 DEF Good
      <4> QED
        BY <4>7
    <3> QED
      BY <2>1, <3>1, <3>2
  <2> HIDE DEF D
  <2>11. n - 1 \in D
    BY <2>1, <2>9, <2>10, InductionFrom
  <2>12. Good(U[n - 1], n - 1)
    BY <2>1, <2>11 DEF D
  <2>13. Sorted(U[n - 1])
    <3>1. /\ SortedTo(U[n - 1], n - 1) /\ U[n - 1] \in Seq(Item)
          /\ Len(U[n - 1]) = n
      BY <2>12 DEF Good, SameResults, n
    <3>2. DOMAIN U[n - 1] = 1..n
      BY <3>1
    <3> QED
      BY <2>1, <3>1, <3>2 DEF SortedTo, Sorted
  <2> QED
    BY <2>7, <2>12, <2>13 DEF Good
<1> QED
  BY <1>3, <1>4

-----------------------------------------------------------------------------
(* One scan per set, and confirmed sets sorted.                            *)

\* mhdr_scanu_result_ind keeps a list of one scan and of different access
\* points, within its places.
LEMMA ResultAdds ==
    ASSUME NEW r \in Seq(Item), NEW item \in Item, Len(r) <= MAX_BSS_LIST,
           DistinctBssids(r), AllOfScan(r, item.scan),
           NEW q, q = mhdr_scanu_result_ind(r, item)
    PROVE  /\ q \in Seq(Item) /\ Len(q) <= MAX_BSS_LIST
           /\ DistinctBssids(q) /\ AllOfScan(q, item.scan)
<1> DEFINE same == {i \in DOMAIN r : r[i].bssid = item.bssid}
<1>1. /\ DOMAIN r = 1..Len(r) /\ Len(r) \in Nat
      /\ \A k \in DOMAIN r : r[k] \in Item
      /\ MAX_BSS_LIST \in Nat
  BY ScanAssumption
<1>2. CASE q = r
  BY <1>2
<1>3. CASE same = {} /\ q = Append(r, item) /\ Len(r) < MAX_BSS_LIST
  <2>1. /\ q \in Seq(Item) /\ Len(q) = Len(r) + 1
        /\ DOMAIN q = 1..(Len(r) + 1)
        /\ \A k \in 1..Len(r) : q[k] = r[k]
        /\ q[Len(r) + 1] = item
    BY <1>3
  <2>2. \A k \in 1..Len(r) : r[k].bssid # item.bssid
    BY <1>1, <1>3
  <2>3. DistinctBssids(q)
    BY <1>1, <2>1, <2>2 DEF DistinctBssids
  <2>4. AllOfScan(q, item.scan)
    BY <1>1, <2>1 DEF AllOfScan
  <2> QED
    BY <1>1, <1>3, <2>1, <2>3, <2>4
<1>4. CASE same # {} /\ q = [r EXCEPT ![Max(same)] = item]
  <2>1. PICK k \in same : TRUE
    BY <1>4
  <2>2. same = {k}
    BY <2>1 DEF DistinctBssids
  <2>3. Max(same) = k
    <3>1. k \in Nat
      BY <1>1
    <3>2. \E x \in same : \A y \in same : x >= y
      BY <2>2, <3>1
    <3> QED
      BY <2>2, <3>2 DEF Max
  <2>4. q = [r EXCEPT ![k] = item]
    BY <1>4, <2>3
  <2>5. /\ DOMAIN q = DOMAIN r /\ q[k] = item /\ k \in DOMAIN r
        /\ r[k].bssid = item.bssid
        /\ \A j \in DOMAIN r : j # k => q[j] = r[j]
    BY <2>1, <2>4
  <2>6. q \in Seq(Item) /\ Len(q) = Len(r)
    <3>1. q \in [1..Len(r) -> Item]
      BY <1>1, <2>4
    <3> QED
      BY <1>1, <3>1
  <2>7. DistinctBssids(q)
    BY <2>5 DEF DistinctBssids
  <2>8. AllOfScan(q, item.scan)
    BY <2>5 DEF AllOfScan
  <2> QED
    BY <2>6, <2>7, <2>8
<1>5. q = IF \/ Len(r) >= MAX_BSS_LIST
              \/ \E i \in same : r[i].on_channel \/ ~item.on_channel
          THEN r
          ELSE IF same = {} THEN Append(r, item)
               ELSE [r EXCEPT ![Max(same)] = item]
  BY Zenon DEF mhdr_scanu_result_ind
<1>6. Len(r) >= MAX_BSS_LIST \/ Len(r) < MAX_BSS_LIST
  BY <1>1
<1> HIDE DEF same
<1>7. \/ q = r
      \/ same = {} /\ q = Append(r, item) /\ Len(r) < MAX_BSS_LIST
      \/ same # {} /\ q = [r EXCEPT ![Max(same)] = item]
  BY <1>5, <1>6, Zenon
<1> QED
  BY <1>2, <1>3, <1>4, <1>7

\* A list that nothing has been put in is good.
LEMMA EmptyListGood ==
    ASSUME NEW n \in 0..MaxScans
    PROVE  /\ <<>> \in Seq(Item) /\ Len(<<>>) <= MAX_BSS_LIST
           /\ GoodList(<<>>, FALSE, n)
<1>1. DOMAIN <<>> = {} /\ Len(<<>>) = 0 /\ <<>> \in Seq(Item)
  OBVIOUS
<1>2. AllOfScan(<<>>, n) /\ DistinctBssids(<<>>)
  BY <1>1 DEF AllOfScan, DistinctBssids
<1> QED
  BY <1>1, <1>2, ScanAssumption DEF GoodList

\* At start there are no lists.
LEMMA ListInit == Init => ListInv
<1> SUFFICES ASSUME Init PROVE ListInv
  OBVIOUS
<1>1. <<>> \in Seq(Item) /\ Len(<<>>) = 0
  OBVIOUS
<1>2. resultful_scan_cfm \in BOOLEAN /\ scanning \in BOOLEAN /\ corrupt \in BOOLEAN
  BY Zenon DEF Init
<1>3. TypeOK
  BY <1>1, <1>2, ScanAssumption DEF Init, TypeOK
<1> QED
  BY <1>1, <1>3 DEF Init, ListInv, ListTypes

\* Types of the variables that are not lists.
PlainTypes ==
    /\ alloc \subseteq Addr
    /\ ref \in [Addr -> Nat]
    /\ scan_rst_set_ptr \in Addr \cup {NULL}
    /\ upload \in Addr \cup {NULL}
    /\ wpc \in {"idle", "copied", "release", "reget", "drop"}
    /\ rst \in Addr \cup {NULL}
    /\ scan_rst \in [App -> Addr \cup {NULL}]
    /\ lost \subseteq App \cup {"wpas"}

Flags ==
    resultful_scan_cfm \in BOOLEAN /\ scanning \in BOOLEAN /\ corrupt \in BOOLEAN

Lists ==
    /\ res \in [Addr -> Seq(Item)]
    /\ \A a \in Addr : Len(res[a]) <= MAX_BSS_LIST

\* Every step keeps the plain types.
LEMMA PlainStep ==
    ASSUME SetInv, CountInv, SetInv', CountInv', lost \subseteq App \cup {"wpas"},
           [Next]_vars
    PROVE  PlainTypes'
<1>1. lost' \subseteq App \cup {"wpas"}
  <2>1. \A p : Borrowers(p) \subseteq App \cup {"wpas"}
    BY DEF Borrowers
  <2>2. CASE \E b \in Bssid, l \in Level, on, kept \in BOOLEAN :
                 SCANU_RESULT_IND([bssid |-> b, level |-> l, on_channel |-> on,
                                   scan |-> scan], kept)
    <3>1. \/ lost' = lost
          \/ \E T : lost' = lost \cup UNION {Borrowers(p) : p \in T}
      BY <2>2, Zenon DEF SCANU_RESULT_IND
    <3>2. \A T : UNION {Borrowers(p) : p \in T} \subseteq App \cup {"wpas"}
      BY <2>1, Zenon
    <3> QED
      BY <3>1, <3>2
  <2>3. CASE \E ok \in BOOLEAN : SCANU_START_CFM(ok)
    BY <2>1, <2>3 DEF SCANU_START_CFM, sr_flush_scan_results
  <2>4. CASE WpaRelease \/ (\E a \in App : AppRelease(a))
    BY <2>1, <2>4 DEF WpaRelease, AppRelease, sr_release_scan_results
  <2>5. CASE \/ StartScan \/ WpaCopy \/ WpaCheck \/ WpaReget
             \/ (\E a \in App : AppCopy(a)) \/ UNCHANGED vars
    BY <2>5 DEF StartScan, WpaCopy, WpaCheck, WpaReget, AppCopy, vars
  <2> QED
    BY <2>2, <2>3, <2>4, <2>5 DEF Next
<1> QED
  BY <1>1 DEF PlainTypes, SetInv, NoSetLeaked, UploadPointsToCurrent, CountInv,
              UploadInUse

\* The flags stay flags.
LEMMA FlagStep ==
    ASSUME Flags, [Next]_vars
    PROVE  Flags'
<1> USE DEF Flags, setVars, wpaVars, scanVars
<1>1. CASE \E b \in Bssid, l \in Level, on, kept \in BOOLEAN :
               SCANU_RESULT_IND([bssid |-> b, level |-> l, on_channel |-> on,
                                 scan |-> scan], kept)
  <2>1. scanning' = scanning /\ corrupt' = corrupt
        /\ (resultful_scan_cfm' = resultful_scan_cfm \/ resultful_scan_cfm' = FALSE)
    BY <1>1 DEF SCANU_RESULT_IND
  <2> QED
    BY <2>1, Zenon
<1>2. CASE \E ok \in BOOLEAN : SCANU_START_CFM(ok)
  BY <1>2, Zenon DEF SCANU_START_CFM, sr_flush_scan_results, sr_free_all
<1>3. CASE WpaRelease \/ (\E a \in App : AppRelease(a))
  BY <1>3, Zenon DEF WpaRelease, AppRelease, sr_release_scan_results, sr_free_all
<1>4. CASE \/ StartScan \/ WpaCopy \/ WpaCheck \/ WpaReget
           \/ (\E a \in App : AppCopy(a)) \/ UNCHANGED vars
  BY <1>4, Zenon DEF StartScan, WpaCopy, WpaCheck, WpaReget, AppCopy, vars
<1> QED
  BY <1>1, <1>2, <1>3, <1>4 DEF Next

\* What is left of ListInv.
CurrentList ==
    /\ Lists
    /\ scan \in 0..MaxScans
    /\ scanning => scan >= 1
    /\ scan_rst_set_ptr # NULL =>
           GoodList(res[scan_rst_set_ptr], resultful_scan_cfm, scan)
    /\ scan_rst_set_ptr # NULL /\ ~resultful_scan_cfm => scanning
    /\ resultful_scan_cfm => scan_rst_set_ptr # NULL

\* The three parts make up ListInv.
LEMMA ListParts == ListInv <=> PlainTypes /\ Flags /\ CurrentList
  BY DEF ListInv, ListTypes, TypeOK, PlainTypes, Flags, CurrentList, Lists

\* An unconfirmed list of the scan n stays good when a result of n arrives.
LEMMA ResultGood ==
    ASSUME NEW n \in 1..MaxScans, NEW r \in Seq(Item), Len(r) <= MAX_BSS_LIST,
           GoodList(r, FALSE, n), NEW item \in Item, item.scan = n,
           NEW kept \in BOOLEAN,
           NEW q, q = IF kept THEN mhdr_scanu_result_ind(r, item) ELSE r
    PROVE  q \in Seq(Item) /\ Len(q) <= MAX_BSS_LIST /\ GoodList(q, FALSE, n)
<1>1. DistinctBssids(r) /\ AllOfScan(r, n)
  BY DEF GoodList
<1>2. CASE kept
  <2>1. /\ q \in Seq(Item) /\ Len(q) <= MAX_BSS_LIST
        /\ DistinctBssids(q) /\ AllOfScan(q, n)
    BY <1>1, <1>2, ResultAdds
  <2>2. n \in 0..MaxScans
    BY ScanAssumption
  <2> QED
    BY <2>1, <2>2 DEF GoodList
<1>3. CASE ~kept
  BY <1>3
<1> QED
  BY <1>2, <1>3

\* The set is freed, and with it the list: nothing is left to be wrong.
LEMMA FreeCurrent ==
    ASSUME SetInv, CurrentList, NEW p \in alloc, sr_free_all(p),
           scan' = scan, scanning' = scanning \/ scanning' = FALSE
    PROVE  CurrentList'
<1>1. <<>> \in Seq(Item) /\ Len(<<>>) <= MAX_BSS_LIST
  BY ScanAssumption
<1>2. p \in Addr
  BY DEF SetInv, NoSetLeaked
<1>3. Lists'
  BY <1>1, <1>2 DEF CurrentList, Lists, sr_free_all
<1> QED
  BY <1>3 DEF CurrentList, sr_free_all

\* A release frees the set or leaves the list alone.
LEMMA ReleaseCurrent ==
    ASSUME SetInv, CurrentList, NEW b, NEW p, NEW up,
           sr_release_scan_results(b, p, up), UNCHANGED scanVars
    PROVE  CurrentList'
<1>1. CASE UNCHANGED <<res, scan_rst_set_ptr, resultful_scan_cfm>>
  BY <1>1 DEF CurrentList, Lists, scanVars
<1>2. CASE p \in alloc /\ sr_free_all(p)
  BY <1>2, FreeCurrent DEF scanVars
<1> QED
  BY <1>1, <1>2 DEF sr_release_scan_results

\* A result goes to the list of its own scan, or begins a list.
LEMMA ResultCurrent ==
    ASSUME SetInv, CurrentList, Flags, NEW item \in Item, item.scan = scan,
           NEW kept \in BOOLEAN, SCANU_RESULT_IND(item, kept)
    PROVE  CurrentList'
<1> DEFINE List(r) == IF kept THEN mhdr_scanu_result_ind(r, item) ELSE r
<1>1. /\ scan \in 1..MaxScans /\ scan \in 0..MaxScans
      /\ scanning /\ scan' = scan /\ scanning' = scanning
  BY ScanAssumption DEF SCANU_RESULT_IND, scanVars, CurrentList
<1>2. ASSUME NEW r \in Seq(Item), Len(r) <= MAX_BSS_LIST, GoodList(r, FALSE, scan)
      PROVE  /\ List(r) \in Seq(Item) /\ Len(List(r)) <= MAX_BSS_LIST
             /\ GoodList(List(r), FALSE, scan)
  BY <1>1, <1>2, ResultGood
<1>3. /\ <<>> \in Seq(Item) /\ Len(<<>>) <= MAX_BSS_LIST
      /\ GoodList(<<>>, FALSE, scan)
  BY <1>1, EmptyListGood
<1>4. CASE scan_rst_set_ptr # NULL /\ ~Outdated
  <2> DEFINE old == scan_rst_set_ptr
  <2>1. /\ res' = [res EXCEPT ![old] = List(res[old])]
        /\ UNCHANGED <<scan_rst_set_ptr, resultful_scan_cfm>>
    BY <1>4 DEF SCANU_RESULT_IND
  <2>2. resultful_scan_cfm = FALSE /\ old \in Addr
    <3>1. ~resultful_scan_cfm
      BY <1>4 DEF Outdated
    <3>2. resultful_scan_cfm = FALSE
      BY <3>1, Zenon DEF Flags
    <3> QED
      BY <1>4, <3>2 DEF SetInv
  <2>3. /\ res[old] \in Seq(Item) /\ Len(res[old]) <= MAX_BSS_LIST
        /\ GoodList(res[old], FALSE, scan)
    BY <1>4, <2>2 DEF CurrentList, Lists
  <2>4. /\ List(res[old]) \in Seq(Item) /\ Len(List(res[old])) <= MAX_BSS_LIST
        /\ GoodList(List(res[old]), FALSE, scan)
    BY <1>2, <2>3
  <2> HIDE DEF List
  <2>5. res' \in [Addr -> Seq(Item)] /\ res'[old] = List(res[old])
        /\ \A a \in Addr : a # old => res'[a] = res[a]
    BY <2>1, <2>2, <2>4 DEF CurrentList, Lists
  <2>6. Lists'
    BY <2>4, <2>5 DEF CurrentList, Lists
  <2> QED
    BY <1>1, <1>4, <2>1, <2>2, <2>4, <2>5, <2>6 DEF CurrentList
<1>5. CASE scan_rst_set_ptr = NULL \/ Outdated
  <2> DEFINE flushed == IF Outdated THEN {scan_rst_set_ptr} ELSE {}
             left == alloc \ flushed
  <2>1. flushed = {} => ~resultful_scan_cfm
    BY <1>5 DEF CurrentList
  <2>2. PICK new \in sr_malloc_shell(left) :
           /\ res' = [a \in Addr |-> IF a = new THEN List(<<>>)
                                     ELSE IF a \in flushed THEN <<>> ELSE res[a]]
           /\ scan_rst_set_ptr' = new
           /\ resultful_scan_cfm' =
                  (IF flushed = {} THEN resultful_scan_cfm ELSE FALSE)
    BY <1>5 DEF SCANU_RESULT_IND, Outdated
  <2>3. resultful_scan_cfm' = FALSE
    <3>1. flushed = {} => resultful_scan_cfm = FALSE
      BY <2>1, Zenon DEF Flags
    <3> QED
      BY <2>2, <3>1, Zenon
  <2>4. /\ List(<<>>) \in Seq(Item) /\ Len(List(<<>>)) <= MAX_BSS_LIST
        /\ GoodList(List(<<>>), FALSE, scan)
    BY <1>2, <1>3
  <2>5. new \in Addr \cup {NULL}
    BY DEF sr_malloc_shell
  <2> HIDE DEF List, flushed
  <2>6. \A a \in Addr : res'[a] = List(<<>>) \/ res'[a] = <<>> \/ res'[a] = res[a]
    BY <2>2
  <2>7. Lists'
    <3>1. \A a \in Addr : res'[a] \in Seq(Item) /\ Len(res'[a]) <= MAX_BSS_LIST
      BY <1>3, <2>4, <2>6 DEF CurrentList, Lists
    <3>2. res' = [a \in Addr |-> res'[a]]
      BY <2>2
    <3> QED
      BY <3>1, <3>2 DEF Lists
  <2>8. scan_rst_set_ptr' # NULL => res'[scan_rst_set_ptr'] = List(<<>>)
    BY <2>2, <2>5
  <2> QED
    BY <1>1, <2>3, <2>4, <2>7, <2>8 DEF CurrentList
<1> QED
  BY <1>4, <1>5

\* A confirmation sorts the list and gives it its last state.
LEMMA ConfirmCurrent ==
    ASSUME SetInv, CurrentList, NEW ok \in BOOLEAN, SCANU_START_CFM(ok)
    PROVE  CurrentList'
<1> DEFINE p == scan_rst_set_ptr
<1>1. scanning' = FALSE /\ scan' = scan
  BY DEF SCANU_START_CFM
<1>2. CASE p = NULL
  <2>1. UNCHANGED <<res, scan_rst_set_ptr, resultful_scan_cfm>>
    BY <1>2 DEF SCANU_START_CFM, setVars, sr_flush_scan_results
  <2> QED
    BY <1>1, <1>2, <2>1 DEF CurrentList, Lists
<1>3. CASE p # NULL /\ ok
  <2> DEFINE q == sort_scan_result(res[p])
  <2>1. /\ resultful_scan_cfm' = TRUE
        /\ res' = [res EXCEPT ![p] = q]
        /\ scan_rst_set_ptr' = p
    BY <1>3 DEF SCANU_START_CFM
  <2>2. p \in Addr /\ res[p] \in Seq(Item) /\ Len(res[p]) <= MAX_BSS_LIST
    BY <1>3 DEF SetInv, CurrentList, Lists
  <2>3. SameResults(res[p], q) /\ Sorted(q)
    BY <2>2, SortSorts
  <2> HIDE DEF q
  <2>4. GoodList(q, TRUE, scan)
    BY <1>3, <2>3 DEF CurrentList, GoodList, SameResults
  <2>5. /\ res' \in [Addr -> Seq(Item)] /\ res'[p] = q
        /\ \A a \in Addr : a # p => res'[a] = res[a]
    BY <2>1, <2>2, <2>3 DEF CurrentList, Lists, SameResults
  <2>6. Lists'
    BY <2>2, <2>3, <2>5 DEF CurrentList, Lists, SameResults
  <2> QED
    BY <1>1, <1>3, <2>1, <2>4, <2>5, <2>6 DEF CurrentList
<1>4. CASE p # NULL /\ ~ok
  <2>1. sr_free_all(p) /\ p \in alloc
    BY <1>4 DEF SCANU_START_CFM, sr_flush_scan_results, SetInv, NoSetLeaked
  <2> QED
    BY <1>1, <2>1, FreeCurrent
<1> QED
  BY <1>2, <1>3, <1>4

\* Every step keeps the current list good.
LEMMA CurrentStep ==
    ASSUME SetInv, Flags, CurrentList, [Next]_vars
    PROVE  CurrentList'
<1> USE DEF setVars, wpaVars, scanVars
<1>1. CASE StartScan
  <2>1. /\ UNCHANGED <<res, scan_rst_set_ptr, resultful_scan_cfm>>
        /\ ~scanning /\ scan < MaxScans /\ scan' = scan + 1 /\ scanning' = TRUE
    BY <1>1 DEF StartScan
  <2>2. scan' \in 0..MaxScans /\ scan' >= 1
    BY <2>1, ScanAssumption DEF CurrentList
  <2>3. scan_rst_set_ptr # NULL => resultful_scan_cfm
    BY <2>1 DEF CurrentList
  <2> QED
    BY <2>1, <2>2, <2>3 DEF CurrentList, Lists, GoodList
<1>2. ASSUME NEW b \in Bssid, NEW l \in Level, NEW on \in BOOLEAN,
             NEW kept \in BOOLEAN,
             SCANU_RESULT_IND([bssid |-> b, level |-> l, on_channel |-> on,
                               scan |-> scan], kept)
      PROVE  CurrentList'
  <2> DEFINE item == [bssid |-> b, level |-> l, on_channel |-> on, scan |-> scan]
  <2>1. scan \in 1..MaxScans
    BY <1>2, ScanAssumption DEF SCANU_RESULT_IND, CurrentList
  <2>2. item \in Item /\ item.scan = scan
    BY <2>1 DEF Item
  <2> HIDE DEF item
  <2>3. SCANU_RESULT_IND(item, kept)
    BY <1>2 DEF item
  <2> QED
    BY <2>2, <2>3, ResultCurrent
<1>3. CASE \E ok \in BOOLEAN : SCANU_START_CFM(ok)
  BY <1>3, ConfirmCurrent
<1>4. CASE WpaRelease
  <2>1. sr_release_scan_results("wpas", rst, NULL) /\ UNCHANGED scanVars
    BY <1>4 DEF WpaRelease
  <2> QED
    BY <2>1, ReleaseCurrent
<1>5. ASSUME NEW a \in App, AppRelease(a)
      PROVE  CurrentList'
  <2>1. sr_release_scan_results(a, scan_rst[a], upload) /\ UNCHANGED scanVars
    BY <1>5 DEF AppRelease
  <2> QED
    BY <2>1, ReleaseCurrent
<1>6. CASE \/ WpaCopy \/ WpaCheck \/ WpaReget
           \/ (\E a \in App : AppCopy(a)) \/ UNCHANGED vars
  <2>1. UNCHANGED <<res, scan_rst_set_ptr, resultful_scan_cfm, scan, scanning>>
    BY <1>6 DEF WpaCopy, WpaCheck, WpaReget, AppCopy, vars
  <2> QED
    BY <2>1 DEF CurrentList, Lists
<1> QED
  BY <1>1, <1>2, <1>3, <1>4, <1>5, <1>6 DEF Next

\* Every reachable list is good.
LEMMA ListInvariant == Spec => []ListInv
<1>1. ListInv /\ SetInv /\ SetInv' /\ CountInv /\ CountInv' /\ [Next]_vars
      => ListInv'
  <2> SUFFICES ASSUME ListInv, SetInv, SetInv', CountInv, CountInv', [Next]_vars
               PROVE  ListInv'
    OBVIOUS
  <2>1. PlainTypes /\ Flags /\ CurrentList
    BY ListParts
  <2>2. PlainTypes'
    BY <2>1, PlainStep DEF PlainTypes
  <2>3. Flags'
    BY <2>1, FlagStep
  <2>4. CurrentList'
    BY <2>1, CurrentStep
  <2> QED
    BY <2>2, <2>3, <2>4
    DEF ListInv, ListTypes, TypeOK, PlainTypes, Flags, CurrentList, Lists
<1>2. Spec => []CountInv
  BY SetInvariant, CountInit, CountStep, PTL DEF Spec
<1> QED
  BY <1>1, <1>2, ListInit, SetInvariant, PTL DEF Spec

\* The results of two scans are never in one set, a set that is not confirmed
\* is of the scan in progress, and no set holds more than its places, however
\* scans, failures and releases follow each other (mhdr_scanu_result_ind, the
\* flush in SCANU_RESULT_IND).
THEOREM SetsAreOfOneScan == Spec => []OneScanPerSet
<1>1. SetInv /\ ListInv => OneScanPerSet
  <2> SUFFICES ASSUME SetInv, ListInv PROVE OneScanPerSet
    OBVIOUS
  <2>1. TypeOK
    BY DEF ListInv, ListTypes
  <2>2. ASSUME NEW p \in alloc
        PROVE  /\ \A i, j \in DOMAIN res[p] : res[p][i].scan = res[p][j].scan
               /\ ~resultful_scan_cfm =>
                      /\ scanning
                      /\ \A i \in DOMAIN res[p] : res[p][i].scan = scan
    <3>1. p = scan_rst_set_ptr /\ p # NULL
      BY DEF SetInv, NoSetLeaked
    <3> QED
      BY <3>1 DEF ListInv, GoodList, AllOfScan
  <2> QED
    BY <2>1, <2>2 DEF OneScanPerSet
<1> QED
  BY <1>1, SetInvariant, ListInvariant, PTL

\* A confirmed set is sorted, strongest first, and lists an access point once,
\* until it is freed (sort_scan_result, mhdr_scanu_result_ind).
THEOREM ConfirmedSetsAreSorted == Spec => []ConfirmedIsSorted
<1>1. ListInv => ConfirmedIsSorted
  <2> SUFFICES ASSUME ListInv, resultful_scan_cfm
               PROVE  ConfirmedIsSorted
    BY DEF ConfirmedIsSorted
  <2> DEFINE r == res[scan_rst_set_ptr]
  <2>1. /\ scan_rst_set_ptr # NULL /\ scan_rst_set_ptr \in Addr
        /\ Sorted(r) /\ DistinctBssids(r) /\ r \in Seq(Item)
    BY DEF ListInv, GoodList, ListTypes, TypeOK
  <2>2. \A i \in DOMAIN r : i \in Nat
    BY <2>1
  <2>3. \A i, j \in DOMAIN r : i < j => /\ r[i].level >= r[j].level
                                        /\ r[i].bssid # r[j].bssid
    BY <2>1, <2>2 DEF Sorted, DistinctBssids
  <2> QED
    BY <2>1, <2>3 DEF ConfirmedIsSorted
<1> QED
  BY <1>1, ListInvariant, PTL
=============================================================================
