----------------------------- MODULE ScanResults -----------------------------
(***************************************************************************)
(* The scan result set of beken378/func/rwnx_intf/rw_msg_rx.c, in the      *)
(* build with the supplicant's control interface (CFG_WPA_CTRL_IFACE 1).   *)
(*                                                                         *)
(* kmsgbk collects the MAC's SCANU_RESULT_INDs in a set it allocates at    *)
(* the first one, sorts it at SCANU_START_CFM, and throws it away when the *)
(* next scan delivers.  The supplicant thread and application threads      *)
(* borrow the set: sr_get_scan_results counts a reference,                 *)
(* sr_release_scan_results drops one, and the last one frees the set.      *)
(*                                                                         *)
(* kmsgbk has a higher priority than the borrowers and they copy with      *)
(* interrupts disabled, so a handler of kmsgbk, a get with its copy and a  *)
(* release are single steps; kmsgbk may come between any two of them.      *)
(* Nothing is said of a run once the heap is corrupt.                      *)
(***************************************************************************)
EXTENDS Integers, Sequences, FiniteSets, FiniteSetsExt

CONSTANTS
    Addr,       \* blocks the heap may give to a set
    App,        \* application threads in bk_wlan_get_scan_ap_result
    Bssid,      \* access points
    Level,      \* signal levels, higher is stronger
    MAX_BSS_LIST,
    MaxScans,   \* bound: scans
    NULL

ASSUME ScanAssumption ==
    /\ NULL \notin Addr
    /\ Level \subseteq Nat
    /\ MAX_BSS_LIST \in Nat \ {0}
    /\ MaxScans \in Nat
    /\ IsFiniteSet(App) /\ "wpas" \notin App

\* A struct sta_scan_res; scan is the scan that found it.
Item == [bssid : Bssid, level : Level, on_channel : BOOLEAN,
         scan : 1..MaxScans]

VARIABLES
    alloc,      \* the sets that are allocated
    ref,        \* ref[a], res[a]: the SCAN_RST_UPLOAD_T at a
    res,
    scan_rst_set_ptr,
    resultful_scan_cfm,
    upload,     \* s_scan_result_upload_ptr
    wpc,        \* where the supplicant is in wpa_get_scan_rst
    rst,        \* the pointer it is about to release
    scan_rst,   \* scan_rst[a]: the set application a has borrowed
    scan,       \* the number of the last scan started
    scanning,   \* it has not been confirmed
    lost,       \* history: borrowers whose set was freed by someone else
    corrupt     \* a block that is no longer a set was released as one

setVars == <<alloc, ref, res, scan_rst_set_ptr, resultful_scan_cfm, upload>>
wpaVars == <<wpc, rst>>
scanVars == <<scan, scanning>>
vars == <<setVars, wpaVars, scan_rst, scanVars, lost, corrupt>>

TypeOK ==
    /\ alloc \subseteq Addr
    /\ ref \in [Addr -> Nat]
    /\ \A a \in Addr : res[a] \in Seq(Item) /\ Len(res[a]) <= MAX_BSS_LIST
    /\ scan_rst_set_ptr \in Addr \cup {NULL}
    /\ resultful_scan_cfm \in BOOLEAN
    /\ upload \in Addr \cup {NULL}
    /\ wpc \in {"idle", "copied", "release", "reget", "drop"}
    /\ rst \in Addr \cup {NULL}
    /\ scan_rst \in [App -> Addr \cup {NULL}]
    /\ scan \in 0..MaxScans
    /\ scanning \in BOOLEAN
    /\ lost \subseteq App \cup {"wpas"}
    /\ corrupt \in BOOLEAN

Init ==
    /\ alloc = {}
    /\ ref = [a \in Addr |-> 0]
    /\ res = [a \in Addr |-> <<>>]
    /\ scan_rst_set_ptr = NULL
    /\ resultful_scan_cfm = FALSE
    /\ upload = NULL
    /\ wpc = "idle"
    /\ rst = NULL
    /\ scan_rst = [a \in App |-> NULL]
    /\ scan = 0
    /\ scanning = FALSE
    /\ lost = {}
    /\ corrupt = FALSE

-----------------------------------------------------------------------------
(* The list.                                                               *)

\* mhdr_scanu_result_ind on the list r: nothing is added to a full list, a
\* BSSID is listed once, and only an entry heard on its own channel replaces
\* one that was not.
mhdr_scanu_result_ind(r, item) ==
    LET same == {i \in DOMAIN r : r[i].bssid = item.bssid}
    IN  IF \/ Len(r) >= MAX_BSS_LIST
           \/ \E i \in same : r[i].on_channel \/ ~item.on_channel
        THEN r
        ELSE IF same = {}
             THEN Append(r, item)
             ELSE [r EXCEPT ![Max(same)] = item]

\* The body of the two loops of sort_scan_result.
Exchange(r, i, j) ==
    IF r[j].level > r[i].level
    THEN [r EXCEPT ![i] = r[j], ![j] = r[i]]
    ELSE r

\* Mutant: the inner loop, too, stops one short of the end.
SortPassShort(r, i) ==
    LET Upto[j \in i..Len(r)] ==
            IF j = i THEN r ELSE Exchange(Upto[j - 1], i, j)
    IN  Upto[Len(r) - 1]

\* The inner loop: place i is compared with every place behind it, in order.
SortPass(r, i) ==
    LET Upto[j \in i..Len(r)] ==
            IF j = i THEN r ELSE Exchange(Upto[j - 1], i, j)
    IN  Upto[Len(r)]

\* The outer loop, over all places but the last.
sort_scan_result(r) ==
    LET Passes[i \in 0..(Len(r) - 1)] ==
            IF i = 0 THEN r ELSE SortPass(Passes[i - 1], i)
    IN  IF r = <<>> THEN r ELSE Passes[Len(r) - 1]

-----------------------------------------------------------------------------
(* References.                                                             *)

\* Those who still hold p.  The supplicant finds its own pointer cleared, so
\* it is only caught once it has read it.
Borrowers(p) ==
    {a \in App : scan_rst[a] = p} \cup
    (IF rst = p /\ wpc \in {"release", "drop"} THEN {"wpas"} ELSE {})

\* Mutant: wpa_clear_scan_results is not called.
sr_free_allKeepsUpload(p) ==
    /\ alloc' = alloc \ {p}
    /\ ref' = [ref EXCEPT ![p] = 0]
    /\ res' = [res EXCEPT ![p] = <<>>]
    /\ scan_rst_set_ptr' = NULL
    /\ resultful_scan_cfm' = FALSE
    /\ upload' = upload

\* The end of sr_release_scan_results: sr_free_all, and the globals forget the
\* set, whichever set it was.
sr_free_all(p) ==
    /\ alloc' = alloc \ {p}
    /\ ref' = [ref EXCEPT ![p] = 0]
    /\ res' = [res EXCEPT ![p] = <<>>]
    /\ scan_rst_set_ptr' = NULL
    /\ resultful_scan_cfm' = FALSE
    /\ upload' = NULL

\* Mutant: the globals are reset before the test for further references.
sr_release_scan_resultsEarly(b, p, up) ==
    \/ /\ p = NULL \/ (p \in alloc /\ ref[p] = 0)
       /\ upload' = up
       /\ UNCHANGED <<alloc, ref, res, scan_rst_set_ptr, resultful_scan_cfm,
                      lost, corrupt>>
    \/ /\ p \in alloc /\ ref[p] > 1
       /\ ref' = [ref EXCEPT ![p] = @ - 1]
       /\ scan_rst_set_ptr' = NULL
       /\ resultful_scan_cfm' = FALSE
       /\ upload' = NULL
       /\ UNCHANGED <<alloc, res, lost, corrupt>>
    \/ /\ p \in alloc /\ ref[p] = 1
       /\ sr_free_all(p)
       /\ lost' = lost \cup (Borrowers(p) \ {b})
       /\ UNCHANGED corrupt

\* sr_release_scan_results(p) by borrower b, whose own store leaves up in
\* s_scan_result_upload_ptr.  A freed block still reads ref = 0 until the heap
\* gives it to someone else; then anything may happen.
sr_release_scan_results(b, p, up) ==
    \/ /\ p = NULL \/ (p \in alloc /\ ref[p] = 0)
       /\ upload' = up
       /\ UNCHANGED <<alloc, ref, res, scan_rst_set_ptr, resultful_scan_cfm,
                      lost, corrupt>>
    \/ /\ p # NULL /\ p \notin alloc
       /\ corrupt' \in BOOLEAN
       /\ upload' = up
       /\ UNCHANGED <<alloc, ref, res, scan_rst_set_ptr, resultful_scan_cfm,
                      lost>>
    \/ /\ p \in alloc /\ ref[p] > 1
       /\ ref' = [ref EXCEPT ![p] = @ - 1]
       /\ upload' = up
       /\ UNCHANGED <<alloc, res, scan_rst_set_ptr, resultful_scan_cfm, lost,
                      corrupt>>
    \/ /\ p \in alloc /\ ref[p] = 1
       /\ sr_free_all(p)
       /\ lost' = lost \cup (Borrowers(p) \ {b})
       /\ UNCHANGED corrupt

\* sr_flush_scan_results by kmsgbk: the count is forced to 1 and released.
sr_flush_scan_results(p) ==
    /\ sr_free_all(p)
    /\ lost' = lost \cup Borrowers(p)

\* sr_malloc_shell: a block that is not in use, or none.
sr_malloc_shell(used) == (Addr \ used) \cup {NULL}

\* Mutant: only the first reader is counted.
sr_get_scan_resultsOnce ==
    ref' = [a \in Addr |-> IF a = scan_rst_set_ptr THEN 1 ELSE ref[a]]

\* sr_get_scan_results.  On no set at all it counts a reference at address 0,
\* which is flash: the store is lost, and the callers test the pointer next.
sr_get_scan_results ==
    ref' = [a \in Addr |-> IF a = scan_rst_set_ptr THEN ref[a] + 1 ELSE ref[a]]

-----------------------------------------------------------------------------
(* kmsgbk.                                                                 *)

\* rw_msg_send_scanu_req, and the MAC begins to scan.
StartScan ==
    /\ ~corrupt
    /\ ~scanning
    /\ scan < MaxScans
    /\ scan' = scan + 1
    /\ scanning' = TRUE
    /\ UNCHANGED <<setVars, wpaVars, scan_rst, lost, corrupt>>

\* Mutant: results are never flushed.
OutdatedNever == FALSE

\* The results of a confirmed scan are there when the next one delivers.
Outdated == resultful_scan_cfm /\ scan_rst_set_ptr # NULL

\* SCANU_RESULT_IND.  An outdated set is flushed, whoever holds it.  The first
\* result allocates the set; a set or an item that cannot be allocated, or a
\* channel outside the country code, drops the result.
SCANU_RESULT_IND(item, kept) ==
    /\ ~corrupt
    /\ scanning
    /\ LET old == scan_rst_set_ptr
           flushed == IF Outdated THEN {old} ELSE {}
           left == alloc \ flushed
           List(r) == IF kept THEN mhdr_scanu_result_ind(r, item) ELSE r
       IN  IF old # NULL /\ flushed = {}
           THEN /\ res' = [res EXCEPT ![old] = List(@)]
                /\ UNCHANGED <<alloc, ref, scan_rst_set_ptr,
                               resultful_scan_cfm, upload, lost>>
           ELSE /\ \E new \in sr_malloc_shell(left) :
                      /\ alloc' = left \cup ({new} \ {NULL})
                      /\ ref' = [a \in Addr |->
                                   IF a \in flushed \cup {new} THEN 0
                                   ELSE ref[a]]
                      /\ res' = [a \in Addr |->
                                   IF a = new THEN List(<<>>)
                                   ELSE IF a \in flushed THEN <<>> ELSE res[a]]
                      /\ scan_rst_set_ptr' = new
                /\ resultful_scan_cfm' =
                       (IF flushed = {} THEN resultful_scan_cfm ELSE FALSE)
                /\ upload' = IF flushed = {} THEN upload ELSE NULL
                /\ lost' = lost \cup UNION {Borrowers(p) : p \in flushed}
    /\ UNCHANGED <<wpaVars, scan_rst, scanVars, corrupt>>

\* SCANU_START_CFM: the set is marked confirmed and sorted, or flushed when the
\* scan failed; the supplicant is told.
SCANU_START_CFM(ok) ==
    /\ ~corrupt
    /\ scanning
    /\ scanning' = FALSE
    /\ LET p == scan_rst_set_ptr
       IN  \/ /\ p = NULL
              /\ UNCHANGED <<setVars, lost>>
           \/ /\ p # NULL /\ ok
              /\ resultful_scan_cfm' = TRUE
              /\ res' = [res EXCEPT ![p] = sort_scan_result(@)]
              /\ UNCHANGED <<alloc, ref, scan_rst_set_ptr, upload, lost>>
           \/ /\ p # NULL /\ ~ok
              /\ sr_flush_scan_results(p)
    /\ UNCHANGED <<wpaVars, scan_rst, scan, corrupt>>

-----------------------------------------------------------------------------
(* The supplicant thread in wpa_get_scan_rst.                              *)

\* wpa_buffer_scan_results and the copy, interrupts disabled.
WpaCopy ==
    /\ ~corrupt
    /\ wpc = "idle"
    /\ upload' = scan_rst_set_ptr
    /\ sr_get_scan_results
    /\ wpc' = IF scan_rst_set_ptr = NULL THEN "idle" ELSE "copied"
    /\ UNCHANGED <<alloc, res, scan_rst_set_ptr, resultful_scan_cfm, rst,
                   scan_rst, scanVars, lost, corrupt>>

\* wpa_hostapd_release_scan_rst reads s_scan_result_upload_ptr.
WpaCheck ==
    /\ ~corrupt
    /\ wpc = "copied"
    /\ rst' = upload
    /\ wpc' = IF upload = NULL THEN "reget" ELSE "release"
    /\ UNCHANGED <<setVars, scan_rst, scanVars, lost, corrupt>>

\* It was cleared in the meantime: whatever set is there now is taken.
WpaReget ==
    /\ ~corrupt
    /\ wpc = "reget"
    /\ rst' = scan_rst_set_ptr
    /\ sr_get_scan_results
    /\ wpc' = "drop"
    /\ UNCHANGED <<alloc, res, scan_rst_set_ptr, resultful_scan_cfm, upload,
                   scan_rst, scanVars, lost, corrupt>>

\* The release, and in the first branch the store of NULL behind it (in the
\* second the pointer is NULL already).
WpaRelease ==
    /\ ~corrupt
    /\ wpc \in {"release", "drop"}
    /\ sr_release_scan_results("wpas", rst, NULL)
    /\ wpc' = "idle"
    /\ rst' = NULL
    /\ UNCHANGED <<scan_rst, scanVars>>

-----------------------------------------------------------------------------
(* An application thread in bk_wlan_get_scan_ap_result.                    *)

\* The get and the copy, interrupts disabled.
AppCopy(a) ==
    /\ ~corrupt
    /\ scan_rst[a] = NULL
    /\ scan_rst_set_ptr # NULL
    /\ sr_get_scan_results
    /\ scan_rst' = [scan_rst EXCEPT ![a] = scan_rst_set_ptr]
    /\ UNCHANGED <<alloc, res, scan_rst_set_ptr, resultful_scan_cfm, upload,
                   wpaVars, scanVars, lost, corrupt>>

\* The release, interrupts enabled again.
AppRelease(a) ==
    /\ ~corrupt
    /\ scan_rst[a] # NULL
    /\ sr_release_scan_results(a, scan_rst[a], upload)
    /\ scan_rst' = [scan_rst EXCEPT ![a] = NULL]
    /\ UNCHANGED <<wpaVars, scanVars>>

-----------------------------------------------------------------------------
Next ==
    \/ StartScan
    \/ \E b \in Bssid, l \in Level, on, kept \in BOOLEAN :
           SCANU_RESULT_IND([bssid |-> b, level |-> l, on_channel |-> on,
                             scan |-> scan], kept)
    \/ \E ok \in BOOLEAN : SCANU_START_CFM(ok)
    \/ WpaCopy \/ WpaCheck \/ WpaReget \/ WpaRelease
    \/ \E a \in App : AppCopy(a) \/ AppRelease(a)

Spec == Init /\ [][Next]_vars

-----------------------------------------------------------------------------
(* Properties.                                                             *)

\* No set is leaked: the only set that is allocated is the one
\* scan_rst_set_ptr names, although four functions reset that pointer and a
\* release resets it whichever set it was given.
NoSetLeaked == alloc = {scan_rst_set_ptr} \ {NULL}

\* The supplicant's own pointer never dangles: as long as it is set it names
\* the current set with its reference counted, whatever kmsgbk flushed in the
\* meantime (wpa_clear_scan_results).
UploadPointsToCurrent ==
    upload # NULL =>
        /\ upload = scan_rst_set_ptr
        /\ upload \in alloc
        /\ ref[upload] > 0

\* Results of two scans are never mixed: a set holds the results of one scan,
\* and a set that is not confirmed those of the scan in progress.  It never
\* holds more than its MAX_BSS_LIST places (TypeOK).
OneScanPerSet ==
    /\ TypeOK
    /\ \A p \in alloc :
           /\ \A i, j \in DOMAIN res[p] : res[p][i].scan = res[p][j].scan
           /\ ~resultful_scan_cfm =>
                  /\ scanning
                  /\ \A i \in DOMAIN res[p] : res[p][i].scan = scan

\* A confirmed set stays sorted, strongest first, and lists an access point
\* once, until it is freed: a later result never lands in it.
ConfirmedIsSorted ==
    resultful_scan_cfm =>
        /\ scan_rst_set_ptr # NULL
        /\ LET r == res[scan_rst_set_ptr]
           IN  \A i, j \in DOMAIN r :
                   i < j => /\ r[i].level >= r[j].level
                            /\ r[i].bssid # r[j].bssid

\* As long as no scan has taken a set away from its readers the reference
\* count of a set is the number of its readers: they can come and go in any
\* order, and only the last one frees it.
CountIsReaders ==
    LET Readers(p) == Borrowers(p) \cup
                      (IF wpc = "copied" /\ upload = p THEN {"wpas"} ELSE {})
    IN  lost = {} => \A p \in alloc : ref[p] = Cardinality(Readers(p))
=============================================================================
