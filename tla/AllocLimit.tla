----------------------------- MODULE AllocLimit -----------------------------
(***************************************************************************)
(* The allocation limiter of libipd (lib/libipd/src/alloc_rt.c): wrappers  *)
(* around malloc, calloc, realloc, reallocf and free that keep a budget of *)
(* bytes, either a total (what is freed is not given back) or a peak (it   *)
(* is), and refuse the allocations that would exceed it.                   *)
(*                                                                         *)
(* One action per public function.  A program is single threaded here, as  *)
(* the code requires (its state is plain statics), so a call is one step.  *)
(* The C allocator under the wrappers is external: it hands out any        *)
(* address that is not in use, may fail at any call, and may move a block  *)
(* in realloc.  The program obeys the C contract: it frees and reallocates *)
(* only blocks it holds.                                                   *)
(***************************************************************************)
EXTENDS EnvLimit, Sequences, FiniteSets, Volume

CONSTANTS
  Pointer,       \* the addresses the C allocator hands out
  Requests,      \* the sizes the program asks for
  Limits,        \* the arguments of alloc_limit_set_total and _set_peak
  Environments,  \* the environments the program may be started in
  MaxRecords,    \* bound: records kept for one address
  MayMove,       \* the C allocator's realloc may move a block
  ZeroFrees,     \* its realloc(p, 0) frees p and returns NULL, as in glibc
  ForeignFrees   \* code compiled without <ipd.h> frees blocks of this program

ASSUME AllocAssumption ==
  /\ IsFiniteSet(Pointer)
  /\ Requests \subseteq Size
  /\ Limits \subseteq Size
  /\ Environments \subseteq Environment
  /\ MaxRecords \in Nat
  /\ {MayMove, ZeroFrees, ForeignFrees} \subseteq BOOLEAN

VARIABLES
  alloc_limit_state,  \* the static of that name
  bytes_remaining,    \* the static of that name
  allocation_list,    \* the records, by pointer; see below
  env,                \* the environment variables, read once
  heap,               \* the C heap: size of the block at an address, or Vacant
  status,             \* "running", or how the process ended
  reply,              \* what the last call answered
  limit,              \* history: the bytes allowed when the limit was set
  counted,            \* history: live blocks granted under the current limit
  spent               \* history: bytes granted under the current total limit

vars == <<alloc_limit_state, bytes_remaining, allocation_list, env, heap,
          status, reply, limit, counted, spent>>

Vacant == -1
Free   == {p \in Pointer : heap[p] = Vacant}
Live   == Pointer \ Free

-----------------------------------------------------------------------------
(***************************************************************************)
(* The limiter's three statics as one value, with the limit they were last *)
(* set from.  allocation_list is a linked list, newest record first, in    *)
(* which both searches stop at the first record of a pointer: what they    *)
(* can tell of it is the stack of records of each pointer, newest last.    *)
(***************************************************************************)
Modes   == {"NO_LIMIT", "LIMIT_TOTAL", "LIMIT_PEAK"}
Stacks  == UNION {[1 .. k -> Size] : k \in 0 .. MaxRecords}
Limiter == [state : Modes, remaining : Size, list : [Pointer -> Stacks],
            limit : Size]

NoRecords == [p \in Pointer |-> << >>]

(* size_t addition and subtraction of two words.                           *)
Wrap(x) == IF x < 0 THEN x + Modulus
           ELSE IF x >= Modulus THEN x - Modulus ELSE x

(* The common body of the three setters: forget_everything() then the new  *)
(* limit.                                                                  *)
SetLimiter(mode, n) ==
  [state |-> mode, remaining |-> n, list |-> NoRecords, limit |-> n]

(* find_alloc_record(p): is there a record, and the size in the newest.    *)
Recorded(s, p) == s.list[p] # << >>
RecordSize(s, p) == IF Recorded(s, p) THEN s.list[p][Len(s.list[p])] ELSE 0

remember_allocation(s, p, n) == [s EXCEPT !.list[p] = Append(@, n)]

(* Faulty variant of the next definition: the oldest record is unlinked.   *)
forget_oldest(s, p) ==
  IF Recorded(s, p)
  THEN [s EXCEPT !.remaining = Wrap(@ + s.list[p][1]), !.list[p] = Tail(@)]
  ELSE s

(* forget_allocation(p): lookup_and_forget_size unlinks the newest record  *)
(* and its size is given back; without a record, nothing is.               *)
forget_allocation(s, p) ==
  IF Recorded(s, p)
  THEN [s EXCEPT !.remaining = Wrap(@ + RecordSize(s, p)),
                 !.list[p] = SubSeq(@, 1, Len(@) - 1)]
  ELSE s

Limited(s) == s.state \in {"LIMIT_TOTAL", "LIMIT_PEAK"}

alloc_limit_may_alloc(s, n) == ~ (Limited(s) /\ n > s.remaining)

(* Faulty variant: a total limit is not charged.                           *)
did_alloc_peak_only(s, p, n) ==
  IF s.state = "LIMIT_PEAK"
  THEN [remember_allocation(s, p, n) EXCEPT !.remaining = Wrap(@ - n)]
  ELSE s

(* alloc_limit_did_alloc(p, n) for a non-null p.                           *)
alloc_limit_did_alloc(s, p, n) ==
  LET noted == IF s.state = "LIMIT_PEAK" THEN remember_allocation(s, p, n) ELSE s
  IN  IF Limited(s) THEN [noted EXCEPT !.remaining = Wrap(@ - n)] ELSE noted

alloc_limit_will_free(s, p) ==
  IF s.state = "LIMIT_PEAK" THEN forget_allocation(s, p) ELSE s

(* Faulty variant of the next definition: the record keeps its old size.   *)
did_realloc_stale(s, p, q, n) ==
  LET paid == [s EXCEPT !.remaining = Wrap(@ - Wrap(n - RecordSize(s, p)))]
  IN  IF Recorded(s, p) THEN paid ELSE remember_allocation(paid, q, n)

(***************************************************************************)
(* The bookkeeping at the end of realloc_with_peak_limit, once the block   *)
(* at p has become a block of n bytes at q.  The record found before the   *)
(* call is kept, with its size changed and its pointer as it was.          *)
(***************************************************************************)
did_realloc(s, p, q, n) ==
  LET change == Wrap(n - RecordSize(s, p))
      paid   == [s EXCEPT !.remaining = Wrap(@ - change)]
  IN  IF Recorded(s, p)
      THEN [paid EXCEPT !.list[p][Len(s.list[p])] = Wrap(@ + change)]
      ELSE remember_allocation(paid, q, n)

-----------------------------------------------------------------------------
(* ENSURE_ALLOC_DEBUG_INIT(): the limiter that the body of a wrapper sees. *)
Ensured ==
  IF alloc_limit_state = "UNINITIALIZED"
  THEN SetLimiter(EnvMode(env), EnvBytes(env))
  ELSE [state |-> alloc_limit_state, remaining |-> bytes_remaining,
        list |-> allocation_list, limit |-> limit]

Misconfigured == alloc_limit_state = "UNINITIALIZED" /\ BadEnv(env)

Becomes(s) ==
  /\ alloc_limit_state' = s.state
  /\ bytes_remaining' = s.remaining
  /\ allocation_list' = s.list
  /\ limit' = s.limit

(* What a call answers: a refusal carries the bytes the block would have   *)
(* added to the budget's use, by the rule of the manual page.              *)
Replies   == [kind : {"none", "granted", "failed", "refused"}, cost : Size]
Said(k)   == [kind |-> k, cost |-> 0]
Refusal(c) == [kind |-> "refused", cost |-> c]

Returns(r) == reply' = r /\ UNCHANGED <<env, status>>

(* The process ends inside the call; its memory is not looked at again.    *)
Exits(how) ==
  /\ status' = how
  /\ UNCHANGED <<alloc_limit_state, bytes_remaining, allocation_list, env,
                 heap, reply, limit, counted, spent>>

(* The bytes a live block counts for: its size, if the limiter granted it  *)
(* since the limit was set ("earlier allocations are forgotten").          *)
Charge(p) == IF p \in counted THEN heap[p] ELSE 0

CostOfResize(s, p, n) ==
  IF s.state = "LIMIT_PEAK"
  THEN IF n > Charge(p) THEN n - Charge(p) ELSE 0
  ELSE n

(* The history variables after a grant of n bytes at q under limiter s, in *)
(* place of the block at p if gone = {p}.                                  *)
Counts(s, gone, q, n) ==
  /\ counted' = IF Limited(s) THEN (counted \ gone) \cup {q} ELSE counted
  /\ spent' = IF s.state = "LIMIT_TOTAL" THEN spent + n ELSE spent

(* A record can be added: the bound, not a condition of the code.          *)
Room(s, p) == Len(s.list[p]) < MaxRecords

(***************************************************************************)
(* quiet_malloc(n), and the part of quiet_calloc that follows its overflow *)
(* test.  A peak limit also needs a list node, and ends the process when   *)
(* the C allocator has none left.                                          *)
(***************************************************************************)
quiet_malloc(s, n) ==
  \/ /\ ~ alloc_limit_may_alloc(s, n)
     /\ Becomes(s)
     /\ Returns(Refusal(n))
     /\ UNCHANGED <<heap, counted, spent>>
  \/ /\ alloc_limit_may_alloc(s, n)
     /\ Becomes(s)
     /\ Returns(Said("failed"))
     /\ UNCHANGED <<heap, counted, spent>>
  \/ /\ alloc_limit_may_alloc(s, n)
     /\ \E p \in Free :
          /\ s.state = "LIMIT_PEAK" => Room(s, p)
          /\ Becomes(alloc_limit_did_alloc(s, p, n))
          /\ heap' = [heap EXCEPT ![p] = n]
          /\ Counts(s, {}, p, n)
          /\ Returns(Said("granted"))
  \/ /\ alloc_limit_may_alloc(s, n)
     /\ Free # {}
     /\ s.state = "LIMIT_PEAK"
     /\ Exits("exit 255")

(* quiet_free(ptr) for a non-null ptr, in a call that answers r.           *)
quiet_free(s, p, r) ==
  /\ Becomes(alloc_limit_will_free(s, p))
  /\ heap' = [heap EXCEPT ![p] = Vacant]
  /\ counted' = counted \ {p}
  /\ Returns(r)
  /\ UNCHANGED spent

(***************************************************************************)
(* quiet_realloc(ptr, n) on a live block, split by what it returns: the    *)
(* limiter's refusal, NULL from the C allocator with the block intact,     *)
(* NULL with the block freed (n = 0), a block, or no return at all.        *)
(***************************************************************************)
(* Faulty variant of the next definition: growth is not tested for.        *)
NeededOnce(s, p, n) ==
  IF s.state = "LIMIT_PEAK" /\ Recorded(s, p) THEN 0 ELSE n

(* What may_alloc is asked: the growth under a peak limit, all of it under *)
(* a total limit.  Without a limit the answer does not matter.             *)
Needed(s, p, n) ==
  IF s.state = "LIMIT_PEAK"
  THEN IF n > RecordSize(s, p) THEN n - RecordSize(s, p) ELSE 0
  ELSE n

ReallocRefused(s, p, n) == ~ alloc_limit_may_alloc(s, Needed(s, p, n))

ReallocAllowed(s, p, n) == ~ ReallocRefused(s, p, n)

FreedByRealloc(s, p, n) == ReallocAllowed(s, p, n) /\ n = 0 /\ ZeroFrees

(* The addresses the block may have after a successful realloc.            *)
Destinations(p) == {p} \cup (IF MayMove THEN Free ELSE {})

(* Faulty variant: a total limit goes through the peak limit's code.       *)
ReallocOneLimiter(s, p, q, n) ==
  IF Limited(s) THEN did_realloc(s, p, q, n) ELSE s

ReallocLimiter(s, p, q, n) ==
  IF s.state = "LIMIT_PEAK" THEN did_realloc(s, p, q, n)
  ELSE alloc_limit_did_alloc(s, q, n)

ReallocGranted(s, p, n) ==
  /\ ReallocAllowed(s, p, n)
  /\ ~ FreedByRealloc(s, p, n)
  /\ \E q \in Destinations(p) :
       /\ s.state = "LIMIT_PEAK" /\ ~ Recorded(s, p) => Room(s, q)
       /\ Becomes(ReallocLimiter(s, p, q, n))
       /\ heap' = [heap EXCEPT ![p] = Vacant, ![q] = n]
       /\ Counts(s, {p}, q, n)
       /\ Returns(Said("granted"))

ReallocNodeFails(s, p, n) ==
  /\ ReallocAllowed(s, p, n)
  /\ ~ FreedByRealloc(s, p, n)
  /\ s.state = "LIMIT_PEAK"
  /\ ~ Recorded(s, p)
  /\ Exits("exit 255")

-----------------------------------------------------------------------------
Init ==
  /\ alloc_limit_state = "UNINITIALIZED"
  /\ bytes_remaining = 0
  /\ allocation_list = NoRecords
  /\ env \in Environments
  /\ heap = [p \in Pointer |-> Vacant]
  /\ status = "running"
  /\ reply = Said("none")
  /\ limit = 0
  /\ counted = {}
  /\ spent = 0

(* A wrapper's first lines pass: the process runs, the environment parses. *)
Calls == status = "running" /\ ~ Misconfigured

(* bad_env_var: the first wrapper called ends the process.                 *)
BadEnvVar ==
  /\ status = "running"
  /\ Misconfigured
  /\ Exits("exit 254")

rtipd_malloc(n) == Calls /\ quiet_malloc(Ensured, n)

(***************************************************************************)
(* rtipd_calloc(nmemb, size).  SIZE_MAX / nmemb with nmemb = 0 is          *)
(* undefined: it traps on machines whose division does (x86) and gives 0   *)
(* on those whose division does not (AArch64), where the test then passes  *)
(* for size = 0 only.                                                      *)
(***************************************************************************)
CallocTraps(nmemb) ==
  /\ Calls
  /\ nmemb = 0
  /\ Exits("SIGFPE")

Quotients(nmemb) == IF nmemb = 0 THEN 0 ELSE SizeMax \div nmemb

CallocOverflows(nmemb, size) ==
  /\ Calls
  /\ size > Quotients(nmemb)
  /\ Becomes(Ensured)
  /\ Returns(Said("failed"))
  /\ UNCHANGED <<heap, counted, spent>>

CallocFits(nmemb, size) ==
  /\ Calls
  /\ size <= Quotients(nmemb)
  /\ quiet_malloc(Ensured, nmemb * size)

rtipd_calloc(nmemb, size) ==
  \/ CallocTraps(nmemb)
  \/ CallocOverflows(nmemb, size)
  \/ CallocFits(nmemb, size)

rtipd_free(p) == Calls /\ quiet_free(Ensured, p, Said("none"))

(* free(NULL) only runs the initialisation.                                *)
FreeNull ==
  /\ Calls
  /\ Becomes(Ensured)
  /\ Returns(Said("none"))
  /\ UNCHANGED <<heap, counted, spent>>

(* realloc(NULL, n) is quiet_malloc(n), so only live blocks appear here.   *)
ReallocReturnsNull(p, n) ==
  /\ Calls
  /\ Becomes(Ensured)
  /\ \/ /\ ReallocRefused(Ensured, p, n)
        /\ Returns(Refusal(CostOfResize(Ensured, p, n)))
        /\ UNCHANGED <<heap, counted>>
     \/ /\ ReallocAllowed(Ensured, p, n) /\ ~ FreedByRealloc(Ensured, p, n)
        /\ Returns(Said("failed"))
        /\ UNCHANGED <<heap, counted>>
     \/ /\ FreedByRealloc(Ensured, p, n)
        /\ Returns(Said("none"))
        /\ heap' = [heap EXCEPT ![p] = Vacant]
        /\ counted' = counted \ {p}
  /\ UNCHANGED spent

ReallocReturnsBlock(p, n) ==
  /\ Calls
  /\ ReallocGranted(Ensured, p, n) \/ ReallocNodeFails(Ensured, p, n)

rtipd_realloc(p, n) == ReallocReturnsNull(p, n) \/ ReallocReturnsBlock(p, n)

(***************************************************************************)
(* rtipd_reallocf: as realloc, but a NULL result frees ptr.  When realloc  *)
(* itself has freed the block, ptr is freed a second time.                 *)
(***************************************************************************)
(* Faulty variant: the block is freed behind the limiter's back.           *)
ReallocfFreesQuietly(p, n) ==
  /\ Calls
  /\ ~ FreedByRealloc(Ensured, p, n)
  /\ Becomes(Ensured)
  /\ heap' = [heap EXCEPT ![p] = Vacant]
  /\ counted' = counted \ {p}
  /\ Returns(IF ReallocRefused(Ensured, p, n)
             THEN Refusal(CostOfResize(Ensured, p, n)) ELSE Said("failed"))
  /\ UNCHANGED spent

ReallocfFrees(p, n) ==
  /\ Calls
  /\ ~ FreedByRealloc(Ensured, p, n)
  /\ \/ /\ ReallocRefused(Ensured, p, n)
        /\ quiet_free(Ensured, p, Refusal(CostOfResize(Ensured, p, n)))
     \/ /\ ReallocAllowed(Ensured, p, n)
        /\ quiet_free(Ensured, p, Said("failed"))

ReallocfFreesTwice(p, n) ==
  /\ Calls
  /\ FreedByRealloc(Ensured, p, n)
  /\ Exits("double free")

rtipd_reallocf(p, n) ==
  \/ ReallocfFrees(p, n)
  \/ ReallocfFreesTwice(p, n)
  \/ ReallocReturnsBlock(p, n)

(* The setters do not look at the environment, and leave the heap alone.   *)
Set(mode, n) ==
  /\ status = "running"
  /\ Becomes(SetLimiter(mode, n))
  /\ counted' = {}
  /\ spent' = 0
  /\ Returns(Said("none"))
  /\ UNCHANGED heap

alloc_limit_set_no_limit == Set("NO_LIMIT", 0)
alloc_limit_set_total(n) == Set("LIMIT_TOTAL", n)
alloc_limit_set_peak(n)  == Set("LIMIT_PEAK", n)

(***************************************************************************)
(* Code that does not include <ipd.h> (the C library's own strdup or       *)
(* getline, another module of the program) hands a block over or frees     *)
(* one, without any accounting.                                            *)
(***************************************************************************)
ForeignMalloc(p, n) ==
  /\ status = "running"
  /\ p \in Free
  /\ heap' = [heap EXCEPT ![p] = n]
  /\ Returns(Said("none"))
  /\ UNCHANGED <<alloc_limit_state, bytes_remaining, allocation_list, limit,
                 counted, spent>>

ForeignFree(p) ==
  /\ ForeignFrees
  /\ status = "running"
  /\ heap' = [heap EXCEPT ![p] = Vacant]
  /\ counted' = counted \ {p}
  /\ Returns(Said("none"))
  /\ UNCHANGED <<alloc_limit_state, bytes_remaining, allocation_list, limit,
                 spent>>

Next ==
  \/ BadEnvVar
  \/ FreeNull
  \/ alloc_limit_set_no_limit
  \/ \E n \in Limits : alloc_limit_set_total(n) \/ alloc_limit_set_peak(n)
  \/ \E n \in Requests : rtipd_malloc(n)
  \/ \E nmemb, size \in Requests : rtipd_calloc(nmemb, size)
  \/ \E p \in Live : rtipd_free(p)
  \/ \E p \in Live, n \in Requests : rtipd_realloc(p, n)
  \/ \E p \in Live, n \in Requests : rtipd_reallocf(p, n)
  \/ \E p \in Pointer, n \in Requests : ForeignMalloc(p, n)
  \/ \E p \in Live : ForeignFree(p)

Spec == Init /\ [][Next]_vars

-----------------------------------------------------------------------------
TypeOK ==
  /\ alloc_limit_state \in Modes \cup {"UNINITIALIZED"}
  /\ bytes_remaining \in Size
  /\ allocation_list \in [Pointer -> Stacks]
  /\ env \in Environments
  /\ heap \in [Pointer -> Size \cup {Vacant}]
  /\ status \in {"running", "exit 254", "exit 255", "SIGFPE", "double free"}
  /\ reply \in Replies
  /\ limit \in Size
  /\ counted \subseteq Live
  /\ spent \in Nat

-----------------------------------------------------------------------------
(***************************************************************************)
(* What the records of allocation_list add up to, and what the live blocks *)
(* granted under the current limit add up to.                              *)
(***************************************************************************)
RecordSizes(list) ==
  [k \in Pointer \X (1 .. MaxRecords) |->
     IF k[2] \in DOMAIN list[k[1]] THEN list[k[1]][k[2]] ELSE 0]

Ledger == Volume(RecordSizes(allocation_list))

Charges == [p \in Pointer |-> Charge(p)]

InUse == Volume(Charges)

(***************************************************************************)
(* Whatever the C allocator and foreign code do, the peak budget is        *)
(* neither lost nor invented by the subtractions, the wrapping addition of *)
(* change_in_size and the records that realloc rewrites: what is missing   *)
(* from the limit is what the records say.  Outside a peak limit there is  *)
(* no record.                                                              *)
(***************************************************************************)
LedgerBalanced ==
  IF alloc_limit_state = "LIMIT_PEAK"
  THEN bytes_remaining + Ledger = limit
  ELSE allocation_list = NoRecords

(***************************************************************************)
(* Under a total limit, the bytes remaining are the limit less every byte  *)
(* granted since it was set, by malloc, calloc, realloc or reallocf, in    *)
(* size_t arithmetic that never wraps.                                     *)
(***************************************************************************)
SpentBalanced ==
  alloc_limit_state = "LIMIT_TOTAL" => bytes_remaining + spent = limit

(***************************************************************************)
(* "with LIMIT_TOTAL this number is monotone decreasing (unless you reset  *)
(* it explicitly)": no sequence of frees and shrinking reallocs gives      *)
(* bytes back to a total limit.                                            *)
(***************************************************************************)
Resets == \E n \in Limits : alloc_limit_set_total(n)

TotalOnlyShrinks ==
  [][ /\ alloc_limit_state = "LIMIT_TOTAL"
      /\ alloc_limit_state' = "LIMIT_TOTAL"
      /\ ~ Resets
      => bytes_remaining' <= bytes_remaining ]_vars

(***************************************************************************)
(* A peak limit "caps the total size of the heap": the live blocks granted *)
(* since it was set never add up to more than it.                          *)
(***************************************************************************)
PeakCap == alloc_limit_state = "LIMIT_PEAK" => InUse <= limit

(***************************************************************************)
(* The record of a block follows it, and no block is given back with the   *)
(* record of another, though an address may have several: of a block that  *)
(* foreign code freed, of one that realloc freed or moved away.            *)
(*   - A block whose newest record is its own keeps it, of its present     *)
(*     size, while it lives, whatever becomes of the others.               *)
(*   - A block granted at an address gets its own, on top of any left      *)
(*     there.  The one that does not is a recorded block that realloc      *)
(*     moved there: its record changes size and stays at the address the   *)
(*     block has left (alloc_rt.c:341 does not change the pointer).        *)
(*   - A block freed with its own record on top gives back its own size,   *)
(*     unless it is freed behind the limiter's back, by foreign code or by *)
(*     realloc(p, 0), which gives nothing back.                            *)
(***************************************************************************)
Own(p) ==
  /\ p \in counted
  /\ allocation_list[p] # << >>
  /\ allocation_list[p][Len(allocation_list[p])] = heap[p]

LeavesRecord(r, p) ==
  /\ allocation_list[r] # << >>
  /\ heap' = [heap EXCEPT ![r] = Vacant, ![p] = heap'[p]]
  /\ allocation_list' =
       [allocation_list EXCEPT ![r][Len(allocation_list[r])] = heap'[p]]

FreesQuietly(p) == ForeignFree(p) \/ (ZeroFrees /\ rtipd_realloc(p, 0))

SetsPeak == \E n \in Limits : alloc_limit_set_peak(n)

RecordFollowsBlock ==
  [][ alloc_limit_state' = "LIMIT_PEAK" /\ ~ SetsPeak =>
      \A p \in Pointer :
        /\ Own(p) /\ p \in counted' => Own(p)'
        /\ p \in counted' \ counted /\ ~ Own(p)' =>
             \E r \in Live : LeavesRecord(r, p)
        /\ Own(p) /\ heap' = [heap EXCEPT ![p] = Vacant] =>
             \/ bytes_remaining' = bytes_remaining + heap[p]
             \/ FreesQuietly(p) ]_vars

=============================================================================
