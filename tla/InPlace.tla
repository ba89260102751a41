------------------------------ MODULE InPlace ------------------------------
(***************************************************************************)
(* In-place deltas (src/build.rs, src/encode.rs, src/endf.rs): the host    *)
(* plans a flash window, encodes the patch for it and checks that window   *)
(* and staged container fit the device; the device then rebuilds the image *)
(* inside the window that holds the only copy of its base.  The device's   *)
(* side (staging and the detools decoder) is not in this repository; it is *)
(* modelled from the geometry encode_in_place documents and encodes for.   *)
(*                                                                         *)
(* Addresses are relative to the application base.  A cell of flash holds  *)
(* a byte of the base, of the target, of the staged container, or nothing  *)
(* of use; only where a byte came from matters, never its value.           *)
(***************************************************************************)
EXTENDS Integers

CONSTANTS
    Page,            \* NRF52_INPLACE_SEGMENT, the flash page
    AppBases,        \* application addresses of the supported SoftDevices
    ExtraFS,         \* NRF52_EXTRAFS_START
    BootScratch,     \* NRF52_BOOT_SCRATCH_START
    AppEnd,          \* NRF52_APP_END
    FallbackMemory,  \* NRF52_FALLBACK_INPLACE_MEMORY
    FallbackSpan,    \* NRF52_FALLBACK_FLASH_SPAN
    RamSize,         \* NRF52_HYBRID_RAM_SIZE
    U32Max,          \* largest window a u32 holds
    Lens,            \* lengths of the base and of the target image
    Segments,        \* --segment-size
    Memories,        \* --inplace-memory
    Totals,          \* sizes of the built container
    Layouts,         \* layout records found in images
    None             \* option not given, record absent

ASSUME GeometryAssumption ==
    /\ Page \in Nat \ {0} /\ RamSize \in Nat /\ U32Max \in Nat
    /\ AppBases \subseteq Nat
    /\ ExtraFS \in Nat /\ BootScratch \in Nat /\ AppEnd \in Nat
    /\ FallbackMemory \in Nat /\ FallbackSpan \in Nat
    /\ Lens \subseteq Nat /\ Segments \subseteq Nat
    /\ Memories \subseteq Nat /\ Totals \subseteq Nat
    /\ None \notin Nat

VARIABLES
    phase,   \* "plan", "pack", "shift", "write", "done" or "refused"
    opts,    \* what build is given
    memory,  \* InplacePlan.memory
    total,   \* size of the container
    seg,     \* next segment the device rebuilds
    flash    \* address -> origin of the byte

vars == <<phase, opts, memory, total, seg, flash>>

----------------------------------------------------------------------------
(* Nrf52Layout.                                                            *)

Flags == {"sd", "extrafs", "qspi", "scratch", "hybrid", "auto"}

External(l) == "sd" \in l.flags \/ "qspi" \in l.flags
ApplicationCeiling(l) == IF "scratch" \in l.flags THEN l.linked_app_end ELSE AppEnd

\* Nrf52Layout::validate
ValidLayout(l) ==
    /\ l.app_base \in AppBases
    /\ l.linked_app_end \in {ExtraFS, BootScratch, AppEnd}
    /\ l.stage_ceiling \in {ExtraFS, AppEnd}
    /\ l.app_base < l.linked_app_end /\ l.linked_app_end <= AppEnd
    /\ l.flags \subseteq Flags
    /\ ~({"sd", "qspi"} \subseteq l.flags)
    /\ ~(External(l) /\ "extrafs" \in l.flags)
    /\ "auto" \in l.flags => ~External(l) /\ "extrafs" \notin l.flags
    /\ "hybrid" \in l.flags =>
         /\ ~External(l) /\ "extrafs" \notin l.flags
         /\ l.linked_app_end = AppEnd /\ l.stage_ceiling = AppEnd
    /\ IF "scratch" \in l.flags
         THEN "qspi" \in l.flags /\ "sd" \notin l.flags /\ l.linked_app_end = BootScratch
         ELSE l.linked_app_end # BootScratch
    /\ l.stage_ceiling = IF "extrafs" \in l.flags /\ ~External(l) THEN ExtraFS ELSE AppEnd

\* parse_nrf52_layout: absent is fine, an invalid record is an error
ParsesAs(l) == l = None \/ ValidLayout(l)

----------------------------------------------------------------------------
(* Planning: minimum_inplace_memory, plan_inplace, validate_staging_fit.   *)

RoundUp(n, unit) == ((n + (unit - 1)) \div unit) * unit
Larger(a, b) == IF a < b THEN b ELSE a
Smaller(a, b) == IF a < b THEN a ELSE b

\* MUTANT of MinimumMemory: no room for the two-segment shift
MinimumNoHeadroom(o) ==
    Larger(RoundUp(o.base_len, o.segment), RoundUp(o.target_len, o.segment))

MinimumMemory(o) ==
    Larger(RoundUp(o.base_len, o.segment) + 2 * o.segment, RoundUp(o.target_len, o.segment))

ImageFits(len, l) == len <= Smaller(l.linked_app_end, l.stage_ceiling) - l.app_base

LegacyAuto(o) == o.memory = None /\ (o.base_layout = None \/ o.target_layout = None)

ChosenMemory(o) ==
    IF o.memory # None THEN o.memory
    ELSE IF LegacyAuto(o) THEN FallbackMemory ELSE MinimumMemory(o)

\* everything plan_inplace insists on
Plannable(o) ==
    /\ o.segment # 0
    /\ ParsesAs(o.base_layout) /\ ParsesAs(o.target_layout)
    /\ o.base_layout # None => ImageFits(o.base_len, o.base_layout)
    /\ o.target_layout # None => ImageFits(o.target_len, o.target_layout)
    /\ o.base_layout # None /\ o.target_layout # None =>
         o.base_layout.app_base = o.target_layout.app_base
    /\ o.base_layout # None => o.segment = Page
    /\ MinimumMemory(o) <= U32Max
    /\ ChosenMemory(o) # 0 /\ ChosenMemory(o) % o.segment = 0
    /\ ChosenMemory(o) >= MinimumMemory(o)
    /\ LegacyAuto(o) => o.segment = Page
    /\ o.base_layout # None =>
         LET l == o.base_layout
             apply == ApplicationCeiling(l) - l.app_base IN
         /\ ChosenMemory(o) <= IF External(l) THEN apply ELSE l.stage_ceiling - l.app_base
         /\ o.target_len <= apply

\* whether a physical ceiling is known, and the flash below it
Bounded(o) == IF o.base_layout # None THEN ~External(o.base_layout) ELSE LegacyAuto(o)
Span(o) == IF o.base_layout # None THEN o.base_layout.stage_ceiling - o.base_layout.app_base
           ELSE FallbackSpan

\* flash the staged container takes: hybrid staging keeps a tail in RAM
Hybrid(o) == o.base_layout # None /\ "hybrid" \in o.base_layout.flags

Staged(o, size) ==
    IF Hybrid(o)
      THEN Larger(RoundUp(IF size > RamSize THEN size - RamSize ELSE 0, Page), Page)
      ELSE RoundUp(size, Page)

\* MUTANT of StagingFits: leaves room for the base image, not for the window
StagingFitsImage(o, mem, size) ==
    Bounded(o) => o.base_len + Staged(o, size) <= Span(o)

\* validate_staging_fit
StagingFits(o, mem, size) ==
    Bounded(o) =>
        /\ Hybrid(o) => size - Staged(o, size) <= RamSize
        /\ mem + Staged(o, size) <= Span(o)

----------------------------------------------------------------------------
(* Encoding: the geometry encode_in_place writes into the patch.           *)

Ceil(n, unit) == (n + (unit - 1)) \div unit

\* calc_shift
ShiftSize(o, mem) ==
    LET spare == Ceil(mem, o.segment) - Ceil(o.base_len, o.segment)
    IN  Larger(Larger(spare, 0) * o.segment, 2 * o.segment)

\* what is left of the base once it is shifted inside the window
BaseKept(o, mem) == Smaller(o.base_len, mem - ShiftSize(o, mem))

\* MUTANT of FromOffset: lets a segment read the base bytes it overwrites
FromOffsetSameSegment(o, mem, s) == Larger(s * o.segment - ShiftSize(o, mem), 0)

\* segment s is encoded against the base from here on
FromOffset(o, mem, s) == Larger((s + 1) * o.segment - ShiftSize(o, mem), 0)

----------------------------------------------------------------------------
(* Actions.                                                                *)

Junk == [of |-> "none", at |-> 0]
BaseByte(k) == [of |-> "base", at |-> k]
TargetByte(k) == [of |-> "target", at |-> k]
ContainerByte(a) == [of |-> "container", at |-> a]

Options ==
    [base_len : Lens, target_len : Lens, segment : Segments, memory : Memories \cup {None},
     base_layout : Layouts \cup {None}, target_layout : Layouts \cup {None}]

Init ==
    /\ phase = "plan"
    /\ opts \in Options
    /\ memory = 0 /\ total = 0 /\ seg = 0
    /\ flash = <<>>

\* MUTANT of Plan: records the option instead of the window chosen from it
PlanUnresolved ==
    /\ phase = "plan"
    /\ IF Plannable(opts) THEN phase' = "pack" /\ memory' = opts.memory
                          ELSE phase' = "refused" /\ UNCHANGED memory
    /\ UNCHANGED <<opts, total, seg, flash>>

Plan ==
    /\ phase = "plan"
    /\ IF Plannable(opts) THEN phase' = "pack" /\ memory' = ChosenMemory(opts)
                          ELSE phase' = "refused" /\ UNCHANGED memory
    /\ UNCHANGED <<opts, total, seg, flash>>

\* addresses the container is staged at, right below the ceiling
StagedAt(o, size) == (Span(o) - Staged(o, size))..(Span(o) - 1)
Window(o, mem) == 0..(Larger(mem, IF Bounded(o) THEN Span(o) ELSE 0) - 1)

\* build packs a container; the device stages it above its running image
Pack ==
    /\ phase = "pack"
    /\ \E size \in Totals :
         IF StagingFits(opts, memory, size)
           THEN /\ phase' = "shift" /\ total' = size
                /\ flash' = [a \in Window(opts, memory) |->
                     IF Bounded(opts) /\ a \in StagedAt(opts, size) THEN ContainerByte(a)
                     ELSE IF a < opts.base_len THEN BaseByte(a) ELSE Junk]
           ELSE phase' = "refused" /\ UNCHANGED <<total, flash>>
    /\ UNCHANGED <<opts, memory, seg>>

\* the decoder moves the base up inside the window
Shift ==
    /\ phase = "shift"
    /\ phase' = "write"
    /\ LET shift == ShiftSize(opts, memory) IN
       flash' = [a \in DOMAIN flash |->
                  IF a >= shift /\ a < shift + BaseKept(opts, memory) THEN flash[a - shift]
                  ELSE flash[a]]
    /\ UNCHANGED <<opts, memory, total, seg>>

\* the base bytes segment s may be decoded from are still where they belong,
\* and stay there when segment s itself is erased
BaseReadable(s) ==
    \A k \in FromOffset(opts, memory, s)..(BaseKept(opts, memory) - 1) :
        LET a == ShiftSize(opts, memory) + k
        IN  flash[a] = BaseByte(k) /\ a >= (s + 1) * opts.segment

\* the decoder erases a segment and writes what it decodes there
WriteSegment ==
    /\ phase = "write"
    /\ seg * opts.segment < opts.target_len
    /\ flash' = [a \in DOMAIN flash |->
                  IF a < seg * opts.segment \/ a >= (seg + 1) * opts.segment THEN flash[a]
                  ELSE IF a < opts.target_len /\ BaseReadable(seg) THEN TargetByte(a)
                  ELSE Junk]
    /\ seg' = seg + 1
    /\ UNCHANGED <<phase, opts, memory, total>>

Finish ==
    /\ phase = "write"
    /\ seg * opts.segment >= opts.target_len
    /\ phase' = "done"
    /\ UNCHANGED <<opts, memory, total, seg, flash>>

Rest == phase \in {"done", "refused"} /\ UNCHANGED vars

Next == Plan \/ Pack \/ Shift \/ WriteSegment \/ Finish \/ Rest

Spec == Init /\ [][Next]_vars

----------------------------------------------------------------------------
(* Properties.                                                             *)

\* Type correctness.
TypeOK ==
    /\ phase \in {"plan", "pack", "shift", "write", "done", "refused"}
    /\ opts \in Options
    /\ memory \in Nat /\ total \in Totals \cup {0} /\ seg \in Nat

\* An accepted plan never loses base bytes to the window: all of the base
\* survives the shift (encode_in_place would silently truncate it), and the
\* rebuilt image lies inside the window.
WindowHoldsBoth ==
    phase \in {"shift", "write", "done"} =>
        BaseKept(opts, memory) = opts.base_len /\ opts.target_len <= memory

\* Writing low never destroys base bytes the segment at hand or a later one
\* is encoded against (encode_in_place's claim about its shift).
NeededBaseIntact ==
    phase = "write" /\ seg * opts.segment < opts.target_len => BaseReadable(seg)

\* The device ends up with the target image, every byte of it.
ImageRebuilt ==
    phase = "done" => \A a \in 0..(opts.target_len - 1) : flash[a] = TargetByte(a)

\* Where staging is internal, neither the shift nor the erased segments touch
\* the staged container the patch is being read from.
ContainerIntact ==
    phase \in {"shift", "write", "done"} /\ Bounded(opts) =>
        \A a \in StagedAt(opts, total) : flash[a] = ContainerByte(a)

=============================================================================
