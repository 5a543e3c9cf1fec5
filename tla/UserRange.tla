------------------------------ MODULE UserRange -----------------------------
(***************************************************************************)
(* The address arithmetic of kernel/memory/user_space.c and usercopy.c:    *)
(* which ranges are user memory.  Addresses are unsigned and wrap at       *)
(* ADDR_MOD; the layout keeps the code's shape, a low user range with a    *)
(* hole for memory-mapped devices.                                         *)
(***************************************************************************)
EXTENDS Integers

CONSTANTS
  ADDR_MOD,           \* 2^64 in the code
  PAGE_SIZE,
  USER_SPACE_BASE, USER_SPACE_TOP,   \* first and last user address
  MmioBase, MmioEnd   \* the device range inside: [MmioBase, MmioEnd)

ASSUME RangeAssumption ==
  /\ ADDR_MOD \in Nat /\ PAGE_SIZE \in Nat \ {0} /\ ADDR_MOD % PAGE_SIZE = 0
  /\ USER_SPACE_BASE = PAGE_SIZE
  /\ USER_SPACE_TOP \in USER_SPACE_BASE .. ADDR_MOD - 2
  /\ MmioBase \in Nat /\ MmioEnd \in MmioBase + 1 .. USER_SPACE_TOP

Addr == 0 .. ADDR_MOD - 1
Page == 0 .. ADDR_MOD \div PAGE_SIZE - 1
PageOf(addr) == addr \div PAGE_SIZE

RangeEnd(start, len) == (start + len) % ADDR_MOD

(* usercopy_range_end() = USERCOPY_OK *)
usercopy_range_end(start, len) == len = 0 \/ RangeEnd(start, len) >= start

ranges_overlap(a_start, a_end, b_start, b_end) == a_start < b_end /\ b_start < a_end

user_space_va_range_is_valid_StartOnly(va, size) ==
  LET end == RangeEnd(va, size) IN
  /\ size # 0 /\ end >= va
  /\ va >= USER_SPACE_BASE /\ va <= USER_SPACE_TOP
  /\ ~ranges_overlap(va, end, MmioBase, MmioEnd)

user_space_va_range_is_valid(va, size) ==
  LET end == RangeEnd(va, size) IN
  /\ size # 0 /\ end >= va
  /\ va >= USER_SPACE_BASE /\ (end - 1) % ADDR_MOD <= USER_SPACE_TOP
  /\ ~ranges_overlap(va, end, MmioBase, MmioEnd)

-----------------------------------------------------------------------------
(* The bytes a user pointer may reach. *)
UserByte == (USER_SPACE_BASE .. USER_SPACE_TOP) \ (MmioBase .. MmioEnd - 1)
=============================================================================
