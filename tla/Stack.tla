------------------------------- MODULE Stack --------------------------------
(***************************************************************************)
(* The stack page of the CPU (src/src/cpu.cpp 446-493): bytes and          *)
(* addresses put on it and taken off it.  The pointer is a byte and wraps; *)
(* the two bytes of an address lie side by side, and the second of them    *)
(* does not wrap, so that an address put aside with the pointer at 0 has   *)
(* its high byte in the first place after the page.  That place is cell    *)
(* Base here; the rest of RAM is left out.                                 *)
(***************************************************************************)
EXTENDS Integers

CONSTANT Base      \* the values of a byte and the bytes of a page, 256

StackConstants == Base \in Nat /\ Base > 3

Byte == 0..(Base - 1)
Address == 0..(Base * Base - 1)
Cells == [0..Base -> Byte]

(* Arithmetic on byte_t and address_t.                                     *)
Lowered(sp) == IF sp = 0 THEN Base - 1 ELSE sp - 1
Raised(sp) == IF sp = Base - 1 THEN 0 ELSE sp + 1
Moved(address, by) == (address + by) % (Base * Base)

Low(address) == address % Base
High(address) == address \div Base

(* store_ and load_addr_ of an address.                                    *)
StoreAddress(cell, at, address) ==
  [cell EXCEPT ![at] = Low(address), ![at + 1] = High(address)]
LoadAddress(cell, at) == cell[at + 1] * Base + cell[at]

(* store_stack_ and load_stack_ of a byte: the page and the pointer after. *)
ByteStored(cell, sp, byte) == [cell EXCEPT ![sp] = byte]
AfterByteStored(sp) == Lowered(sp)
ByteLoaded(cell, sp) == cell[Raised(sp)]
AfterByteLoaded(sp) == Raised(sp)

(* A slip: the address is written where the pointer is before it moves.    *)
AddressStoredUnmoved(cell, sp, address) == StoreAddress(cell, sp, address)

(* Of an address.                                                          *)
AddressStored(cell, sp, address) == StoreAddress(cell, Lowered(sp), address)
AfterAddressStored(sp) == Lowered(Lowered(sp))
AddressLoaded(cell, sp) == LoadAddress(cell, Raised(sp))
AfterAddressLoaded(sp) == Raised(Raised(sp))
=============================================================================
