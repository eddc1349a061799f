---------------------------- MODULE SlottedPage -----------------------------
(***************************************************************************)
(* SlottedPage (wackdb_page, page.rs): a header, a directory of slots that *)
(* grows upwards behind it, and records that grow down from the end of the *)
(* page.  Sizes are those of the program's types, arithmetic is of 16      *)
(* bits.  The LSN in the header is the business of Engine.tla; xmin, which *)
(* nothing reads, is left out.                                             *)
(***************************************************************************)
EXTENDS Bytes

CONSTANT PAGE_SIZE

PageHeaderSize == 16
TupleHeaderSize == 16
SlotSize == 4

(* Offsets have 16 bits. *)
ASSUME PageAssumption == PAGE_SIZE \in PageHeaderSize .. 65535

-----------------------------------------------------------------------------
(* The header, with zeros in a page that was never initialized.            *)
Header(page) ==
    LET h == Read(page, 0, PageHeaderSize)
    IN  IF h[1] = "page" THEN [total_slots |-> h[2], lower |-> h[3], upper |-> h[4]]
        ELSE [total_slots |-> 0, lower |-> 0, upper |-> 0]

WithHeader(page, total_slots, lower, upper) ==
    Write(page, 0, PageHeaderSize, <<"page", total_slots, lower, upper>>)

TotalSlots(page) == Header(page).total_slots

SlotAt(i) == PageHeaderSize + SlotSize * i

Slot(page, i) ==
    LET s == Read(page, SlotAt(i), SlotSize)
    IN  IF s[1] = "slot" THEN [offset |-> s[2], length |-> s[3]]
        ELSE [offset |-> 0, length |-> 0]

(* SlottedPage::init, of a page of zeros.                                  *)
EmptyPage == WithHeader({}, 0, PageHeaderSize, U16(PAGE_SIZE))

-----------------------------------------------------------------------------
(* insert_record *)

FreeSpace(page) == U16(Header(page).upper - Header(page).lower)

(* Mutants: the new slot is forgotten; an exact fit is refused.            *)
HasRoomForgetsSlot(page, len) == FreeSpace(page) >= U16(TupleHeaderSize + len)
HasRoomStrictly(page, len) == FreeSpace(page) > U16(TupleHeaderSize + len + SlotSize)

HasRoom(page, len) == FreeSpace(page) >= U16(TupleHeaderSize + len + SlotSize)

(* The header of the tuple, its bytes, the header of the page and the      *)
(* directory are written in this order.                                    *)
InsertRecord(page, tuple) ==
    LET h == Header(page)
        total_len == TupleHeaderSize + tuple.len
        new_offset == U16(h.upper - total_len)
        tupled == Write(page, new_offset, TupleHeaderSize, <<"tuple", 0>>)
        filled == Copy(tupled, new_offset + TupleHeaderSize, tuple.len, tuple.bytes)
        headed == WithHeader(filled, h.total_slots + 1, h.lower + SlotSize, new_offset)
    IN  Write(headed, SlotAt(h.total_slots), SlotSize, <<"slot", new_offset, total_len>>)

-----------------------------------------------------------------------------
(* mark_deleted, and what get_record_from_bytes (wackdb_query) returns.    *)

MarkDeleted(page, i, xmax) ==
    IF i < TotalSlots(page) /\ Slot(page, i).length # 0
    THEN Write(page, Slot(page, i).offset, TupleHeaderSize, <<"tuple", xmax>>)
    ELSE page

HasRecord(page, i) ==
    /\ i < TotalSlots(page)
    /\ Slot(page, i).length # 0
    /\ Read(page, Slot(page, i).offset, TupleHeaderSize) = <<"tuple", 0>>

Record(page, i) ==
    LET len == Slot(page, i).length - TupleHeaderSize
    IN  [bytes |-> Slice(page, Slot(page, i).offset + TupleHeaderSize, len), len |-> len]

LiveSlots(page) == { i \in 0 .. TotalSlots(page) - 1 : HasRecord(page, i) }

-----------------------------------------------------------------------------
(* Where the bytes of a page are: header, directory and free space at the  *)
(* bottom, and the records, back to back, from there to the end.           *)
WellFormed(page) ==
    LET h == Header(page)
        OffsetOf(i) == Slot(page, i).offset
        EndOf(i) == OffsetOf(i) + Slot(page, i).length
    IN  /\ h.lower = SlotAt(h.total_slots)
        /\ h.lower <= h.upper
        /\ \A i \in 0 .. h.total_slots - 1 :
              /\ EndOf(i) = (IF i = 0 THEN PAGE_SIZE ELSE OffsetOf(i - 1))
              /\ EndOf(i) - OffsetOf(i) > TupleHeaderSize
        /\ h.upper = (IF h.total_slots = 0 THEN PAGE_SIZE ELSE OffsetOf(h.total_slots - 1))
=============================================================================
