------------------------------ MODULE PageLayout ------------------------------
(* The bytes of a page that holds records or an index, as numbers from 0.     *)
(* Records and slots follow the header; the bits that say which records exist *)
(* lie at the end of the page, bit 0 in the last byte.                        *)
EXTENDS Integers

PageSize   == 8192
HeaderSize == 96                  \* 24 words
RoomSize   == PageSize - HeaderSize
MinSlots   == 4                   \* IndexPage.cpp:127: "MUST >= 4"
-----------------------------------------------------------------------------
(* A page of records, which have the length len.                              *)

\* RecordManager::createSet accepts these lengths.
RecordLengths == 1 .. 8095

\* maxRecordPerPage: every record takes its bytes and a bit.
MaxRecordPerPage(len) == (8 * RoomSize) \div (8 * len + 1)

\* Record i begins here and ends where record i + 1 would begin.
RecordBegin(len, i) == HeaderSize + i * len

\* The byte with bit i: recordMap[-(i / 8)], recordMap being the last byte.
MapByte(i) == PageSize - 1 - i \div 8
-----------------------------------------------------------------------------
(* A page of an index with keys of the length len.                            *)

RIDSize     == 4
PointerSize == 2
KeyLengths  == 1 .. 8000         \* IndexManager::createIndex

LeafSlot(len)      == len + RIDSize
InnerSlot(len)     == len + RIDSize + PointerSize
SlotCapacity(slot) == RoomSize \div slot
SlotBegin(slot, i) == HeaderSize + i * slot
=============================================================================
