-------------------------------- MODULE PopBuf --------------------------------
(***************************************************************************)
(* lib/libpop.c: the cursor of one pop_buf_t, moved by pop_buf_put, _trim, *)
(* _pull and _push, and lib/pop_netmap.c: pop_nm_set_buf(), which hands    *)
(* the data to a netmap tx slot.                                           *)
(*                                                                         *)
(* Positions are bytes from pbuf->vaddr (pbuf->paddr runs beside it).      *)
(* size_t arithmetic is modulo WORD, and a slot's len modulo SLOT_WORD.    *)
(***************************************************************************)
EXTENDS Integers

CONSTANTS Size,       \* pbuf->size
          Lens,       \* lengths the callers pass
          WORD,       \* size_t counts modulo WORD
          SLOT_WORD   \* netmap_slot.len counts modulo SLOT_WORD

\* No sum of a position and a length wraps: the test in pop_buf_put() relies
\* on its callers for this.
ASSUME LensAssumption ==
    /\ Size \in Nat /\ WORD \in Nat /\ Size < WORD /\ SLOT_WORD \in Nat \ {0}
    /\ Lens \subseteq Nat
    /\ \A len \in Lens : Size + len < WORD

VARIABLES offset,   \* pbuf->offset
          length,   \* pbuf->length
          ret,      \* what the last call returned: a position, or NULL
          slot      \* the tx slot: where the data starts, and its len

bufvars == <<offset, length, ret, slot>>

NULL == -1

BufTypeOK ==
    /\ offset \in 0 .. Size
    /\ length \in 0 .. Size
    /\ ret \in {NULL} \cup 0 .. Size
    /\ slot \in [ptr : 0 .. Size, len : 0 .. SLOT_WORD - 1]

BufInit ==
    /\ offset = 0 /\ length = 0 /\ ret = NULL
    /\ slot = [ptr |-> 0, len |-> 0]

Word(x) == x % WORD

\* The four operations end alike: refused, or the cursor moves and the
\* caller gets pop_buf_data().
Refuse == ret' = NULL /\ UNCHANGED <<offset, length, slot>>

Move(off, len) ==
    /\ offset' = Word(off)
    /\ length' = Word(len)
    /\ ret' = Word(off)
    /\ UNCHANGED slot

\* Mutant of pop_buf_put: the test forgets the offset.
pop_buf_put_no_offset(len) ==
    IF Word(length + len) > Size
    THEN Refuse
    ELSE Move(offset, length + len)

pop_buf_put(len) ==
    IF Word(offset + length + len) > Size
    THEN Refuse
    ELSE Move(offset, length + len)

pop_buf_trim(len) ==
    IF length < len THEN Refuse ELSE Move(offset, length - len)

\* Mutant of pop_buf_pull: the length stays.
pop_buf_pull_keeps_length(len) ==
    IF length < len THEN Refuse ELSE Move(offset + len, length)

pop_buf_pull(len) ==
    IF length < len THEN Refuse ELSE Move(offset + len, length - len)

pop_buf_push(len) ==
    IF offset < len THEN Refuse ELSE Move(offset - len, length + len)

\* Mutant of pop_buf_len: what is left of the buffer, not of the data.
pop_buf_len_of_buffer == Word(Size - offset)

pop_buf_len == Word(length - offset)

\* pop_nm_set_buf(): ptr and len of the slot.
pop_nm_set_buf ==
    /\ slot' = [ptr |-> offset, len |-> pop_buf_len % SLOT_WORD]
    /\ UNCHANGED <<offset, length, ret>>

BufNext ==
    \/ \E len \in Lens : \/ pop_buf_put(len)
                         \/ pop_buf_trim(len)
                         \/ pop_buf_pull(len)
                         \/ pop_buf_push(len)
    \/ pop_nm_set_buf

BufSpec == BufInit /\ [][BufNext]_bufvars

------------------------------------------------------------------------------
(***************************************************************************)
(* The data never leaves the pages of the buffer, after any sequence of    *)
(* put, trim, pull and push: data + length stays inside pbuf->size.        *)
(***************************************************************************)
DataInside == offset + length <= Size

\* First and last position of the data, the last one excluded.
Start == offset
End == offset + length

(***************************************************************************)
(* A call moves one end of the data at most, as on an sk_buff: put and     *)
(* trim keep the start, so what was written stays where it is, and pull    *)
(* and push keep the end, so what was pulled comes back with a push.       *)
(***************************************************************************)
OneEndMoves == [][Start' = Start \/ End' = End]_bufvars

(***************************************************************************)
(* libpop.h says length is the "length of data": a slot filled for         *)
(* transmission describes the data of the buffer, from its start to its    *)
(* end.  pop_buf_len() subtracts the offset from it once more.             *)
(***************************************************************************)
SlotIsData ==
    [][slot' # slot => slot' = [ptr |-> offset, len |-> length]]_bufvars

(***************************************************************************)
(* What of this holds: as long as no more was pulled from the front of a   *)
(* buffer than is left in it, the slot that pop_nm_set_buf() fills stays   *)
(* within the data, so the NIC sends bytes of this buffer only.            *)
(***************************************************************************)
SlotInside ==
    [][slot' # slot /\ offset <= length
         => Start <= slot'.ptr /\ slot'.ptr + slot'.len <= End]_bufvars
==============================================================================
