------------------------------ MODULE Usercopy ------------------------------
(***************************************************************************)
(* The check of a user pointer before a copy (validate_user_range in       *)
(* kernel/usercopy.cpp), for a user's pages given as the set the tables    *)
(* make accessible.  Machine words wrap at WORD.                           *)
(***************************************************************************)
EXTENDS Integers

CONSTANTS WORD, PAGE_SIZE, USER_SPACE_MIN, USER_SPACE_MAX

\* The last page is taken from the end of the range, not from its last byte.
validate_user_range_end_page(addr, length, accessible) ==
  LET end   == (addr + length) % WORD
      first == addr \div PAGE_SIZE
      last  == end \div PAGE_SIZE
  IN  \/ length = 0
      \/ /\ end >= addr /\ addr >= USER_SPACE_MIN /\ end <= USER_SPACE_MAX
         /\ first .. last \subseteq accessible

(* validate_user_range: page by page from the page of addr to that of end - 1. *)
validate_user_range(addr, length, accessible) ==
  LET end   == (addr + length) % WORD
      first == addr \div PAGE_SIZE
      last  == (end - 1) \div PAGE_SIZE
  IN  \/ length = 0
      \/ /\ end >= addr /\ addr >= USER_SPACE_MIN /\ end <= USER_SPACE_MAX
         /\ first .. last \subseteq accessible

(* Every byte copy_from_user or copy_to_user would touch is one the process    *)
(* may touch itself.                                                           *)
MayTouch(addr, length, accessible) ==
  \A a \in addr .. addr + length - 1 :
    /\ a >= USER_SPACE_MIN /\ a < USER_SPACE_MAX
    /\ a \div PAGE_SIZE \in accessible
=============================================================================
