----------------------------- MODULE Pagination -----------------------------
(***************************************************************************)
(* Which rows a page of a list has (crates/common/src/pagination.rs).  The *)
(* parameters come from the query string as they are; a parameter that is  *)
(* left out is {}, one that is there the set of its value.                 *)
(***************************************************************************)
EXTENDS Integers

CONSTANTS
  DEFAULT_LIMIT,  \* 20
  MAX_LIMIT,      \* 100
  U32Max          \* the largest u32

ASSUME PaginationAssumption ==
  /\ DEFAULT_LIMIT \in 1..MAX_LIMIT
  /\ MAX_LIMIT \in 1..U32Max /\ U32Max \in Nat

UnwrapOr(option, default) ==
  IF option = {} THEN default ELSE CHOOSE n \in option : TRUE

AtLeastOne(n) == IF n < 1 THEN 1 ELSE n

(* limit of a CursorParams and page_size of a PageParams.                  *)
limit(option) ==
  LET n == AtLeastOne(UnwrapOr(option, DEFAULT_LIMIT))
  IN IF n > MAX_LIMIT THEN MAX_LIMIT ELSE n

page(option) == AtLeastOne(UnwrapOr(option, 1))

(* Mutant of offset: the product is computed as a u32.                     *)
offset_u32(page_option, size_option) ==
  ((page(page_option) - 1) * limit(size_option)) % (U32Max + 1)

(* OFFSET, an i64.                                                         *)
offset(page_option, size_option) ==
  (page(page_option) - 1) * limit(size_option)

(* The response: the rows of LIMIT and OFFSET, and the parameters in force.*)
PageOf(page_option, size_option) ==
  [items |-> {offset(page_option, size_option) + i : i \in 1..limit(size_option)},
   page |-> page(page_option), page_size |-> limit(size_option)]

=============================================================================
