------------------------------ MODULE Validate ------------------------------
(***************************************************************************)
(* What is accepted as an address, a password and a user name, and how     *)
(* addresses are normalised (crates/common/src/validate.rs).               *)
(*                                                                         *)
(* "a" and "A" stand for the letters of ASCII, "1" for the digits, "I" for *)
(* the characters beyond ASCII: it is the capital with a dot (U+0130), the *)
(* lower case of which, "i", is longer, three bytes instead of two.        *)
(***************************************************************************)
EXTENDS Text

CONSTANTS
  EMAIL_MAX_LEN,     \* 254 bytes
  LocalMax,          \* the bytes before the @: 64
  PASSWORD_MIN_LEN,  \* 8 characters
  PASSWORD_MAX_LEN,  \* 128
  USERNAME_MIN_LEN,  \* 3
  USERNAME_MAX_LEN   \* 32

ASSUME ValidateAssumption ==
  /\ PASSWORD_MIN_LEN \in Nat /\ PASSWORD_MAX_LEN \in Nat

Letters == {"a", "A"}
Digits == {"1"}

(* len: bytes, where count counts characters.                              *)
Bytes(text) ==
  FoldLeft(LAMBDA n, c : n + CASE c = "I" -> 2 [] c = "i" -> 3 [] OTHER -> 1,
           0, text)

to_ascii_lowercase(text) ==
  [i \in DOMAIN text |-> IF text[i] = "A" THEN "a" ELSE text[i]]

to_lowercase(text) ==
  [i \in DOMAIN text |->
     CASE text[i] = "A" -> "a" [] text[i] = "I" -> "i" [] OTHER -> text[i]]

-----------------------------------------------------------------------------
(* One @, something on both sides of it, and a domain of two labels or     *)
(* more: none is empty, so the domain neither begins nor ends with a dot.  *)
is_valid_email(email) ==
  LET text == Trim(email)
      parts == Split(text, "@")
      labels == Split(parts[2], ".")
  IN /\ text # <<>> /\ Bytes(text) <= EMAIL_MAX_LEN
     /\ ToSet(text) \cap Blanks = {}
     /\ Len(parts) = 2
     /\ parts[1] # <<>> /\ Bytes(parts[1]) <= LocalMax
     /\ Len(labels) > 1
     /\ \A label \in ToSet(labels) :
          label # <<>> /\ ToSet(label) \subseteq Letters \cup Digits \cup {"-"}

normalize_email(email) == to_lowercase(Trim(email))

(* Mutant of email_domain_allowed: the case of the list is not ignored.    *)
email_domain_allowed_as_listed(email, allowed_domains) ==
  LET text == normalize_email(email)
  IN \/ allowed_domains = {}
     \/ \E i \in DOMAIN text :
          /\ text[i] = "@" /\ \A j \in 1..(i - 1) : text[j] # "@"
          /\ SubSeq(text, i + 1, Len(text)) \in allowed_domains

(* An entry of the list without the blanks around it and the @ before it.  *)
ListedDomain(entry) ==
  LET text == Trim(entry)
      kept == {i \in DOMAIN text : text[i] # "@"}
  IN to_ascii_lowercase(
       IF kept = {} THEN <<>> ELSE SubSeq(text, Min(kept), Len(text)))

(* What follows the first @ is in the list, or there is no list.           *)
email_domain_allowed(email, allowed_domains) ==
  LET text == normalize_email(email)
  IN \/ allowed_domains = {}
     \/ \E i \in DOMAIN text :
          /\ text[i] = "@" /\ \A j \in 1..(i - 1) : text[j] # "@"
          /\ to_ascii_lowercase(SubSeq(text, i + 1, Len(text)))
               \in {ListedDomain(entry) : entry \in allowed_domains}

(* The first rule that is broken.                                          *)
validate_password(password) ==
  IF Len(password) < PASSWORD_MIN_LEN           THEN "too_short"
  ELSE IF Len(password) > PASSWORD_MAX_LEN      THEN "too_long"
  ELSE IF ToSet(password) \cap Letters = {}     THEN "missing_letter"
  ELSE IF ToSet(password) \cap Digits = {}      THEN "missing_digit"
  ELSE "ok"

is_valid_username(username) ==
  /\ Len(username) \in USERNAME_MIN_LEN..USERNAME_MAX_LEN
  /\ username # <<>> /\ username[1] \in Letters \cup Digits
  /\ ToSet(username) \subseteq {"a", "1", ".", "_", "-"}

=============================================================================
