------------------------------- MODULE Inputs -------------------------------
(***************************************************************************)
(* What the library makes of the texts that come from outside: accounts,   *)
(* keys of objects, entries of streams, queries for pages.  The operators  *)
(* are pure, so the state is a text of one kind, to which one symbol after *)
(* the other is added: every text up to a length is reached, and the       *)
(* invariants are claims about it.                                         *)
(***************************************************************************)
EXTENDS Validate, StorageKeys, StreamReply, Pagination

CONSTANT MaxLength  \* bound: the longest text

VARIABLES
  kind,  \* what the text is
  text   \* the text

Symbols ==
  [address |-> {"a", "A", "I", "@", ".", " "},
   name    |-> {"a", "A", "I", "1", "."},
   key     |-> {"a", "/", ".", "\\"},
   entry   |-> {"eventType", "payload", "other", "doc", "nil"},
   query   |-> {"0", "1", "3", "&"}]

InputsInit == kind \in DOMAIN Symbols /\ text = <<>>

Type(symbol) ==
  /\ Len(text) < MaxLength
  /\ text' = Append(text, symbol)
  /\ UNCHANGED kind

InputsNext == \E symbol \in Symbols[kind] : Type(symbol)

InputsSpec == InputsInit /\ [][InputsNext]_<<kind, text>>

-----------------------------------------------------------------------------
(* Accounts.                                                               *)

(* The lists of one domain that are tried: a.a and a.a.a, as they may be   *)
(* written, and one that nobody has.                                       *)
Lists ==
  {{<<"a", ".", "a">>}, {<<"@", "a", ".", "A">>}, {<<" ", "A", ".", "a", " ">>},
   {<<"a", ".", "a", ".", "a">>}, {<<"a">>}}

(* An address that is accepted is still acceptable as it is stored, unless *)
(* its lower case is too long (the length is checked before); its domain is*)
(* allowed if and only if it is the listed one, however both are written.  *)
AddressStaysGood ==
  is_valid_email(text) =>
    LET stored == normalize_email(text)
        parts == Split(stored, "@")
    IN /\ Bytes(parts[1]) <= LocalMax /\ Bytes(stored) <= EMAIL_MAX_LEN
            => is_valid_email(stored)
       /\ \A list \in Lists :
            /\ email_domain_allowed(text, list)
                 <=> \E entry \in list : parts[2] = ListedDomain(entry)
            /\ email_domain_allowed(text, list) <=> email_domain_allowed(stored, list)

(* A user name is its own normal form, so that two names never differ by   *)
(* case alone, and is nobody's address.                                    *)
NameIsNoAddress ==
  is_valid_username(text) => normalize_email(text) = text /\ ~is_valid_email(text)

(* What an error says of a password is true and all there is to do about   *)
(* it: the symbol that is missing makes it good, and more of anything does *)
(* not make a good one bad before it is too long.                          *)
PasswordErrorHelps ==
  LET With(symbols) == {validate_password(Append(text, s)) : s \in symbols}
  IN CASE validate_password(text) = "ok" ->
            With(Symbols.name) \subseteq {"ok", "too_long"}
       [] validate_password(text) = "missing_digit" ->
            With(Digits) \subseteq {"ok", "too_long"}
       [] validate_password(text) = "missing_letter" ->
            With(Letters) \subseteq {"ok", "missing_digit", "too_long"}
       [] OTHER -> TRUE

(* The rules of validate.rs fit together.                                  *)
AccountRules ==
  /\ kind = "address" => AddressStaysGood
  /\ kind = "name" => NameIsNoAddress /\ PasswordErrorHelps

-----------------------------------------------------------------------------
(* A valid key never leads out of the root (local.rs:78).  Its segments are*)
(* the name of the object in both backends, so that no two keys share an   *)
(* object, except that `.' segments mean nothing to a file system: such a  *)
(* key names what the key without them does, locally, and an object of its *)
(* own in S3.                                                              *)
KeysNameObjects ==
  kind = "key" /\ validate_key(text) =>
    LET segments == Split(text, "/")
        plain == Without(segments, Here)
    IN /\ Outside \notin ToSet(Walk(text))
       /\ Walk(text) = plain
       /\ (path(text) = Walk(text)) <=> (segments = plain)

-----------------------------------------------------------------------------
(* An event goes to the stream of its module, however much more its type   *)
(* says.                                                                   *)
TypesShareStreams ==
  kind = "key" =>
    \A i \in DOMAIN text :
      text[i] = "." => stream_name(SubSeq(text, 1, i - 1)) = stream_name(text)

(* A published event is read as it was published, whatever other fields the*)
(* entry has before and after, and whatever its type is called.            *)
PublishedIsRead ==
  LET Named(fields) == {fields[i] : i \in {j \in DOMAIN fields : j % 2 = 1}}
  IN kind = "entry" =>
       \A cut \in 0..Len(text), type \in Symbols.entry \ {"nil"} :
         LET before == SubSeq(text, 1, cut)
             after == SubSeq(text, cut + 1, Len(text))
         IN (cut % 2 = 0 /\ Named(after) \cap {"eventType", "payload"} = {})
              => parse_entry(before \o publish_fields(type, "doc") \o after)
                   = {[event_type |-> type, payload |-> "doc"]}

(* Events get to those who read their streams, as they were published.     *)
EventsFindTheirReaders == TypesShareStreams /\ PublishedIsRead

-----------------------------------------------------------------------------
(* page=..&pageSize=.. with either or both left out; the number must be a  *)
(* u32.                                                                    *)
Digit == [c \in {"0", "1", "3"} |-> CASE c = "0" -> 0 [] c = "1" -> 1 [] c = "3" -> 3]
Number(digits) ==
  IF digits = <<>> THEN {}
  ELSE {FoldLeft(LAMBDA n, c : 10 * n + Digit[c], 0, digits)}
U32(option) == option \subseteq 0..U32Max

(* The pages of a list lie side by side: the first begins with the first   *)
(* row, every other where the one before ends, so that no row is left out  *)
(* or shown twice, and a row that moves by one, because another came before*)
(* it, moves to the next page at most.  The parameters a response names    *)
(* lead to the same page again.                                            *)
PagesLieSideBySide ==
  kind = "query" =>
    LET parts == Split(text, "&")
        number == Number(parts[1])
        size == IF Len(parts) < 2 THEN {} ELSE Number(parts[2])
        this == PageOf(number, size)
        next == PageOf({page(number) + 1}, size)
    IN (Len(parts) <= 2 /\ U32(number) /\ U32(size)) =>
         /\ this.items # {} /\ Cardinality(this.items) <= MAX_LIMIT
         /\ page(number) = 1 => 1 \in this.items
         /\ page(number) < U32Max => Min(next.items) = Max(this.items) + 1
         /\ PageOf({this.page}, {this.page_size}) = this

=============================================================================
