------------------------------ MODULE Redaction ------------------------------
(***************************************************************************)
(* Redactor::field: what becomes of a captured text before it is kept.     *)
(*                                                                         *)
(* Only a window of the text is looked at, secrets in it are replaced by a *)
(* marker, paths by an alias, and the result is cut to the cap of a field. *)
(*                                                                         *)
(* A text is a sequence of characters.  The patterns are abstracted to the *)
(* two forms they have: a block between delimiters, as short as possible   *)
(* (a private key), and a prefix with enough of a run behind it, as long   *)
(* as possible (a token).  The replacements are made of characters that    *)
(* neither form has.                                                       *)
(***************************************************************************)
EXTENDS Integers, Sequences, FiniteSets, SequencesExt

CONSTANTS
  MaxFieldBytes,   \* bytes of a field that are kept
  MinRun,          \* characters that a token has after its prefix
  Marker,          \* what replaces a secret
  Alias            \* what replaces the path of the home directory

\* A character of two bytes, the delimiters of a block, the prefix of a token,
\* the path of the home directory, and characters that a token is made of.
Wide == "w"
Open == "B"
Close == "E"
Prefix == "T"
Home == "H"
Plain == {"a", "b"}

Character == Plain \cup {Wide, Open, Close, Prefix, Home}

ASSUME RedactionAssumption ==
  /\ MaxFieldBytes \in Nat
  /\ MinRun \in Nat \ {0}
  /\ Marker \in Seq({"#"})
  /\ Alias \in Seq({"~"})

Bytes(text) == Len(text) + Cardinality({k \in DOMAIN text : text[k] = Wide})

\* floor_char_boundary: as many whole characters as fit.
Floor(text, limit) ==
  CHOOSE p \in Prefixes(text) :
    /\ Bytes(p) <= limit
    /\ \A q \in Prefixes(text) : Bytes(q) <= limit => Len(q) <= Len(p)

-----------------------------------------------------------------------------
(* The rules.  A match is the pair of its first and its last position.     *)

\* A delimiter and the first closing one after it.
IsBlock(text, i, j) ==
  /\ i < j
  /\ text[i] = Open
  /\ text[j] = Close
  /\ \A k \in (i + 1)..(j - 1) : text[k] # Close

\* A prefix and all that can follow it.
IsToken(text, i, j) ==
  /\ j - i >= MinRun
  /\ text[i] = Prefix
  /\ \A k \in (i + 1)..j : text[k] \in Plain
  /\ j < Len(text) => text[j + 1] \notin Plain

\* find_iter: the leftmost match, then the leftmost that begins after it.
Matches(text, Is(_, _, _)) ==
  LET found == {m \in (DOMAIN text) \X (DOMAIN text) : Is(text, m[1], m[2])}
  IN  {m \in found : \A n \in found : n[1] < m[1] => n[2] < m[1]}

\* replace_all.
Replace(text, matches, replacement) ==
  LET Piece(k) ==
        IF \E m \in matches : k = m[1] THEN replacement
        ELSE IF \E m \in matches : k \in m[1]..m[2] THEN <<>>
        ELSE <<text[k]>>
  IN  FlattenSeq([k \in DOMAIN text |-> Piece(k)])

HomeAt(text) == {<<k, k>> : k \in {i \in DOMAIN text : text[i] = Home}}

\* The rules one after the other, then the aliases.
Rewrite(text) ==
  LET unblocked == Replace(text, Matches(text, IsBlock), Marker)
      untokened == Replace(unblocked, Matches(unblocked, IsToken), Marker)
  IN  Replace(untokened, HomeAt(untokened), Alias)

Redactions(text) ==
  LET blocks == Matches(text, IsBlock)
  IN  Cardinality(blocks)
        + Cardinality(Matches(Replace(text, blocks, Marker), IsToken))

Window(text) == Floor(text, 2 * MaxFieldBytes)

\* Mutant: the text is cut to the cap before it is redacted.
CutFirst(text) ==
  [value     |-> Rewrite(Floor(text, MaxFieldBytes)),
   truncated |-> Bytes(text) > MaxFieldBytes,
   redactions |-> Redactions(Floor(text, MaxFieldBytes))]

Field(text) ==
  LET rewritten == Rewrite(Window(text))
  IN  [value      |-> Floor(rewritten, MaxFieldBytes),
       truncated  |-> \/ Bytes(rewritten) > MaxFieldBytes
                      \/ Bytes(text) > Bytes(Window(text)),
       redactions |-> Redactions(Window(text))]
=============================================================================
