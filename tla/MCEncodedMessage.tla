--------------------------- MODULE MCEncodedMessage ---------------------------
(***************************************************************************)
(* Values of the constants of EncodedMessage and ExactQuery for TLC.       *)
(***************************************************************************)
EXTENDS ExactQuery

Token(kind, chars) == [kind |-> kind, chars |-> chars]

(* Variables of one and two characters, and text that is an ordinary ASCII *)
(* character, one that is special in a query, a placeholder, or not ASCII. *)
Variables == {Token("dictionary", <<2>>), Token("dictionary", <<3, 2>>),
              Token("encoded", <<2>>), Token("encoded", <<3, 3>>)}
Texts == {Token("text", <<2>>), Token("text", <<Special>>),
          Token("text", <<DictionaryPlaceholder>>), Token("text", <<5>>)}

(* Between two variables there is text.                                    *)
Alternating(m) ==
  \A k \in 1 .. Len(m) - 1 : (m[k].kind = "text") # (m[k + 1].kind = "text")

MessagesUpTo(n) ==
  {m \in UNION {[1 .. k -> Variables \cup Texts] : k \in 0 .. n} : Alternating(m)}

Messages4 == MessagesUpTo(4)

(* What text with special characters may be taken for: a message without   *)
(* variables, or with one of each kind.                                    *)
Interpreted2 ==
  {<<Token("text", <<2>>)>>,
   <<Token("dictionary", <<2>>), Token("text", <<2>>), Token("encoded", <<2>>)>>}
=============================================================================
