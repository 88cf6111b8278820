---------------------------- MODULE MCEntryForms ----------------------------
(* Two currencies with a cash account each, one of them created while a    *)
(* form is open, one security account in each, and a stock to be found     *)
(* beside the one that is known. The rows of an option are five: fewer     *)
(* texts are typed into them.                                              *)
EXTENDS EntryForms

CONSTANTS e1, u1, e2, u2

Currencies ==
  [a \in {e1, u1, e2, u2} |-> IF a \in {e1, e2} THEN "EUR" ELSE "USD"]

(* Two digits make a base, and a micro_units has ten: a whole number of 8  *)
(* wraps to a negative price, of 16 to zero and of 17 to a wrong price, and *)
(* one of 512 is read by nobody.                                           *)
Tiny == [Number(0) EXCEPT !.digits = 1, !.places = 6]
Minus == [Number(5) EXCEPT !.as = "read", !.sign = -1]
Empty == [Number(0) EXCEPT !.as = "empty"]
Noise == [Number(0) EXCEPT !.as = "noise"]

Typed ==
  [k \in Kinds |->
     CASE k = "cash"   -> {Tiny, Minus, Empty, Noise}
                            \cup {Number(n) : n \in {0, 1, 8, 16, 17, 512}}
       [] k = "stock"  -> {Tiny, Minus, Noise, Number(8)}
       [] k = "option" -> {Tiny, Number(8)}]

LoadedWithProfile == [accounts |-> {e1, e2, u2}, stocks |-> {"AAPL"}]

HeaderLines == {<< >>, <<"A3">>, <<"A3", "B">>}
=============================================================================
