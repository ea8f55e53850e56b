------------------------------- MODULE MCAsk -------------------------------
(***************************************************************************)
(* AskServer on the restrictions a student may type: a clause of one cue   *)
(* and up to three words, read by the parser.                              *)
(***************************************************************************)
EXTENDS AskServer

MCCovers == [w \in {"milk", "nuts"} |-> IF w = "milk" THEN {"milk"} ELSE {"tree nuts", "peanuts"}]
MCPresets == [s \in {"s1"} |-> [start |-> 11, end |-> 13, asks |-> Unsaid]]
MCWords == UNION {{w \in [1..n -> [word : {"milk", "nuts", "beef", Furniture}, joined : BOOLEAN]] : ~w[1].joined} : n \in 1..3}

AskInit ==
    /\ answer = NoAnswer
    /\ ask \in [of : {"ask"}, scenario : {Unsaid}, device : {"none"}, from : {Unsaid}, to : {Unsaid}, now : {9},
                live : {FALSE}, provider : {"none"},
                text : [clauses : {{c} : c \in [cue : {"explicit", "reverse"}, words : MCWords]},
                        kcal : {{}}, diet : {Unsaid}, times : {<<>>}, from : {Unsaid}, to : {Unsaid}],
                \* No provider: what an assistant would propose is never read.
                model : {Unsaid}]

MCAskSpec == AskInit /\ [][PostAsk]_<<ask, answer>>
=============================================================================
