------------------------- MODULE ResultsExtraction -------------------------
(***************************************************************************)
(* The two readings of a results page and their comparison                 *)
(* (builder/extraction/): the cards and prices read with selectors, the    *)
(* list told by the language model, and verify(), which compares them.     *)
(*                                                                         *)
(* A page is a tree of elements numbered in document order:                *)
(*   above    the ancestors of every element, below the body               *)
(*   heading  heading element -> the model it shows                        *)
(*   aria     element -> the price of its aria-label                       *)
(*   text     element -> its price text [price, struck, visible]           *)
(*   code     element -> the category code it shows                        *)
(*   gear     element -> the transmission its label names                  *)
(*   told     the cars a person would read                                 *)
(* A structure is what the model proposes for a page: the elements its     *)
(* card selector matches, how the model text is cut, and whether it has a  *)
(* selector that reaches a price.                                          *)
(***************************************************************************)
EXTENDS Integers, SequencesExt

CONSTANTS NoValue,    \* a field that was not read
          MinCards,   \* 3 in the code: fewer cards call for the heuristic
          Tolerance   \* 2 cents: prices that differ by less agree

ASSUME ExtractionAssumption == MinCards \in Nat \ {0} /\ Tolerance \in Nat

Least(S) == CHOOSE x \in S : \A y \in S : x <= y

-----------------------------------------------------------------------------
(* Cards.                                                                  *)

Below(page, e) == {n \in DOMAIN page.above : e \in page.above[n]}

\* hasPrice: in the text of the element, or on the label of a descendant.
HasPrice(page, e) == \/ Below(page, e) \cap DOMAIN page.aria # {}
                     \/ (Below(page, e) \cup {e}) \cap DOMAIN page.text # {}

Leaves(page, S) == {e \in S : Below(page, e) \cap S = {}}

CardsBySelector(page, matched) == {e \in Leaves(page, matched) : HasPrice(page, e)}

\* The ancestors of a price, itself included, that hold a heading.
Titled(page, n) ==
    {e \in page.above[n] \cup {n} : Below(page, e) \cap DOMAIN page.heading # {}}

\* Pass 2 walks up from every visible price to the nearest such ancestor.
CardsByPrice(page) ==
    LET visible == {n \in DOMAIN page.text : page.text[n].visible}
        nearest(n) == CHOOSE e \in Titled(page, n) :
                        Below(page, e) \cap Titled(page, n) = {}
    IN  Leaves(page, {nearest(n) : n \in {m \in visible : Titled(page, m) # {}}})

MarkCards(page, matched) ==
    LET bySelector == CardsBySelector(page, matched)
        byPrice    == CardsByPrice(page)
    IN  IF Cardinality(bySelector) < MinCards
           /\ Cardinality(byPrice) > Cardinality(bySelector)
        THEN byPrice ELSE bySelector

-----------------------------------------------------------------------------
(* One car from one card.                                                  *)

\* A price selector, then an aria-label, then the least price of the text,
\* the struck ones only when there is no other.
PriceCascade(page, card, bySelector) ==
    LET labels == Below(page, card) \cap DOMAIN page.aria
        texts  == (Below(page, card) \cup {card}) \cap DOMAIN page.text
        plain  == {n \in texts : ~page.text[n].struck}
        least(S) == Least({page.text[n].price : n \in S})
    IN  IF bySelector /\ plain # {} THEN page.text[Least(plain)].price
        ELSE IF labels # {} THEN page.aria[Least(labels)]
        ELSE IF plain # {} THEN least(plain)
        ELSE IF texts # {} THEN least(texts) ELSE NoValue

\* The first element of the card that has a value in f (a Playwright .first).
FirstBelow(page, card, f) ==
    LET found == Below(page, card) \cap DOMAIN f
    IN  IF found = {} THEN NoValue ELSE f[Least(found)]

\* A model selector reads a heading, alone or with the words around it, which
\* is another text.
ModelText(page, card, cut) ==
    LET model == FirstBelow(page, card, page.heading)
    IN  IF model = NoValue \/ cut = NoValue THEN NoValue ELSE <<cut, model>>

ReadCard(page, card, structure) ==
    [model        |-> ModelText(page, card, structure.cut),
     group_code   |-> FirstBelow(page, card, page.code),
     transmission |-> FirstBelow(page, card, page.gear),
     price_final  |-> PriceCascade(page, card, structure.price)]

\* extract_vehicles_dom: every marked card, in the order of the document.
ReadCards(page, structure) ==
    LET cards == SetToSortSeq(MarkCards(page, structure.cards), <)
    IN  [i \in DOMAIN cards |-> ReadCard(page, cards[i], structure)]

\* Without a card selector nothing is read.
ExtractDom(page, structure) ==
    IF structure = NoValue THEN << >> ELSE ReadCards(page, structure)

\* A recipe keeps the selectors of its fields but neither the card selector,
\* which _recipe_to_results_structure replaces by one that matches nothing,
\* nor the price selector, which build_recipe leaves out.  Without a
\* structure it has the fixed extractors only.
AsRecipe(structure) == IF structure = NoValue
                       THEN [cards |-> {}, cut |-> NoValue, price |-> FALSE]
                       ELSE [structure EXCEPT !.cards = {}, !.price = FALSE]

-----------------------------------------------------------------------------
(* verify(): the list of the model is the reference.                       *)

SameIdentity(a, b) ==
    /\ a.model # NoValue /\ b.model # NoValue /\ a.model = b.model
    /\ a.group_code = NoValue \/ b.group_code = NoValue \/ a.group_code = b.group_code

\* Each reference car takes the first car left that has its identity.
MatchLists(llm, dom) ==
    LET Take(acc, car) ==
            LET i == SelectInSeq(acc.left, LAMBDA d : SameIdentity(car, d))
            IN  IF i = 0 THEN acc
                ELSE [left  |-> RemoveAt(acc.left, i),
                      pairs |-> Append(acc.pairs, <<car, acc.left[i]>>)]
    IN  FoldLeft(Take, [left |-> dom, pairs |-> << >>], llm).pairs

FieldsAgree(field, a, b) ==
    IF a = NoValue \/ b = NoValue THEN FALSE
    ELSE IF field = "price_final" THEN a - b \in -Tolerance .. Tolerance
    ELSE a = b

KeyFields == {"model", "group_code", "price_final", "transmission"}

\* At least nine of ten of the pairs that have the field agree on it; a field
\* no pair has counts as agreeing.
Agreement(pairs, field) ==
    LET compared == {i \in DOMAIN pairs :
                       \/ pairs[i][1][field] # NoValue
                       \/ pairs[i][2][field] # NoValue}
        agree == {i \in compared :
                    FieldsAgree(field, pairs[i][1][field], pairs[i][2][field])}
    IN  10 * Cardinality(agree) >= 9 * Cardinality(compared)

Verify(llm, dom) ==
    /\ llm # << >>
    /\ Len(llm) = Len(dom)
    /\ \A field \in KeyFields : Agreement(MatchLists(llm, dom), field)
=============================================================================
