--------------------------- MODULE MCRecipeBuild ---------------------------
(***************************************************************************)
(* Bounds: two cars a page, MinCards 2 for the 3 of the code, three        *)
(* layouts, two redesigns; a builder, a program that tunes and an import   *)
(* of a file without a recipe, or with a recipe built elsewhere.           *)
(***************************************************************************)
EXTENDS RecipeBuild, TLC

CONSTANTS b1, t1, i1

Car(cut, model, price) == [model |-> <<cut, model>>, group_code |-> NoValue,
                           transmission |-> "M", price_final |-> price]

\* Elements 1 list, 2 and 6 cards with 3, 7 headings, 4, 8 prices, 5 the
\* price one car had before.
Above == (1 :> {} @@ 2 :> {1} @@ 3 :> {1, 2} @@ 4 :> {1, 2} @@ 5 :> {1, 2}
          @@ 6 :> {1} @@ 7 :> {1, 6} @@ 8 :> {1, 6})

Texts == (4 :> [price |-> 5000, struck |-> FALSE, visible |-> TRUE]
          @@ 5 :> [price |-> 4000, struck |-> TRUE, visible |-> TRUE]
          @@ 8 :> [price |-> 7000, struck |-> FALSE, visible |-> TRUE])

Listed == [above |-> Above, heading |-> (3 :> "polo" @@ 7 :> "golf"),
           text |-> Texts, aria |-> << >>, code |-> << >>, gear |-> (3 :> "M" @@ 7 :> "M"),
           told |-> <<Car("phrase", "polo", 5000), Car("name", "golf", 7000)>>]

\* The second car has no heading: pass 2 takes the whole list for it, and
\* drops the list because it contains the first.
Merged == [Listed EXCEPT !.heading = (3 :> "polo"),
                         !.told = <<Car("phrase", "polo", 5000)>>]

\* No cars, and a price of something else.
Bare == [Listed EXCEPT !.heading = << >>, !.told = << >>,
                       !.text = (4 :> [price |-> 900, struck |-> FALSE, visible |-> TRUE])]

MCLayouts == {[page |-> Listed, control |-> "panel", written |-> "xpath"],
              [page |-> Merged, control |-> "page", written |-> "css"],
              [page |-> Bare, control |-> "embedded", written |-> "css"]}

\* The truth, nothing, a car left out, a price misread.
MCListings(page) ==
  {page.told, << >>, IF page.told = << >> THEN << >> ELSE Tail(page.told)}
  \cup {[page.told EXCEPT ![i].price_final = @ + 100] : i \in DOMAIN page.told}

\* The right cards with a price selector; the whole list for a card.  The
\* model is cut with the words around it, as most card titles are.
MCStructures(page) ==
  {[cards |-> {2, 6}, cut |-> "phrase", price |-> TRUE],
   [cards |-> {1}, cut |-> "phrase", price |-> FALSE]}

MCBuilders == {b1}
MCTuners == {t1}
MCImporters == {i1}
MCFile == Recipe(0, AsRecipe([cards |-> {2, 6}, cut |-> "phrase", price |-> TRUE]),
                 [NoRefine EXCEPT !.strategy = "navigate", !.url = <<"file", 0>>])
MCDocuments == {NoValue, MCFile}
=============================================================================
