---------------------------- MODULE PickerProofs ----------------------------
(***************************************************************************)
(* For any categories, cloths and colours: the picker keeps its types,     *)
(* never puts a cloth on the wrong category, looking at a category changes *)
(* nothing, and the highlighted colour stays that of the cloth.            *)
(*                                                                         *)
(* NamesFit is not inductive.  A name is taken from the grid and worn in   *)
(* currentCategory, which two pipelines assign; an outfit is reloaded from *)
(* the one that was saved; and a colour is sent on only because a cloth    *)
(* that is worn always has one.  That no switch is lost on the highlight   *)
(* needs that what the first colour pipeline remembers is what is shown.   *)
(***************************************************************************)
EXTENDS Picker, TLAPS

(* The pipelines for the category and for the grids agree. *)
GridAgrees == grid = currentCategory

(* The outfit o has cloths where they belong, and each has a colour. *)
Proper(o) ==
  \A c \in Category : /\ o[c].id \in itemDic[c] \cup {"", " "}
                      /\ o[c] # None => o[c].hex \in Hex \cup {" "}

(* The first colour pipeline drops no colour but the one that is shown. *)
ShownIsAssigned == currentHex = assigned

IInv == TypeOK /\ GridAgrees /\ ShownIsAssigned /\ Proper(selectedItems) /\ Proper(stored)

(* A cloth in another colour is a cloth of the same name. *)
LEMMA Recoloured ==
  ASSUME NEW k \in Cloth, NEW h \in Hex \cup {" "}
  PROVE  /\ [k EXCEPT !.hex = h] \in Cloth
         /\ [k EXCEPT !.hex = h].id = k.id
         /\ [k EXCEPT !.hex = h].hex = h
         /\ h = k.hex => [k EXCEPT !.hex = h] = k
BY DEF Cloth

(* A colour that is sent changes colours only, and only of category c. *)
LEMMA SendEffect ==
  ASSUME TypeOK, ShownIsAssigned, Proper(selectedItems), NEW h \in Hex \cup {" "},
         NEW c \in Category, Send(h, c)
  PROVE  /\ selectedItems' \in [Category -> Cloth]
         /\ Proper(selectedItems)'
         /\ currentHex' = h /\ assigned' = h /\ painted' = h
         /\ \/ selectedItems' = selectedItems
            \/ selectedItems' = [selectedItems EXCEPT ![c] = [selectedItems[c] EXCEPT !.hex = h]]
         /\ \/ selectedItems[c] = None \/ selectedItems'[c].hex = h
            \/ selectedItems' = selectedItems /\ h = currentHex
<1> DEFINE k == [selectedItems[c] EXCEPT !.hex = h]
<1>1. selectedItems \in [Category -> Cloth] /\ selectedItems[c] \in Cloth
  BY DEF TypeOK
<1>2. k \in Cloth /\ k.id = selectedItems[c].id /\ k.hex = h
  BY <1>1, Recoloured
<1>3. currentHex' = h /\ assigned' = h /\ painted' = h
  BY DEF Send, ShownIsAssigned
<1>4. \/ selectedItems' = selectedItems /\ (selectedItems[c] = None \/ h = currentHex)
      \/ selectedItems' = [selectedItems EXCEPT ![c] = k]
  BY DEF Send, ShownIsAssigned
<1> HIDE DEF k
<1>5. ASSUME selectedItems' = selectedItems
      PROVE  selectedItems' \in [Category -> Cloth] /\ Proper(selectedItems)'
  BY <1>1, <1>5 DEF Proper
<1>6. ASSUME selectedItems' = [selectedItems EXCEPT ![c] = k]
      PROVE  /\ selectedItems' \in [Category -> Cloth] /\ Proper(selectedItems)'
             /\ selectedItems'[c].hex = h
  <2>1. selectedItems' \in [Category -> Cloth]
        /\ \A x \in Category : selectedItems'[x] = IF x = c THEN k ELSE selectedItems[x]
    BY <1>1, <1>2, <1>6
  <2>2. Proper(selectedItems)'
    BY <1>2, <2>1 DEF Proper
  <2>3. selectedItems'[c].hex = h
    BY <1>2, <2>1
  <2> QED
    BY <2>1, <2>2, <2>3
<1>7. selectedItems' \in [Category -> Cloth] /\ Proper(selectedItems)'
  BY <1>4, <1>5, <1>6
<1>8. \/ selectedItems[c] = None \/ selectedItems'[c].hex = h
      \/ selectedItems' = selectedItems /\ h = currentHex
  BY <1>4, <1>6
<1> QED
  BY <1>3, <1>4, <1>7, <1>8 DEF k

(* At the start nothing is worn. *)
LEMMA InitIInv == Init => IInv
<1> SUFFICES ASSUME Init PROVE IInv
  OBVIOUS
<1>1. None \in Cloth
  BY DEF None, Cloth
<1>2. stored \in [Category -> Cloth] /\ Proper(stored)
  <2>1. stored \in [Category -> {None} \cup [id : Name, hex : Hex]]
        /\ \A c \in Category : stored[c] = None \/ stored[c].id \in itemDic[c]
    BY DEF Init, Outfits
  <2>2. \A c \in Category : stored[c] \in Cloth
    BY <2>1, <1>1 DEF Cloth
  <2>3. ASSUME NEW c \in Category
        PROVE  stored[c].id \in itemDic[c] \cup {"", " "} /\ (stored[c] # None => stored[c].hex \in Hex)
    <3>1. CASE stored[c] = None
      <4>1. None.id = ""
        BY DEF None
      <4> QED
        BY <3>1, <4>1
    <3>2. CASE stored[c] # None
      BY <2>1, <3>2
    <3> QED
      BY <3>1, <3>2
  <2>4. Proper(stored)
    BY <2>3 DEF Proper
  <2> QED
    BY <2>1, <2>2, <2>4
<1>3. Proper(selectedItems)
  BY DEF Init, Proper, None
<1>4. TypeOK
  BY <1>1, <1>2, PickerAssumption DEF Init, TypeOK
<1> QED
  BY <1>2, <1>3, <1>4 DEF IInv, Init, GridAgrees, ShownIsAssigned

(* Every tap and every reload keeps the invariant. *)
LEMMA NextIInv == IInv /\ [Next]_vars => IInv'
<1> SUFFICES ASSUME IInv, [Next]_vars PROVE IInv'
  OBVIOUS
<1> USE DEF IInv
<1>0. selectedItems \in [Category -> Cloth] /\ currentCategory \in Category /\ grid \in Category
  BY DEF TypeOK
<1>1. ASSUME NEW h \in Hex, SetColor(h) PROVE IInv'
  <2>1. Send(h, currentCategory)
    BY <1>1 DEF SetColor
  <2>2. /\ selectedItems' \in [Category -> Cloth] /\ Proper(selectedItems)'
        /\ currentHex' = h /\ assigned' = h /\ painted' = h
    BY <1>0, <2>1, SendEffect
  <2>3. UNCHANGED <<currentCategory, grid, stored, inOrder>>
    BY <1>1 DEF SetColor
  <2>4. Proper(stored)'
    BY <2>3 DEF Proper
  <2> QED
    BY <2>2, <2>3, <2>4 DEF TypeOK, GridAgrees, ShownIsAssigned
<1>2. ASSUME NEW c \in Category, SetCategory(c) PROVE IInv'
  <2>1. CASE selectedItems[c] = None
    BY <1>2, <2>1 DEF SetCategory, colours, TypeOK, GridAgrees, ShownIsAssigned, Proper
  <2>2. CASE selectedItems[c] # None
    <3>1. PICK at \in Category : Send(selectedItems[c].hex, at)
      BY <1>0, <1>2, <2>2 DEF SetCategory
    <3>2. selectedItems[c].hex \in Hex \cup {" "}
      BY <2>2 DEF Proper
    <3>3. PICK h \in Hex \cup {" "} : h = selectedItems[c].hex
      BY <3>2
    <3>4. /\ selectedItems' \in [Category -> Cloth] /\ Proper(selectedItems)'
          /\ currentHex' = h /\ assigned' = h /\ painted' = h
      BY <3>1, <3>3, SendEffect
    <3>5. currentCategory' = c /\ grid' = c /\ UNCHANGED <<stored, inOrder>>
      BY <1>2 DEF SetCategory
    <3>6. Proper(stored)'
      BY <3>5 DEF Proper
    <3> QED
      BY <3>4, <3>5, <3>6 DEF TypeOK, GridAgrees, ShownIsAssigned
  <2> QED
    BY <2>1, <2>2
<1>3. ASSUME NEW n \in Name, SelectItem(n) PROVE IInv'
  <2>1. n \in itemDic[currentCategory]
    BY <1>3 DEF SelectItem, GridAgrees
  <2>2. currentHex \in Hex \cup {" "}
    BY DEF TypeOK
  <2> DEFINE k == [id |-> n, hex |-> currentHex]
  <2>3. k \in Cloth /\ None \in Cloth /\ k.id = n /\ k.hex = currentHex /\ None.id = ""
    BY <2>2 DEF Cloth, None
  <2>4. selectedItems' = [selectedItems EXCEPT ![currentCategory] = None] \/
        selectedItems' = [selectedItems EXCEPT ![currentCategory] = k]
    BY <1>3 DEF SelectItem
  <2> HIDE DEF k
  <2>5. selectedItems' \in [Category -> Cloth] /\ Proper(selectedItems)'
    BY <1>0, <2>1, <2>2, <2>3, <2>4 DEF Proper
  <2> QED
    BY <1>3, <2>5 DEF SelectItem, colours, TypeOK, GridAgrees, ShownIsAssigned, Proper
<1>4. CASE ClearSelectedItem
  <2>1. Blank \in Cloth /\ None \in Cloth /\ Blank.id = " " /\ Blank.hex = " " /\ None.id = ""
    BY DEF Blank, None, Cloth
  <2>2. selectedItems' \in [Category -> Cloth] /\ Proper(selectedItems)'
    BY <1>4, <2>1 DEF ClearSelectedItem, Cleared, Proper
  <2> QED
    BY <1>4, <2>2 DEF ClearSelectedItem, colours, TypeOK, GridAgrees, ShownIsAssigned, Proper
<1>5. CASE UploadItem
  BY <1>5 DEF UploadItem, colours, TypeOK, GridAgrees, ShownIsAssigned, Proper
<1>6. CASE RequestClothes
  BY <1>6 DEF RequestClothes, colours, TypeOK, GridAgrees, ShownIsAssigned, Proper
<1>7. CASE UNCHANGED vars
  BY <1>7 DEF vars, colours, TypeOK, GridAgrees, ShownIsAssigned, Proper
<1> QED
  BY <1>1, <1>2, <1>3, <1>4, <1>5, <1>6, <1>7 DEF Next

(* The invariant holds in every reachable state. *)
LEMMA Invariance == Spec => []IInv
BY InitIInv, NextIInv, PTL DEF Spec

-----------------------------------------------------------------------------

(* Types: in particular, the pipelines of PickerCombineViewModel never     *)
(* send the missing colour of a cloth that is not worn.                    *)
THEOREM TypeCorrect == Spec => []TypeOK
<1>1. IInv => TypeOK
  BY DEF IInv
<1> QED
  BY <1>1, Invariance, PTL

(* What is worn in a category is a cloth of that category, although        *)
(* selectItem and the grids take the category from different pipelines.    *)
THEOREM NamesAlwaysFit == Spec => []NamesFit
<1>1. IInv => NamesFit
  BY DEF IInv, Proper, NamesFit
<1> QED
  BY <1>1, Invariance, PTL

(* A change of the category is a tap on one. *)
LEMMA Switch ==
  ASSUME [Next]_vars, currentCategory' # currentCategory
  PROVE  \E c \in Category : SetCategory(c) /\ currentCategory' = c
<1>1. \A c \in Category : SetCategory(c) => currentCategory' = c
  BY DEF SetCategory
<1> QED
  BY <1>1 DEF Next, vars, colours, SetColor, SelectItem, ClearSelectedItem, UploadItem, RequestClothes

(* setCategory changes no cloth and no colour of the outfit, as long as    *)
(* the pipelines are called in the order they were set up.                 *)
THEOREM SwitchHarmless == Spec => SwitchKeepsOutfit
<1>1. ASSUME IInv, [Next]_vars, inOrder, currentCategory' # currentCategory
      PROVE  selectedItems' = selectedItems
  <2>1. PICK c \in Category : SetCategory(c)
    BY <1>1, Switch
  <2>2. selectedItems \in [Category -> Cloth] /\ selectedItems[c] \in Cloth
    BY <1>1 DEF IInv, TypeOK
  <2>3. CASE selectedItems[c] = None
    BY <2>1, <2>3 DEF SetCategory
  <2>4. CASE selectedItems[c] # None
    <3>1. Send(selectedItems[c].hex, c)
      BY <1>1, <2>1, <2>4 DEF SetCategory
    <3>2. selectedItems[c].hex \in Hex \cup {" "}
      BY <1>1, <2>4 DEF IInv, Proper
    <3>3. selectedItems' = selectedItems \/ selectedItems' =
            [selectedItems EXCEPT ![c] = [selectedItems[c] EXCEPT !.hex = selectedItems[c].hex]]
      BY <3>1 DEF Send
    <3>4. [selectedItems[c] EXCEPT !.hex = selectedItems[c].hex] = selectedItems[c]
      BY <2>2, <3>2, Recoloured
    <3> QED
      BY <2>2, <3>3, <3>4
  <2> QED
    BY <2>3, <2>4
<1>2. IInv /\ [Next]_vars =>
        [inOrder /\ currentCategory' # currentCategory => selectedItems' = selectedItems]_vars
  BY <1>1
<1> QED
  BY <1>2, Invariance, PTL DEF Spec, SwitchKeepsOutfit

(* The cloth worn in the open category and the highlighted colour come out *)
(* of step only by a reload or a reset, and a switch of the category       *)
(* brings them back, in whichever order the pipelines are called.          *)
THEOREM ColourStaysInStep == Spec => ColourInStep
<1> DEFINE Kept == InStep /\ ~InStep' => selectedItems' \in {stored, Cleared(selectedItems)}
           Back == currentCategory' # currentCategory => InStep'
<1>1. ASSUME IInv, [Next]_vars PROVE Kept /\ Back
  <2>0. /\ TypeOK /\ ShownIsAssigned /\ Proper(selectedItems) /\ currentCategory \in Category
        /\ selectedItems \in [Category -> Cloth]
    BY <1>1 DEF IInv, TypeOK
  <2>1. ASSUME NEW h \in Hex, SetColor(h)
        PROVE  (InStep => InStep') /\ currentCategory' = currentCategory
    <3>1. Send(h, currentCategory) /\ currentCategory' = currentCategory
      BY <2>1 DEF SetColor
    <3>2. PICK k \in Category : k = currentCategory
      BY <2>0
    <3>3. /\ currentHex' = h
          /\ \/ selectedItems' = selectedItems
             \/ selectedItems' =
                  [selectedItems EXCEPT ![k] = [selectedItems[k] EXCEPT !.hex = h]]
          /\ \/ selectedItems[k] = None \/ selectedItems'[k].hex = h
             \/ selectedItems' = selectedItems /\ h = currentHex
      BY <2>0, <3>1, <3>2, SendEffect
    <3>4. selectedItems[k] = None => selectedItems' = selectedItems
      BY <3>1, <3>2 DEF Send
    <3> QED
      BY <3>1, <3>2, <3>3, <3>4 DEF InStep
  <2>2. ASSUME NEW c \in Category, SetCategory(c)
        PROVE  InStep'
    <3>1. currentCategory' = c /\ c # currentCategory
      BY <2>2 DEF SetCategory
    <3>2. CASE selectedItems[c] = None
      BY <2>2, <3>1, <3>2 DEF SetCategory, InStep
    <3>3. CASE selectedItems[c] # None
      <4>1. PICK at \in Category : Send(selectedItems[c].hex, at)
        BY <2>0, <2>2, <3>3 DEF SetCategory
      <4>2. PICK h \in Hex \cup {" "} : h = selectedItems[c].hex
        BY <2>0, <3>3 DEF Proper
      <4>3. /\ currentHex' = h
            /\ \/ selectedItems' = selectedItems
               \/ selectedItems' =
                    [selectedItems EXCEPT ![at] = [selectedItems[at] EXCEPT !.hex = h]]
        BY <2>0, <4>1, <4>2, SendEffect
      <4>4. [selectedItems[at] EXCEPT !.hex = h].hex = h
        BY <2>0, Recoloured
      <4>5. selectedItems'[c].hex = h
        BY <2>0, <4>2, <4>3, <4>4
      <4> QED
        BY <3>1, <4>3, <4>5 DEF InStep
    <3> QED
      BY <3>2, <3>3
  <2>3. ASSUME NEW n \in Name, SelectItem(n)
        PROVE  InStep' /\ currentCategory' = currentCategory
    <3>1. currentCategory' = currentCategory /\ currentHex' = currentHex
      BY <2>3 DEF SelectItem, colours
    <3>2. \/ selectedItems'[currentCategory] = None
          \/ selectedItems'[currentCategory] = [id |-> n, hex |-> currentHex]
      BY <2>0, <2>3 DEF SelectItem
    <3> QED
      BY <3>1, <3>2 DEF InStep
  <2>4. CASE ClearSelectedItem
    BY <2>4 DEF ClearSelectedItem
  <2>5. CASE RequestClothes
    BY <2>5 DEF RequestClothes
  <2>6. CASE UploadItem \/ UNCHANGED vars
    BY <2>6 DEF UploadItem, vars, colours, InStep
  <2> QED
    BY <1>1, <2>1, <2>2, <2>3, <2>4, <2>5, <2>6 DEF Next
<1>2. IInv /\ [Next]_vars => [Kept /\ Back]_vars
  BY <1>1
<1> QED
  BY <1>2, Invariance, PTL DEF Spec, ColourInStep
=============================================================================
