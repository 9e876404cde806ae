------------------------------- MODULE Picker -------------------------------
(***************************************************************************)
(* PickerCombineViewModel: the category, colour and cloth a user picks,    *)
(* and the Combine pipelines between them.                                 *)
(*                                                                         *)
(* A tap on a category is published to five pipelines: one stores the      *)
(* category, three fill the grids, one sends the colour of the cloth worn  *)
(* in that category on to the colour pipelines.  A colour is published to  *)
(* two pipelines; both paint the cloth of the current category, and each   *)
(* drops a colour that equals the last one it saw.  The first one saw the  *)
(* initial white, the second one did not, because a shared publisher       *)
(* replays nothing.                                                        *)
(***************************************************************************)
CONSTANTS
  Category,  \* ClothCategory.allCases
  Plain,     \* the categories without colours (.accessories)
  First,     \* .hat, the category at the start
  itemDic,   \* the names of the cloths of each category
  Hex,       \* the colours of presetDic
  White      \* "FFFFFF"

ASSUME PickerAssumption ==
  /\ First \in Category /\ Plain \subseteq Category
  /\ White \in Hex /\ Hex \cap {"", " "} = {}
  /\ DOMAIN itemDic = Category
  /\ \A c \in Category : itemDic[c] \cap {"", " "} = {}

VARIABLES
  selectedItems,    \* the outfit: a cloth or none for each category
  currentCategory,  \* assigned by the first category pipeline
  grid,             \* the category of currentItems, currentPresets, isColorEnable
  currentHex,       \* the colour that is highlighted
  assigned,         \* the last colour the first colour pipeline let through
  painted,          \* the last colour the second colour pipeline let through
  stored,           \* the outfit that was saved last
  inOrder           \* are pipelines called in the order they were set up?
                    \* Combine does so, and documents nothing

colours == <<currentHex, assigned, painted>>
vars    == <<selectedItems, currentCategory, grid, colours, stored, inOrder>>

Name  == UNION {itemDic[c] : c \in Category}
Cloth == [id : Name \cup {"", " "}, hex : Hex \cup {"", " "}]
None  == [id |-> "", hex |-> ""]     \* no entry in the dictionary
Blank == [id |-> " ", hex |-> " "]   \* what clearSelectedItem leaves

(* One type for each variable. *)
TypeOK ==
  /\ selectedItems \in [Category -> Cloth]
  /\ currentCategory \in Category
  /\ grid \in Category
  /\ currentHex \in Hex \cup {" "}
  /\ assigned \in Hex \cup {" "}
  /\ painted \in Hex \cup {"", " "}
  /\ stored \in [Category -> Cloth]
  /\ inOrder \in BOOLEAN

(* An outfit that a user can have saved in an earlier session. *)
Outfits ==
  {o \in [Category -> {None} \cup [id : Name, hex : Hex]] :
     \A c \in Category : o[c] = None \/ o[c].id \in itemDic[c]}

Init ==
  /\ selectedItems = [c \in Category |-> None]
  /\ currentCategory = First
  /\ grid = First
  /\ currentHex = White
  /\ assigned = White
  /\ painted = ""
  /\ stored \in Outfits
  /\ inOrder \in BOOLEAN

-----------------------------------------------------------------------------
(* Colours *)

(* setColorSubject.send(h) while the category is c.  The first pipeline    *)
(* assigns currentHex, whose didSet paints the cloth; the second paints it *)
(* too; each drops a colour that it let through last.                      *)
Send(h, c) ==
  LET first == h # assigned
      second == h # painted
  IN  /\ currentHex' = IF first THEN h ELSE currentHex
      /\ assigned' = h
      /\ painted' = h
      /\ selectedItems' =
           IF selectedItems[c] # None /\ (first \/ second)
           THEN [selectedItems EXCEPT ![c].hex = h] ELSE selectedItems

SetColor(h) ==
  /\ grid \notin Plain
  /\ Send(h, currentCategory)
  /\ UNCHANGED <<currentCategory, grid, stored, inOrder>>

-----------------------------------------------------------------------------
(* Categories *)

(* Mutant: the colour pipeline is forgotten. *)
SetCategoryColourless(c) ==
  /\ c # currentCategory
  /\ currentCategory' = c
  /\ grid' = c
  /\ UNCHANGED <<selectedItems, colours, stored, inOrder>>

(* Mutant: the colour pipeline is set up before the category's. *)
SetCategoryColourFirst(c) ==
  /\ c # currentCategory
  /\ currentCategory' = c
  /\ grid' = c
  /\ IF selectedItems[c] = None THEN UNCHANGED <<selectedItems, colours>>
     ELSE Send(selectedItems[c].hex, currentCategory)
  /\ UNCHANGED <<stored, inOrder>>

(* Mutant: the grid of cloths is not refilled. *)
SetCategoryOldGrid(c) ==
  /\ c # currentCategory
  /\ currentCategory' = c
  /\ UNCHANGED <<selectedItems, grid, colours, stored, inOrder>>

(* Mutant: a category without a cloth sends its missing colour. *)
SetCategoryNil(c) ==
  /\ c # currentCategory
  /\ currentCategory' = c
  /\ grid' = c
  /\ Send(selectedItems[c].hex, c)
  /\ UNCHANGED <<stored, inOrder>>

(* A tap on a category.  A colour that is sent before the first pipeline   *)
(* has stored the new category paints the cloth of the old one.            *)
SetCategory(c) ==
  /\ c # currentCategory
  /\ currentCategory' = c
  /\ grid' = c
  /\ \/ /\ selectedItems[c] = None
        /\ UNCHANGED <<selectedItems, colours>>
     \/ /\ selectedItems[c] # None
        /\ \E at \in IF inOrder THEN {c} ELSE {c, currentCategory} :
             Send(selectedItems[c].hex, at)
  /\ UNCHANGED <<stored, inOrder>>

-----------------------------------------------------------------------------
(* Cloths *)

(* A second tap on the cloth that is worn takes it off. *)
SelectItem(name) ==
  /\ name \in itemDic[grid]
  /\ selectedItems' = [selectedItems EXCEPT ![currentCategory] =
       IF @.id = name THEN None ELSE [id |-> name, hex |-> currentHex]]
  /\ UNCHANGED <<currentCategory, grid, colours, stored, inOrder>>

Cleared(o) == [c \in Category |-> IF o[c] = None THEN None ELSE Blank]

ClearSelectedItem ==
  /\ selectedItems' = Cleared(selectedItems)
  /\ UNCHANGED <<currentCategory, grid, colours, stored, inOrder>>

UploadItem ==
  /\ stored' = selectedItems
  /\ UNCHANGED <<selectedItems, currentCategory, grid, colours, inOrder>>

(* The callback of requestClothes: at the start, and after the buttons     *)
(* that finish and cancel an outfit.                                       *)
RequestClothes ==
  /\ selectedItems' = stored
  /\ UNCHANGED <<currentCategory, grid, colours, stored, inOrder>>

-----------------------------------------------------------------------------

Next ==
  \/ \E h \in Hex : SetColor(h)
  \/ \E c \in Category : SetCategory(c)
  \/ \E n \in Name : SelectItem(n)
  \/ ClearSelectedItem \/ UploadItem \/ RequestClothes

Spec == Init /\ [][Next]_vars

-----------------------------------------------------------------------------
(* Properties *)

(* Looking at another category changes no cloth and no colour of the       *)
(* outfit, although the switch sends a colour that paints; the order in    *)
(* which the pipelines were set up is needed for that.                     *)
SwitchKeepsOutfit ==
  [][inOrder /\ currentCategory' # currentCategory => selectedItems' = selectedItems]_vars

(* The cloth that is worn in the open category has the highlighted colour. *)
InStep ==
  selectedItems[currentCategory] # None =>
    selectedItems[currentCategory].hex = currentHex

(* Taps on colours, cloths and categories keep the cloth and the highlight *)
(* in step, and a switch brings them back, although two pipelines paint    *)
(* and each drops what it takes for a duplicate.  Only a reload or a reset *)
(* of the whole outfit parts them, which no pipeline hears of: until the   *)
(* next switch, a tap on the highlighted colour may be dropped.            *)
ColourInStep ==
  [][/\ InStep /\ ~InStep' => selectedItems' \in {stored, Cleared(selectedItems)}
     /\ currentCategory' # currentCategory => InStep']_vars

(* What is worn in a category is a cloth of that category. *)
NamesFit ==
  \A c \in Category : selectedItems[c].id \in itemDic[c] \cup {"", " "}
=============================================================================
