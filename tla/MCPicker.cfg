SPECIFICATION Spec
CONSTANTS
  Category = {"hat", "top", "accessories"}
  Plain = {"accessories"}
  First = "hat"
  itemDic <- MCItemDic
  Hex = {"FFFFFF", "000000"}
  White = "FFFFFF"
INVARIANTS TypeOK NamesFit
PROPERTIES SwitchKeepsOutfit ColourInStep
