SPECIFICATION LineSpec
CONSTANTS
  Width = 16
  ScxValues = {0, 3, 15}
  WxValues = {0, 7, 8, 10, 15, 22}
  ObjectLists <- MCObjectLists
  RenderLags = {3, 7}
  Writable = {"scx", "wx", "winOn", "objOn"}
  MaxLineWrites = 2
INVARIANTS PictureIsTheReference ModeThreeIsExact FetchIsWhole MergedInPlace
CHECK_DEADLOCK FALSE
