CONSTANTS
  Tasks = {cat, sh_w, wc}
  Cat = cat
  Shells = {sh_w}
  Wc = wc
  Typists = {cat}
  Writers = {cat, sh_w}
  Readers = {wc}
  INPUT_BUF = 2
  PIPESIZE = 2
  UINT = 4
  Letters = {a}
  NewLine = nl
  CtrlD = eof
  target = 2
  Blank = blank
  Empty = empty
  WcN = 1
SPECIFICATION Spec
INVARIANT StreamInv
PROPERTIES TerminalSafe ChannelSafe EofReachesReader InputArrives
