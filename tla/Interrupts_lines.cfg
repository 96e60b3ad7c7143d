SPECIFICATION Spec
CONSTANTS
  Vicky = {sof, sol}
  Direct = {kbd, rtc}
  Clearers = {kbd}
  Maskers = {rtc}
  Cleared = {sof, kbd}
  sof = sof
  sol = sol
  kbd = kbd
  rtc = rtc
INVARIANT OwedAccounted
INVARIANT MaskFollowsCalls
