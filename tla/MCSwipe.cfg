SPECIFICATION Spec
CONSTANTS
  finger = finger
  mouse = mouse
  Touches <- OneTouch
  Mice <- OneMouse
  Positions <- Screen
  Slop = 1
  Reveal = 2
  Width = 6
  Commit = 3
  NoGesture = NoGesture
INVARIANT TypeOK RestsWhereRevealed OneSideShown SwipeNeverToggles
PROPERTY CommitsWhatIsShown
