CONSTANTS
  Typed = {4, 99500}
  Currencies = {"USD", "NGN"}
  MaxRebuilds = 1
  MaxInputs = 3
SPECIFICATION FairScreenSpec
INVARIANTS ScreenTypeOK ShownQuoteAnswersParams FieldMeansAmount
PROPERTIES OnlyNewestSettles SettlesWhenQuiet
CHECK_DEADLOCK FALSE
