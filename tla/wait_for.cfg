SPECIFICATION Spec
CONSTANTS
  Words <- MCWords
  Arguments <- MCArguments
  MaxArgs = 5
  MaxProbe = 2
  Default = "2"
  Environments <- MCEnvironments
  Number <- MCNumber
  Urls <- MCUrls
  HostOf <- MCHostOf
  PortOf <- MCPortOf
  TimeoutOf <- MCTimeoutOf
  Unbundled <- MCUnbundled
INVARIANTS CommandAsGiven 
PROPERTY Ends
\* The script ends.
CHECK_DEADLOCK FALSE
