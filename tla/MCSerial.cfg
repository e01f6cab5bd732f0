CONSTANTS
  t0 = t0
  t1 = t1
  t2 = t2
  Threads = {t0, t1, t2}
  Nobody = Nobody
  p1 = p1
  p2 = p2
  Ports = {p1, p2}
  NoPort = NoPort
  Fds = {3, 4}
  Eol = {2}
  OutRoom = 2
  MaxIn = 3
  InitialPort = p1
  InitialSettings <- FirstSettings
  InitialTerminal <- Cooked
  Jobs <- MCJobs
  MaxFaults = 1
  StandardRates = {9600, 38400, 115200}
  BaudBase = 115200
SPECIFICATION Spec
INVARIANT TypeOK
INVARIANT ReadsWhole
INVARIANT WritesWhole
INVARIANT SafeDescriptor
INVARIANT NoFalseAlarm
INVARIANT SettingsInEffect
PROPERTY ShortMeansTimeout
PROPERTY CallsReturn
