------------------------------ MODULE MCDaemon ------------------------------
(***************************************************************************)
(* Daemon for TLC: u1 and u2 are USB connections and t1 is a TCP           *)
(* connection of the console d1, t2 is a TCP connection of d2, a and b are *)
(* clients.  A behaviour has one of the settings, chosen at the start, in  *)
(* which only some of them take part.                                      *)
(***************************************************************************)
EXTENDS Daemon
CONSTANTS u1, u2, t1, t2, d1, d2, a, b,
          Settings   \* the settings of the run

VARIABLE setting

AllConns == {u1, u2, t1, t2}
BothUsb == {u1, u2}
BothDevices == {d1, d2}
BothClients == {a, b}
WhichDevice == [c \in AllConns |-> IF c = t2 THEN d2 ELSE d1]

\* One USB console, two clients that open and close objects and leave.
OneUsb == INSTANCE Daemon WITH Conns <- {u1}, Usb <- {u1}, DeviceIds <- {d1}, DeviceOf <- [c \in {u1} |-> d1],
            Clients <- {a, b}, MayFail <- {}, Commands <- {"open", "close"}, MaxRequests <- 2, MaxObjects <- 1

\* A console on TCP and USB whose USB connection fails and comes back.
Mixed == INSTANCE Daemon WITH Conns <- {t1, u1, u2}, Usb <- {u1, u2}, DeviceIds <- {d1},
            DeviceOf <- [c \in {t1, u1, u2} |-> d1],
            Clients <- {a}, MayFail <- {u1}, Commands <- {"open"}, MaxRequests <- 1, MaxObjects <- 1

\* Two TCP consoles of which one fails.
TwoTcp == INSTANCE Daemon WITH Conns <- {t1, t2}, Usb <- {}, DeviceIds <- {d1, d2},
            DeviceOf <- [c \in {t1, t2} |-> IF c = t1 THEN d1 ELSE d2],
            Clients <- {a}, MayFail <- {t1}, Commands <- {"list", "open", "close"}, MaxRequests <- 2, MaxObjects <- 2

\* A console on TCP and USB whose TCP connection fails.
TcpFails == INSTANCE Daemon WITH Conns <- {t1, u1}, Usb <- {u1}, DeviceIds <- {d1}, DeviceOf <- [c \in {t1, u1} |-> d1],
            Clients <- {a}, MayFail <- {t1}, Commands <- {"open"}, MaxRequests <- 0, MaxObjects <- 1

SettingInit == setting \in Settings /\ Init
OneUsbStep == setting = "one usb" /\ OneUsb!Next /\ UNCHANGED setting
MixedStep == setting = "mixed" /\ Mixed!Next /\ UNCHANGED setting
TwoTcpStep == setting = "two tcp" /\ TwoTcp!Next /\ UNCHANGED setting
TcpFailsStep == setting = "tcp fails" /\ TcpFails!Next /\ UNCHANGED setting
SettingNext == OneUsbStep \/ MixedStep \/ TwoTcpStep \/ TcpFailsStep
SettingSpec == SettingInit /\ [][SettingNext]_<<setting, vars>>

=============================================================================
