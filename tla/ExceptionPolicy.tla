----------------------------- MODULE ExceptionPolicy -----------------------------
(* DefaultExceptionPolicy.cs and RasGetConnectStatusExceptionPolicy.cs:    *)
(* the exception a caller gets for the error code of a call into Windows.  *)
EXTENDS Integers

SUCCESS                == 0
ERROR_INVALID_HANDLE   == 6
RASBASE                == 600
RASBASEEND             == RASBASE + 275
ERROR_INVALID_SIZE     == RASBASE + 32
ERROR_NO_CONNECTION    == RASBASE + 68
IPSECBASE              == 13000
IPSECBASEEND           == 13999

IsRasErrorCode(code)   == code \in RASBASE..RASBASEEND
IsIPSecErrorCode(code) == code \in IPSECBASE..IPSECBASEEND

Exception(class, code) == [class |-> class, code |-> code]

Create(code) ==
    Exception(CASE code = SUCCESS -> "ArgumentException"
                [] code = ERROR_INVALID_SIZE -> "OperatingSystemNotSupported"
                [] IsRasErrorCode(code) /\ code # ERROR_INVALID_SIZE -> "RasException"
                [] IsIPSecErrorCode(code) -> "IPSecException"
                [] OTHER -> "Win32Exception", code)

(* The status of a connection that has ended is asked for with a handle    *)
(* that is no longer valid.                                                *)
CreateForStatus(code) ==
    Create(IF code = ERROR_INVALID_HANDLE THEN ERROR_NO_CONNECTION ELSE code)
=============================================================================
